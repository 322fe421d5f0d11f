SPECIFICATION Spec
CONSTANTS
  p1 = p1
  p2 = p2
  d1 = d1
  d2 = d2
  Procs = {p1, p2}
  Devices = {d1, d2}
  NoDevice = NoDevice
  NoProc = NoProc
  Id <- Ids
  KnownIds <- Known
  Bus <- TwoSticks
  Sticks <- SomeSticks
SYMMETRY ProcSymmetry
INVARIANTS TypeOK OpenedIsUsable CleanUnlessUnset
PROPERTY LockSpec
