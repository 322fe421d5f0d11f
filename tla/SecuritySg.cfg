SPECIFICATION Spec
CONSTANTS
  p1 = p1
  p2 = p2
  Procs = {p1, p2}
  Actions <- AllActions
  Passwords = {pw, other}
  KnownPassword = pw
  pw = pw
  other = other
  NoPassword = NoPassword
  TotalSize = 2
  RoundedTotal = 2
  MaxTry = 3
  Exclusive = FALSE
SYMMETRY ProcSymmetry
INVARIANT LocalInv
PROPERTY ConsentBeforeReplacing
