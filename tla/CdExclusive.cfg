SPECIFICATION FairSpec
CONSTANTS
  p1 = p1
  p2 = p2
  Procs = {p1, p2}
  Actions = {"partition", "load"}
  Requests <- SomeRequests
  IsoSizes <- SomeFiles
  SectorSize = 2
  BlockSectors = 2
  DeviceSize = 7
  Word = 16
  RoundUp <- NextEven
  RoundDown <- Even
  Exclusive = TRUE
INVARIANTS TypeOK TableFits WritesInside OkMeansLoaded LoadInv
PROPERTIES PartitionMeetsRequest LoadEnds
