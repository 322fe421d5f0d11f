SPECIFICATION Spec
CONSTANTS
  Callers <- AllCallers
  Header = 2
  Size <- SomeSizes
  Lengths = {0, 1, 2, 3, 4, 5}
INVARIANTS TypeOK ReadsFit WholeUnlessShort ExitTells
