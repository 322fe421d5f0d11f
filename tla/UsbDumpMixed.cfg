SPECIFICATION Spec
CONSTANTS
  MaxCommands = 3
  Kinds = {"in"}
  GoesOn = TRUE
INVARIANT OwnAnswer
