SPECIFICATION FairSpec
CONSTANTS
  MaxCommands = 3
  Kinds <- AllKinds
  GoesOn = FALSE
INVARIANTS TypeOK OwnAnswer NeverAborts ExchangeInv
PROPERTIES ChannelSpec SendReturns
