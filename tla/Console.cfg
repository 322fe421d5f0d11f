SPECIFICATION FairSpec
CONSTANTS
  MaxPassword = 4
  BlockBytes = 8
  LengthBytes = 2
  TypeAhead = 1
  KnownLength = 3
  Lines <- SomeLines
INVARIANTS TypeOK HashIsPadded BufferFits HashInv LinesAreApart PasswordNeverShown EchoComesBack ConsoleInv
PROPERTIES PromptEnds PromptAdvances
