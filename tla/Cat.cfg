SPECIFICATION FairSpec
CONSTANTS
  Inputs <- SomeInputs
  IntMax = 15
  ReadMax = 12
  StrSize = 5
INVARIANTS IInv LinesExact TailKeepsEnd RivalsRefused StdinWordsExact
PROPERTY Ends
CHECK_DEADLOCK FALSE
