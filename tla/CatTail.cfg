SPECIFICATION Spec
CONSTANTS
  Inputs <- SomeInputs
  IntMax = 15
  ReadMax = 12
  StrSize = 5
INVARIANT TailPrintsLast
CHECK_DEADLOCK FALSE
