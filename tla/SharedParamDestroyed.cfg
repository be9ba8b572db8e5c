SPECIFICATION Spec
CONSTANTS
  Servers = {s1}
  Clients = {c1}
  Lines <- SomeLines
  MaxClock = 1
PROPERTY DestroyedMeansGone
CHECK_DEADLOCK FALSE
