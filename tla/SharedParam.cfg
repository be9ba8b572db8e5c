SPECIFICATION Spec
CONSTANTS
  Servers = {s1, s2, s3}
  Clients = {c1}
  Lines <- SomeLines
  MaxClock = 2
SYMMETRY Symmetry
INVARIANTS OneServerPerFile SameWordsMeet ServerPrintsOwn ClientNotBehind IInv
CHECK_DEADLOCK FALSE
