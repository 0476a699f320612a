SPECIFICATION Spec
CONSTANTS
  c1 = c1
  c2 = c2
  Conns <- TwoConns
  Devices = {"gpib5"}
  MaxLinks = 2
  MaxLid = 3
  None = None
INVARIANT
  LocksGoWithTheConnection
CHECK_DEADLOCK FALSE
