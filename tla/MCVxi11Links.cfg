SPECIFICATION Spec
CONSTANTS
  c1 = c1
  c2 = c2
  Conns <- TwoConns
  Devices = {"gpib5", "gpib7"}
  MaxLinks = 2
  MaxLid = 3
  None = None
SYMMETRY Symmetry
INVARIANTS
  LocksEndWithTheirLinks
  LinksAreRecovered
PROPERTIES
  LocksAreKept
CHECK_DEADLOCK FALSE
