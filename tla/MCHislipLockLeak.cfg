SPECIFICATION Spec
CONSTANTS
  s1 = s1
  s2 = s2
  s3 = s3
  Sessions <- TwoSessions
  Ids = {0, 2, 4}
  MaxSessions = 2
  Instrument = "gpib5"
  None = None
  MaxLevel = 1
INVARIANT LocksGoWithTheSession
CHECK_DEADLOCK FALSE
