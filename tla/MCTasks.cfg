SPECIFICATION MCSpec
CONSTANTS
  c1 = c1
  c2 = c2
  a1 = a1
  Callers <- MCCallers
  Aborters <- MCAborters
  MaxCalls = 2
  MaxAborts = 2
  MaxMessages = 3
  MaxClears = 2
  MaxQueries = 1
INVARIANTS
  CommandsAreWhole
  NoStaleReplies
  MavMeansReply
  AbortIsConsumedOnce
PROPERTIES
  StaleStatusIsARace
  ClearsComplete
  AbortedCallsReturn
CHECK_DEADLOCK FALSE
