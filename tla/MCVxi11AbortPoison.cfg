SPECIFICATION AbortSpec
CONSTANTS
  c1 = c1
  c2 = c2
  a1 = a1
  Callers <- OneConn
  Aborters <- OneAborter
  MaxCalls = 2
  MaxAborts = 1
INVARIANT
  AbortHitsItsTarget
CHECK_DEADLOCK FALSE
