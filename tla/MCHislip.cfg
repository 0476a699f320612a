SPECIFICATION MCSpec
CONSTANTS
  a = a
  b = b
  c = c
  None = None
  NoRequest = NoRequest
  Sessions <- MCSessions
  Ids <- MCIds
  MaxSessions = 2
  Instrument = "gpib5"
  MaxLevel = 1
  Pads <- MCPads
  Messages <- MCMessages
  UserBits <- MCUserBits
  ErrorDepth = 1
  BigReply = 2
  ReadSizes <- MCReadSizes
  MaxOutput = 1
  MaxInput = 1
  MaxRead = 3
SYMMETRY Symmetry
INVARIANTS
  IdNamesItsSession
  OrderlySessionsLeaveNoLock
  LineFollowsDevices
  NoRequestIsEaten
  NoOutputIsStranded
PROPERTIES
  LiveSessionsKeepTheirLocks
  BroadcastsFollowRises
CHECK_DEADLOCK FALSE
