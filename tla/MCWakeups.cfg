SPECIFICATION MCSpec
CONSTANTS
  a = a
  b = b
  a1 = a1
  b1 = b1
  d1 = d1
  d2 = d2
  l1 = l1
  i1 = i1
  Interface = Interface
  None = None
  Holders <- MCHolders
  Tasks <- MCTasks
  HolderOf <- MCHolderOf
  Requesters <- MCTasks
  Resources = {"gpib5"}
  Names = {"x", "y"}
  MaxDepth = 2
INVARIANTS
  TypeOK
  TablesWellFormed
  NoLostWakeup
PROPERTIES
  OnlyTheHolderReleases
  ImplementsViLock
  BoundedCallsReturn
  FreeResourceWakesWaiters
  RequestsAreAnnounced
  ForwardersStop
CHECK_DEADLOCK FALSE
