CONSTANTS
  PoolSize = 2
  VisitorCap = 2
  QueueCap = 6
  MaxCount = 8
SPECIFICATION FairSpec
INVARIANTS Ledger PendingExact QueueHasRoom
PROPERTIES VisitorResolved DropReleasesPort
CHECK_DEADLOCK FALSE
