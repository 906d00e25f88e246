CONSTANTS
  PoolSize = 1
  VisitorCap = 1
  QueueCap = 4
  MaxCount = 4
SPECIFICATION FairSpec
PROPERTY VisitorsDoNotHang
CHECK_DEADLOCK FALSE
