CONSTANTS
  Visitors = {v1}
  Forwarders = {f1}
  PoolSize = 1
  SendQ = 1
  NetBuf = 1
  None = None
SPECIFICATION FairSpec
PROPERTY DropEndsPool
CHECK_DEADLOCK FALSE
