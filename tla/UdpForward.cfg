CONSTANTS
  Visitors = {v1, v2}
  Forwarders = {f1, f2}
  PoolSize = 1
  SendQ = 1
  NetBuf = 1
  None = None
SPECIFICATION ClientSpec
INVARIANTS OneChannel PortMapExact SentToOwnForwarder
PROPERTY BreakReleasesSession
CHECK_DEADLOCK FALSE
