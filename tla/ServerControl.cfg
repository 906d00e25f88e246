CONSTANTS
  Names = {s1}
  Tokens = {t1}
  WrongToken = t0
  Binds = {b1}
  Conns = {c1, c2}
  QueueCap = 1
  None = None
SPECIFICATION FairSpec
INVARIANTS UniqueChannel AuthenticatedEntries ConnectedHasTask DataRoutedByKey
PROPERTIES DeliveryOnlyToInstalled DroppedChannelEnds StatusSettles ReloadEvicts ShutdownDrains
CHECK_DEADLOCK FALSE
