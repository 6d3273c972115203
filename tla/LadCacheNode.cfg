SPECIFICATION FairSpec
CONSTANTS
  p1 = p1
  p2 = p2
  p3 = p3
  None = None
  NUsers = 1
  QueueDepth = 2
  Path = {p1, p2}
  PeerFiles = {p1}
  Size <- MCSize
  Capacity = 3
  Threshold = 2
  DebugLimits = {0, 1}
  MaxIdleIters = 0
  Faults = {"again", "read", "peer", "cut", "free", "sync"}
INVARIANTS
  Accounting
  DataIsWhole
  CachedIsAnnounced
PROPERTIES
  ImplementsService
  StorageInOrder
  RequestsComplete
CHECK_DEADLOCK FALSE
