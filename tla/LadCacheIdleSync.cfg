SPECIFICATION FairSpec
CONSTANTS
  p1 = p1
  p2 = p2
  p3 = p3
  None = None
  NUsers = 1
  QueueDepth = 1
  Path = {p1}
  PeerFiles = {}
  Size <- MCSize
  Capacity = 2
  Threshold = 2
  DebugLimits = {0}
  MaxIdleIters = 1
  Faults = {}
PROPERTY IdleListIsSent
CHECK_DEADLOCK FALSE
