SPECIFICATION Spec
CONSTANTS
  QueueDepth = 3
  NULL = NULL
INVARIANT
  NoDoubleHandout
