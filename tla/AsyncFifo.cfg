SPECIFICATION Spec
CONSTANTS
  QueueDepth = 4
  NULL = NULL
PROPERTY
  ImplementsFifo
