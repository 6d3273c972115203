SPECIFICATION FairSpec
CONSTANTS
  NWorkers = 2
  QueueDepth = 1
  DispatchN = 2
  MaxIdleIters = 1
  MaxIoErrors = 1
  f1 = f1
  f2 = f2
  f3 = f3
  File = {f1, f2, f3}
  ShmName <- MCOwnName
  Lba <- MCLba
  Missing = {}
  Flaky = {}
  IoMayFail = TRUE
  DistinctNames = TRUE
  None = None
\* The loader may exit on a failed read.
CHECK_DEADLOCK FALSE
INVARIANT
  DataIsOwn
PROPERTIES
  RequestsComplete
  FailedReadStopsLoader
