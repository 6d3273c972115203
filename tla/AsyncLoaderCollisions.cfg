SPECIFICATION Spec
CONSTANTS
  NWorkers = 2
  QueueDepth = 1
  DispatchN = 2
  MaxIdleIters = 0
  MaxIoErrors = 1
  f1 = f1
  f2 = f2
  f3 = f3
  File = {f1, f2}
  ShmName <- MCSharedName
  Lba <- MCLba
  Missing = {}
  Flaky = {f1}
  IoMayFail = TRUE
  DistinctNames = FALSE
  None = None
\* The loader may exit on a failed read, and its workers may abort.
CHECK_DEADLOCK FALSE
INVARIANTS
  TypeOK
  EachEntryInOnePlace
  NothingLeaks
PROPERTY
  ImplementsService
