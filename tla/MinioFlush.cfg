SPECIFICATION Spec
CONSTANTS
  f1 = f1
  f2 = f2
  f3 = f3
  p1 = p1
  p2 = p2
  Proc = {p1}
  File = {f1, f2, f3}
  Size <- MCSize
  ShmPath <- MCOwnPath
  Missing = {f2}
  CacheSize = 5
  MaxItemSize = 6
  MaxUsable = 6
  MaxEntries = 3
  Locks = {0, 1}
  LockId <- MCLockId
  ShmMayFail = TRUE
  MayFlush = TRUE
  MaxCalls = 6
  None = None
\* A process stopped by its assert leaves its lock behind.
CHECK_DEADLOCK FALSE
INVARIANTS
  SlotsExclusive
  UsedCoversCached
