SPECIFICATION FairSpec
CONSTANTS
  f1 = f1
  f2 = f2
  f3 = f3
  p1 = p1
  p2 = p2
  Proc = {p1, p2}
  File = {f1, f2, f3}
  Size <- MCSize
  ShmPath <- MCOwnPath
  Missing = {}
  CacheSize = 5
  MaxItemSize = 6
  MaxUsable = 6
  MaxEntries = 3
  Locks = {0, 1}
  LockId <- MCLockId
  ShmMayFail = FALSE
  MayFlush = FALSE
  MaxCalls = 4
  None = None
INVARIANTS
  SlotsExclusive
  Accounting
  CopiesOwnFile
  StatsAddUp
PROPERTY
  EveryCallReturns
