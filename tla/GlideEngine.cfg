SPECIFICATION FairSpec
CONSTANTS
  r1 = r1
  r2 = r2
  r3 = r3
  Requests = {r1, r2, r3}
  BatchSize = 2
  Timeout = 1
  Aging = 1
  Work <- MCWork
  Estimate <- MCEstimate
  Fits <- MCFits
  Policies <- MCPolicies
  Batchers = {"static", "dynamic", "continuous"}
  MaxTime = 1
  MaxDelay = 1
INVARIANTS
  TypeOK
  EachRequestInOnePlace
  NoOvertaking
  StarvationIsCounted
PROPERTIES
  ImplementsBatchService
  RunQueueDrains
CHECK_DEADLOCK FALSE
