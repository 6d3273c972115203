SPECIFICATION FairSpec
CONSTANTS
  a1 = a1
  a2 = a2
  Apps = {a1, a2}
  Batches = 2
  MaxCrashes = 2
  MaxStops = 1
  MaxErrors = 1
INVARIANTS
  Tokens
  GpuTimeIsServed
  FirstComeFirstServed
PROPERTY
  AnsweredUnlessDropped
CHECK_DEADLOCK FALSE
