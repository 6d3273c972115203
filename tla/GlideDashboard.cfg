SPECIFICATION MCFairSpec
CONSTANTS
  h1 = h1
  h2 = h2
  Handlers = {h1, h2}
  TraceLen = 2
  MaxRuns = 2
  MaxFaults = 2
  Combinations = 2
  MaxExperiments = 2
  MaxFailures = 1
  MaxRestarts = 1
INVARIANTS
  OneRunAtATime
  OutcomeIsTold
  ResultsReachFile
  StopLasts
  ResultsAreDurable
PROPERTIES
  StopKeepsOutcome
  ResultsAreCurrent
  WorkEnds
CHECK_DEADLOCK FALSE
