SPECIFICATION FairSpec
CONSTANTS
  Callers = {c1, c2}
  NoCaller = NoCaller
  Pool = {b1, b2}
  Chunks = 1
  MaxRuns = 2
  MaxIters = 2
  MaxPolls = 1
CHECK_DEADLOCK FALSE
INVARIANTS PassMeansExecuted StrayOnlyAfterTimeout WakeAfterCompletion OwnDescriptors FirstRunPasses
PROPERTY IoctlReturns
