SPECIFICATION Spec
CONSTANTS
  Callers = {c1}
  NoCaller = NoCaller
  Pool = {b1}
  Chunks = 1
  MaxRuns = 2
  MaxIters = 2
  MaxPolls = 2
CHECK_DEADLOCK FALSE
INVARIANT EveryRunPasses
