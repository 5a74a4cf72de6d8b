SPECIFICATION FairSpec
CONSTANTS
  Args <- DemoArgs
  Values <- DemoValues
  NSessions = 2
  Persistent = FALSE
  Completion = 12
  MaxPolls = 2
CHECK_DEADLOCK FALSE
INVARIANT PassEarned
PROPERTIES DemoPasses DemoEnds
