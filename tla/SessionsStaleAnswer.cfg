SPECIFICATION Spec
CONSTANTS
  Args <- MCArgs
  Values <- MCValues
  NSessions = 2
  Persistent = FALSE
  Completion = 2
  Requests <- ReadRequests
  Kinds <- DemoOnly
CHECK_DEADLOCK FALSE
INVARIANT OwnSessionAnswer
