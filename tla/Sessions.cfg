SPECIFICATION FairSpec
CONSTANTS
  Args <- MCArgs
  Values <- MCValues
  NSessions = 2
  Persistent = TRUE
  Completion = 2
  Requests <- MCRequests
  Kinds <- AllKinds
CHECK_DEADLOCK FALSE
INVARIANTS TypeOK OnlyOwnPending DmaAnswerOwn MsixAfterCompletion SimPassEarned ReadAnswerExact
PROPERTIES RequestAnswered ShutdownStops SequenceRaisesMsix
