SPECIFICATION Spec
CONSTANTS
  Ops <- RegisterOps
  MaxCalls = 3
  MaxStall = 10
  ReadyTicks = 7
  RspTicks = 14
  Timeout = 7
INVARIANTS OwnResponse AccessExact DoorbellRuns
