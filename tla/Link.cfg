SPECIFICATION LinkFairSpec
CONSTANTS
  Args <- MCArgs
  Values <- MCValues
  Vcpus = {v1, v2}
  NoOwner = NoOwner
  MainLoop = MainLoop
  Ops <- MCOps
  BadAddrs = {}
  Vectors = {0}
  MaxTransfer = 64
  MaxTxn = 3
  BackendMsgs = {}
  MaxWire = 20
  Persistent = TRUE
  Completion = 3
CHECK_DEADLOCK FALSE
INVARIANTS
  ReadSeesLatestWrite
  MsixAfterCompletion
PROPERTIES
  SequenceEnds
  DoorbellRaisesIrq
