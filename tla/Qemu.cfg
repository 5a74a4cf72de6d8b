SPECIFICATION FairSpec
CONSTANTS
  Args = {0, 1}
  Values = {"d0", "d1"}
  Vcpus = {v1, v2}
  NoOwner = NoOwner
  MainLoop = MainLoop
  Ops <- MCOps
  BadAddrs = {1}
  Vectors = {0}
  MaxTransfer = 1
  MaxTxn = 3
  BackendMsgs <- MCBackendMsgs
  MaxWire = 1
CHECK_DEADLOCK FALSE
INVARIANTS TypeOK RpcSerial OwnAnswer NoStrandedWork
PROPERTIES RpcReturns WorkTakenUp
