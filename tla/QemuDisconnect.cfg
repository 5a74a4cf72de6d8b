SPECIFICATION Spec
CONSTANTS
  Args = {0, 1}
  Values = {"d0", "d1"}
  Vcpus = {v1}
  NoOwner = NoOwner
  MainLoop = MainLoop
  Ops <- MCOps
  BadAddrs = {1}
  Vectors = {0}
  MaxTransfer = 1
  MaxTxn = 2
  BackendMsgs <- MCBackendMsgs
  MaxWire = 2
CHECK_DEADLOCK FALSE
PROPERTIES
  DisconnectRejectsDma
