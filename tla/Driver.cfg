SPECIFICATION FairSpec
CONSTANTS
  p1 = p1
  p2 = p2
  Apps = {p1, p2}
  NoApp = NoApp
  Choices <- MCChoices
  Offsets <- MCOffsets
  MaxBinds = 2
  BarSize = 32
  PageSize = 8
INVARIANTS
  IoctlFindsDevice
  HandlerSafe
  NothingLeaked
  PassAsAsked
  RawAccessInside
PROPERTY ToolEnds
CHECK_DEADLOCK FALSE
