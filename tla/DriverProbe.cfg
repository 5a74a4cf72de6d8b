SPECIFICATION Spec
CONSTANTS
  p1 = p1
  p2 = p2
  Apps = {p1, p2}
  NoApp = NoApp
  Choices <- MCChoices
  Offsets <- MCOffsets
  MaxBinds = 2
  BarSize = 32
  PageSize = 8
INVARIANT VectorsOutliveIrq
CHECK_DEADLOCK FALSE
