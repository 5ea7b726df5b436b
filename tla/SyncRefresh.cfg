\* Every way refresh() can fail, with both protocols and a pending configuration.
CONSTANTS
  Nodes = {1, 2}
  V1 = {2}
  NotFirst = {}
  EventNodes = {}
  MayPend = {1}
  MaxSlots = 16
  Reserved = 12
  Spacing <- TwoProtocols
  DeviceProtocol = "lxrs"
  NoOptimize = 8
  Demands <- AnyDemand
  RereadsFail = TRUE
SPECIFICATION FairScheduleSpec
PROPERTIES OptimizationIsUndone RefreshEnds
CHECK_DEADLOCK FALSE
