\* Two Nodes, one of them an old one, that are configured and started.
CONSTANTS
  Nodes = {1, 2}
  V1 = {2}
  NotFirst = {}
  EventNodes = {}
  MayPend = {1}
  MaxSlots = 16
  Reserved = 14
  Spacing <- OneProtocol
  DeviceProtocol = "lxrs"
  NoOptimize = 8
  Demands <- OneDemand
  RereadsFail = FALSE
  MaxAttempts = 1
  LegacyOffset = 1
SPECIFICATION Spec
INVARIANTS AppliedMeansWritten
CHECK_DEADLOCK FALSE
