\* As SyncRefresh.cfg, for two statements of the documentation.  Each is violated;
\* TLC stops at the first: take it out to see the next.
CONSTANTS
  Nodes = {1, 2}
  V1 = {2}
  NotFirst = {}
  EventNodes = {}
  MayPend = {1}
  MaxSlots = 16
  Reserved = 12
  Spacing <- TwoProtocols
  DeviceProtocol = "lxrs"
  NoOptimize = 8
  Demands <- AnyDemand
  RereadsFail = TRUE
SPECIFICATION ScheduleSpec
INVARIANT OkMeansNoCollision
PROPERTY ExistingNodeStays
CHECK_DEADLOCK FALSE
