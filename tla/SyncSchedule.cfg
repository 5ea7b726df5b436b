\* Three event driven Nodes, whose shares, none of them less than one, can exceed the
\* slots that are left, and an old Node that may not have the first slot; the settings
\* are in the cache.
CONSTANTS
  Nodes = {1, 2, 3, 4}
  V1 = {1}
  NotFirst = {1}
  EventNodes = {2, 3, 4}
  MayPend = {}
  MaxSlots = 8
  Reserved = 6
  Spacing <- OneProtocol
  DeviceProtocol = "lxrs"
  NoOptimize = 4
  Demands <- OneLarge
  RereadsFail = FALSE
SPECIFICATION ScheduleSpec
INVARIANTS ScheduleTypeOK OkMeansNoCollision
PROPERTY EventNodesShareTheRest
CHECK_DEADLOCK FALSE
