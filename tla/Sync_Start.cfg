\* As SyncNetwork.cfg, for what the documentation says of startSampling.  Each is
\* violated; TLC stops at the first: take it out to see the next.
CONSTANTS
  Nodes = {1, 2}
  V1 = {2}
  NotFirst = {}
  EventNodes = {}
  MayPend = {1}
  MaxSlots = 16
  Reserved = 14
  Spacing <- OneProtocol
  DeviceProtocol = "lxrs"
  NoOptimize = 8
  Demands <- OneDemand
  RereadsFail = FALSE
  MaxAttempts = 1
  LegacyOffset = 1
SPECIFICATION Spec
INVARIANT StartReachesEveryNode
PROPERTIES BeaconWaitsForNodes StartedBeforeBeacon
CHECK_DEADLOCK FALSE
