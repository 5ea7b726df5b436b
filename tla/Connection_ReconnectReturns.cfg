SPECIFICATION FairSpec
CONSTANTS
  IO = IO
  NoThread = NoThread
  Apps = {a1}
  Ops = {"disconnect", "reconnect"}
  OpenFails = TRUE
PROPERTY ReconnectReturns
CHECK_DEADLOCK FALSE
