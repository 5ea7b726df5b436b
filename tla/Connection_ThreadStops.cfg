SPECIFICATION FairSpec
CONSTANTS
  IO = IO
  NoThread = NoThread
  Apps = {a1, a2}
  Ops = {"attach", "register", "disconnect"}
  OpenFails = FALSE
PROPERTY ThreadStops
CHECK_DEADLOCK FALSE
