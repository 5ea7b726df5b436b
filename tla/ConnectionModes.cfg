\* No command is being registered, and nobody reconnects.  No symmetry, which TLC
\* cannot combine with liveness.
CONSTANTS
  IO = IO
  NoThread = NoThread
  Apps = {a1, a2}
  Ops <- Modes
  OpenFails = FALSE
SPECIFICATION FairSpec
INVARIANTS ParserIsRegistered ErrorIsReported RawModeStopsParsing
PROPERTIES ThreadStops
