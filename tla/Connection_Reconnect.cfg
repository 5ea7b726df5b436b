\* As ConnectionModes.cfg, with reconnect.  Each of the invariants is violated;
\* TLC stops at the first one it finds violated: take it out to see the next.
SPECIFICATION Spec
CONSTANTS
  IO = IO
  NoThread = NoThread
  Apps = {a1, a2}
  Ops <- NoCommands
  OpenFails = FALSE
INVARIANTS ErrorIsReported ParserIsRegistered RawModeStopsParsing
