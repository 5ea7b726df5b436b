\* Four packets or stray bytes: one shifted out, a stray start byte, the old reply
\* behind it, and what wakes the parser.
CONSTANTS
  c1 = c1
  read = read
  Callers = {c1}
  BaseCmds = {}
  NodeCmds = {read}
  NoCmd = NoCmd
  Span = 4
  MaxCalls = 2
  MaxPackets = 4
SPECIFICATION Spec
PROPERTY NoStaleMatch
CHECK_DEADLOCK FALSE
