CONSTANTS
  c1 = c1
  c2 = c2
  ping = ping
  read = read
  Callers = {c1, c2}
  BaseCmds = {ping}
  NodeCmds = {read}
  NoCmd = NoCmd
  Span = 4
  MaxCalls = 2
  MaxPackets = 2
SPECIFICATION Spec
SYMMETRY Symmetry
PROPERTY SecondWaitIsForTheNode
CHECK_DEADLOCK FALSE
