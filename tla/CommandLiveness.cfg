\* One caller, two calls, a command of each sort, two packets or stray bytes.
\* No symmetry, which TLC cannot combine with liveness.
CONSTANTS
  c1 = c1
  ping = ping
  read = read
  Callers = {c1}
  BaseCmds = {ping}
  NodeCmds = {read}
  NoCmd = NoCmd
  Span = 4
  MaxCalls = 2
  MaxPackets = 2
SPECIFICATION FairSpec
PROPERTIES EveryCallReturns EveryByteIsRead
CHECK_DEADLOCK FALSE
