\* Two callers, one command to a Node each, three packets or stray bytes: a call
\* meets the late replies of the one before, and packets behind a stray start byte.
CONSTANTS
  c1 = c1
  c2 = c2
  read = read
  Callers = {c1, c2}
  BaseCmds = {}
  NodeCmds = {read}
  NoCmd = NoCmd
  Span = 4
  MaxCalls = 2
  MaxPackets = 3
SPECIFICATION Spec
SYMMETRY Symmetry
INVARIANTS TypeOK NoDanglingPattern ReplyWakesWaiter PacketTakenOnce
PROPERTIES FreshReplyIsTaken StaleWithinOneShift
CHECK_DEADLOCK FALSE
