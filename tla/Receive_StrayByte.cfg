\* A stray byte before data while a command waits for one byte: the data is lost.
CONSTANTS
  Readers = {r1, r2}
  Nobody = Nobody
  Streams <- Stray
  MinPacket = 2
  Capacity = 2
  Limits = {0, 1}
  Rules = {}
SPECIFICATION Spec
INVARIANT NothingIsLost
CHECK_DEADLOCK FALSE
