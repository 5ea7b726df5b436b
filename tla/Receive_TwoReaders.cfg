\* A reader that waits beside one that takes sweep by sweep loses sweeps,
\* and returns with nothing before its time is up: take one property out to see the other.
CONSTANTS
  Readers = {r1, r2}
  Nobody = Nobody
  Streams <- TwoReaders
  MinPacket = 2
  Capacity = 2
  Limits = {0, 1}
  Rules = {}
SPECIFICATION Spec
INVARIANT NothingIsLost
PROPERTY WaitsForItsTimeout
CHECK_DEADLOCK FALSE
