\* Two readers, buffers of two packets, streams of four parts.
CONSTANTS
  Readers = {r1, r2}
  Nobody = Nobody
  Streams <- MCStreams
  MinPacket = 2
  Capacity = 2
  Limits = {0, 1}
  Rules = {"alone"}
SPECIFICATION FairSpec
INVARIANTS TypeOK NothingIsLost NothingIsLeft ReadersAreWoken
PROPERTIES ParseEnds CallsReturn
CHECK_DEADLOCK FALSE
