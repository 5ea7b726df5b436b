\* The end of the log and of the flash come together; the same is seen with the
\* logs NoData, which have no intact section.
CONSTANTS
  StorageSize = 30
  BlockSize = 10
  ChunkSize = 7
  HeaderSize = 2
  Logs <- EndNotClear
SPECIFICATION Spec
INVARIANT InRange
