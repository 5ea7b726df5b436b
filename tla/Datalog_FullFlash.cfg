\* The flash is full to its last byte; sections come twice as well with pieces of
\* eight bytes and the logs ShortBehindWhole, a short block behind a full one.
CONSTANTS
  StorageSize = 30
  BlockSize = 10
  ChunkSize = 7
  HeaderSize = 2
  Logs <- BrimFull
SPECIFICATION Spec
INVARIANT SweepsInOrder
