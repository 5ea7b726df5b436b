CONSTANTS
  StorageSize = 30
  BlockSize = 10
  ChunkSize = 7
  HeaderSize = 2
  Logs <- AllLogs
SPECIFICATION FairSpec
INVARIANTS SweepsInOrder CompleteMeansAll InRange
PROPERTY Completes
