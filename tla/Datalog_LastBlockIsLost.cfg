\* The last block is shorter than a piece.
CONSTANTS
  StorageSize = 30
  BlockSize = 10
  ChunkSize = 7
  HeaderSize = 2
  Logs <- LastIsShort
SPECIFICATION Spec
INVARIANT CompleteMeansAll
