SPECIFICATION PartitionSpec
CONSTANTS
  Whole = 12
  MaxChannels = 9
  MaxChunks = 4
INVARIANTS ChunksMakeUpTheLayer ChunksStayCloseToShares
