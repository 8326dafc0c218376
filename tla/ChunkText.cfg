CONSTANTS
  Target = 10
  Overlap = 2
  Lengths <- SmallLengths
SPECIFICATION ChunkSpec
INVARIANTS Lossless ChunksAdvance WordsKeptWhole
