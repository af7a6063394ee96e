SPECIFICATION Spec
CONSTANTS
  BlockWords = 2
  HeaderWords = 1
  AlignWords = 2
  OffsetLimit = 100
  Size = 7
  ChunkWords = 3
  MaxWrites = 3
  Sparse = TRUE
  MayFail = TRUE
INVARIANTS
  KilledIsSound
  SealedReadsBack
