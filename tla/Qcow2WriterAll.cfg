SPECIFICATION FairSpec
CONSTANTS
  EntriesPerL2 = 2
  LargestSize = 8
  Sizes <- UpToLargest
  ChunkWords = 3
  MaxWrites = 3
  Sparse = TRUE
  MayFail = TRUE
INVARIANTS
  TypeOK
  NoSharing
  RefcountsRight
  RefcountsFit
  NeverFull
  KilledIsSound
  SealedReadsBack
  MeasureForetells
PROPERTY EveryCallReturns
