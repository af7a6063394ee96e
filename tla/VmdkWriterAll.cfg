SPECIFICATION Spec
CONSTANTS
  SectorWords = 2
  GrainSectors = 1
  NumGTEsPerGT = 2
  OverHead = 3
  MaxSector = 5
  Sizes = {7}
  ChunkWords = 3
  MaxWrites = 3
  Sparse = TRUE
  MayFail = TRUE
INVARIANTS
  KilledIsSound
  WrittenReadsBack
