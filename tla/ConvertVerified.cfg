SPECIFICATION ConvertSpec
CONSTANTS
  Sizes = {3, 5}
  ChunkWords = 2
  Samples = 2
  Modes = {"full"}
  MaxBreaks = 1
  MayFail = FALSE
  MayCancel = FALSE
  ImageWords = 3
  SectorWords = 2
  SparseRaw = FALSE
  MayLose = FALSE
INVARIANT VerifiedIsSource
