SPECIFICATION ConvertSpec
CONSTANTS
  Sizes = {3, 5}
  ChunkWords = 2
  Samples = 2
  Modes = {"none", "full", "sample"}
  MaxBreaks = 1
  MayFail = TRUE
  MayCancel = TRUE
  ImageWords = 5
  SectorWords = 2
  SparseRaw = TRUE
  MayLose = TRUE
INVARIANTS
  Verdict
  SamplesDistinct
  ConvertVerdict
