SPECIFICATION Spec
CONSTANTS
  w1 = w1
  w2 = w2
  b1 = b1
  b2 = b2
  b3 = b3
  b4 = b4
  none = none
  Threads <- MCThreads
  Buffers <- MCBuffers
  NoBuffer = none
  NumChunks = 3
  JobsCap = 1
  WritesCap = 1
  ElideZeros = FALSE
  ZeroChunks <- MCZeros
  ReadOutcomes <- MCFullReads
  OutputMayFail = FALSE
  CallerMayCancel = TRUE
INVARIANT NilMeansComplete
