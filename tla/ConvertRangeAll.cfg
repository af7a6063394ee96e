SPECIFICATION FairSpec
CONSTANTS
  w1 = w1
  w2 = w2
  b1 = b1
  b2 = b2
  b3 = b3
  b4 = b4
  none = none
  Threads <- MCThreads
  Buffers <- MCBuffers
  NoBuffer = none
  NumChunks = 4
  JobsCap = 1
  WritesCap = 1
  ElideZeros = TRUE
  ZeroChunks <- MCZeros
  ReadOutcomes <- MCReads
  OutputMayFail = TRUE
  CallerMayCancel = TRUE
INVARIANTS
  TypeOK
  BufferExclusive
  Faithful
  NoSendOnClosed
  DoneNotAhead
  FinalReport
PROPERTIES
  ImplementsImageCopy
  EventuallyAllReturned
