SPECIFICATION StreamSpec
CONSTANTS
  MaxExtents = 2
  MaxSectors = 3
  Kinds = {"flat", "sparse", "stream"}
  ChunkSizes = {0, 1, 2, 4}
INVARIANTS
  SpansContract
  StreamFaithful
  StreamComplete
PROPERTY StreamReturns
