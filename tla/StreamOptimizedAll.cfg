SPECIFICATION Spec
CONSTANTS
  FileSizes = {3, 6}
  HeaderEnds = {0, 1, 2}
  SectorUnits = 2
  GrainSectors = 2
  Capacity = 3
  Wrap = 64
  Types = {"eos", "gt", "unknown"}
  Counts = {0, 1, 40}
  Lbas = {0, 1, 2}
  Payloads <- MCPayloads
INVARIANTS
  OpenedIsWhole
  ReadsLast
