SPECIFICATION Spec
CONSTANTS
  d1 = d1
  d2 = d2
  NumBlocks = 2
  OverlayDir = d1
  BackingDir = d2
  BackingFormat = "qcow2"
  BackingReadAs = "qcow2"
  MayFail = TRUE
  MayCrash = TRUE
  MaxRuns = 2
INVARIANTS
  TypeOK
  ViewPreserved
  OKIsDurable
PROPERTY MarkerCovers
