SPECIFICATION RebaseSpec
CONSTANTS
  ClusterWords = 3
  Size = 7
  MayFail = TRUE
  FirstCluster = 7
  Images <- MCImages
  NewNames <- MCNames
  HeaderLengths = {3, 4}
  MaxRebases = 2
INVARIANTS
  TypeOK
  WrongOnlyAtStops
  MapTellsReads
  NewNameReadsBack
  StoppedOpensOn
PROPERTY CoveredReturns
