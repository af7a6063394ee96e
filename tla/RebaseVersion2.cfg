SPECIFICATION RebaseSpec
CONSTANTS
  ClusterWords = 2
  Size = 5
  MayFail = TRUE
  FirstCluster = 7
  Images <- MCImages
  NewNames <- MCNames
  HeaderLengths = {2}
  MaxRebases = 1
INVARIANT NewNameReadsBack
