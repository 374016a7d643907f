CONSTANTS
  s1 = s1
  s2 = s2
  h1 = h1
  a = a
  b = b
  v0 = v0
  v1 = v1
  Session <- MCSession
  Host <- MCHost
  HostOf <- MCHostOf
  Name <- MCName
  Value <- MCValue
  EmptyMsg = v0
  Pattern <- MCPattern
  RelPath <- MCRelPath
  RelPattern <- MCRelPattern
  SetFlags <- MCSetFlags
  Filter <- MCFilter
  NoFilter <- MCNoFilter
  MaxNodeCount = 2
  MaxChildren = 2
  MaxNodeDepth = 4
SPECIFICATION TreeSpec
INVARIANT TreeTypeOK MarksMatchSubscriptions NoOrphans NodeCountAccurate
SYMMETRY Symmetry
