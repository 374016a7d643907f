CONSTANTS
  h = h
  s = s
  t = t
  j = j
  k = k
  v0 = v0
  v1 = v1
  NodePaths <- MCNodePaths
  Value <- MCValue
  EmptyMsg = v0
  Strings <- MCStrings
  Filter <- MCFilter
  NoFilter <- MCValue
  MaxStrings = 2
SPECIFICATION Spec
CHECK_DEADLOCK FALSE
INVARIANT VisitsEachMatchOnce EverySessionReached
