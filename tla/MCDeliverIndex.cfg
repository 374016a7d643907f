CONSTANTS
  w = w
  r = r
  h1 = h1
  a = a
  b = b
  v0 = v0
  v1 = v1
  None = None
  AtEnd = AtEnd
  RemoveFromIndex = RemoveFromIndex
  Session <- MCSession
  Writers <- MCWriters
  Readers <- JustR
  ReflectToSelf <- NoOne
  Host <- MCHost
  HostOf <- MCHostOf
  Name <- MCName
  Value <- OneValue
  EmptyMsg = v0
  Pattern <- IndexStrings
  RelPath <- DeepPaths
  RelPattern <- DeepRemovals
  SetFlags <- PlainOrIndexed
  Filter <- OneFilter
  NoFilter <- OneValue
  SetBefore <- AnyBefore
  InsertBefore <- AnyBefore
  ReorderBefore <- AnyBefore
  MaxNodeCount = 5
  MaxChildren = 3
  MaxNodeDepth = 4
  MaxItems = 2
  MaxQueued = 1
SPECIFICATION DeliverySpec
INVARIANT IndexInSync IndexWellFormed
