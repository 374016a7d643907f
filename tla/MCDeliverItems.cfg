CONSTANTS
  w = w
  r = r
  h1 = h1
  a = a
  b = b
  v0 = v0
  v1 = v1
  None = None
  AtEnd = AtEnd
  RemoveFromIndex = RemoveFromIndex
  Session <- MCSession
  Writers <- MCWriters
  Readers <- MCSession
  ReflectToSelf <- JustW
  Host <- MCHost
  HostOf <- MCHostOf
  Name <- MCName
  Value <- MCValue
  EmptyMsg = v0
  Pattern <- OneString
  RelPath <- FlatPaths
  RelPattern <- FlatRemovals
  SetFlags <- PlainOrSupercede
  Filter <- AnyFilter
  NoFilter <- MCValue
  SetBefore <- OnlyAtEnd
  InsertBefore <- NoBefore
  ReorderBefore <- NoBefore
  MaxNodeCount = 5
  MaxChildren = 3
  MaxNodeDepth = 4
  MaxItems = 2
  MaxQueued = 1
SPECIFICATION DeliverySpec
INVARIANT ViewComplete NoGhostNodes
