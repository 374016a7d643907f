CONSTANTS
  r1 = r1
  n1 = n1
  n2 = n2
  NoNode = NoNode
  Node <- Nodes
  RootSeq <- OneRoot
  MaxTime = 1
  MaxCalls = 2
  Reentrant = FALSE
SPECIFICATION FairSpec
INVARIANTS ListsWellFormed InvalidIsRecalculated AggregateIsEarliest NobodySkipped
PROPERTIES ImplementsSchedule DueIsPulsed
