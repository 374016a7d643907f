CONSTANTS
  c1 = c1
  c2 = c2
  c3 = c3
  None = None
  Client <- ThreeClients
  MaxThreads = 2
  MayShutdown = TRUE
  MaxFailures = 1
  MaxSent = 2
SPECIFICATION FairSpec
CHECK_DEADLOCK FALSE
INVARIANTS MessagesInOrder PoolAssertionsHold UnregisteredIsUntouched NoIdleWhilePending
PROPERTIES EveryMessageHandled UnregisterReturns
