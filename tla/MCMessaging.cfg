CONSTANTS
  MaxSent = 2
  MaxStarts = 2
  MaxStops = 2
  MaxQuits = 1
SPECIFICATION FairSpec
CHECK_DEADLOCK FALSE
INVARIANTS MessagingTypeOK NoLostWakeup NothingLostOrRepeated
PROPERTIES QueuedIsHandled ShutdownReturns
