CONSTANTS
  MessageSize <- Sizes
  HeaderSize = 1
  MTU = 4
  IdSpace = 5
  FaultSets <- AnyFaults
  MaxInFlight = 3
  MaxFaults = 2
SPECIFICATION Spec
CHECK_DEADLOCK FALSE
INVARIANTS NothingDropped
PROPERTIES ImplementsChannel
