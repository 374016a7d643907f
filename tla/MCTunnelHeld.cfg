CONSTANTS
  MessageSize <- Sizes
  HeaderSize = 1
  MTU = 4
  IdSpace = 5
  FaultSets <- NoFaults
  MaxInFlight = 3
  MaxFaults = 0
SPECIFICATION FairSpec
CHECK_DEADLOCK FALSE
PROPERTIES EverythingIsSent
