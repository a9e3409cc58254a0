SPECIFICATION FairSpec
CONSTANTS
  c1 = c1
  c2 = c2
  Clients <- MCClients
  MaxCount = 2
  MaxWorkers = 2
  MaxPools = 2
  MaxCalls <- OneOne
  Caps <- CapAuto
  Orders <- NoOrders
  HardwareThreads = 2
  SpawnMayFail = FALSE
  RETURN_NO_FAULT = 1
  RETURN_UNKNOWN_FAULT = 2
  FaultCodes = {2}
  Thrown = Thrown
  Null = Null
PROPERTIES CallsReturn DroppedPoolsAreReaped
CHECK_DEADLOCK FALSE
