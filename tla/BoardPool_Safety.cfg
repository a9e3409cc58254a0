SPECIFICATION Spec
CONSTANTS
  c1 = c1
  c2 = c2
  Clients <- MCClients
  MaxCount = 2
  MaxWorkers = 2
  MaxPools = 2
  MaxCalls <- OneOne
  Caps <- CapsOneTwo
  Orders <- MCOrders
  HardwareThreads = 2
  SpawnMayFail = TRUE
  RETURN_NO_FAULT = 1
  RETURN_UNKNOWN_FAULT = 2
  FaultCodes = {2, 3}
  Thrown = Thrown
  Null = Null
INVARIANTS TypeOK NoDanglingJob NoStopUnderRun NoLostWakeup
PROPERTY ImplementsContract
CHECK_DEADLOCK FALSE
