SPECIFICATION Spec
CONSTANTS
 Runs = 2
 CallCounts = {1}
 BodyCost = 3
 OtherCost = 2
 HandlerCost = 1
 ClockMod = 8
 HeapPages = 4
 FdLimit = 2
 UnsetStatus = {"exited"}
 StrictFifo = FALSE
 FaultKinds = {}
 MaxFaults = 0
INVARIANT WindowConfigured
CHECK_DEADLOCK FALSE
