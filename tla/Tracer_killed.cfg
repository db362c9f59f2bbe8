SPECIFICATION FairSpec
CONSTANTS
 Runs = 1
 CallCounts = {1}
 BodyCost = 3
 OtherCost = 2
 HandlerCost = 1
 ClockMod = 8
 HeapPages = 4
 FdLimit = 1
 UnsetStatus = {"signaled"}
 StrictFifo = TRUE
 FaultKinds = {"kill"}
 MaxFaults = 1
PROPERTY HandlerReturns
CHECK_DEADLOCK FALSE
