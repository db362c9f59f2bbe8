SPECIFICATION FairSpec
CONSTANTS
 Runs = 2
 CallCounts = {1}
 BodyCost = 3
 OtherCost = 2
 HandlerCost = 1
 ClockMod = 8
 HeapPages = 4
 FdLimit = 2
 UnsetStatus = {"exited"}
 StrictFifo = FALSE
 FaultKinds = {}
 MaxFaults = 0
PROPERTY EveryRunEnds
CHECK_DEADLOCK FALSE
