SPECIFICATION FairSpec
CONSTANTS
 Runs = 3
 CallCounts = {1, 2}
 BodyCost = 3
 OtherCost = 2
 HandlerCost = 1
 ClockMod = 8
 HeapPages = 4
 FdLimit = 3
 UnsetStatus = {"exited"}
 StrictFifo = TRUE
 FaultKinds = {}
 MaxFaults = 0
INVARIANTS WindowConfigured NoLostStop
PROPERTIES EveryRunEnds
