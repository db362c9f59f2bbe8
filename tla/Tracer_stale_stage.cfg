SPECIFICATION Spec
CONSTANTS
 Runs = 2
 CallCounts = {0, 1}
 BodyCost = 3
 OtherCost = 2
 HandlerCost = 1
 ClockMod = 8
 HeapPages = 4
 FdLimit = 2
 UnsetStatus = {"exited"}
 StrictFifo = TRUE
 FaultKinds = {}
 MaxFaults = 0
INVARIANT EventMatchesStage
CHECK_DEADLOCK FALSE
