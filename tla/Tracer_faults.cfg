SPECIFICATION Spec
CONSTANTS
 Runs = 2
 CallCounts = {0,1,2}
 BodyCost = 3
 OtherCost = 2
 HandlerCost = 1
 ClockMod = 8
 HeapPages = 4
 FdLimit = 2
 UnsetStatus = {"stopped", "exited", "signaled"}
 StrictFifo = FALSE
 FaultKinds = {"noexec","exit","kill","stray","nofork"}
 MaxFaults = 2
INVARIANTS PlantedIsRecoverable NoForkOverLiveTracee
CHECK_DEADLOCK FALSE
