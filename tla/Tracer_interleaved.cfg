SPECIFICATION Spec
CONSTANTS
 Runs = 2
 CallCounts = {1, 2}
 BodyCost = 3
 OtherCost = 2
 HandlerCost = 1
 ClockMod = 8
 HeapPages = 4
 FdLimit = 2
 UnsetStatus = {"stopped", "exited", "signaled"}
 StrictFifo = FALSE
 FaultKinds = {}
 MaxFaults = 0
INVARIANTS TypeOK BreakpointDiscipline EventMatchesStage
PROPERTIES ImplementsTimedRuns StepsRunOut
CHECK_DEADLOCK FALSE
