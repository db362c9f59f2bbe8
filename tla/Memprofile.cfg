SPECIFICATION FairSpec
CONSTANTS
  DataStart = 1
  DataEnd = 2
  StartBrk = 3
  FirstBrk = 5
  MaxBrk = 6
  OutOfMemory = FALSE
  Writers = {w1}
  Requests <- MCRequests
  Tasks <- MCTasks
INVARIANTS RequestHonoured NoFrameZero OnlyListFaultsLeak
PROPERTIES WriteReturns
CHECK_DEADLOCK FALSE
