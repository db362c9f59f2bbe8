SPECIFICATION Spec
CONSTANTS
  DataStart = 1
  DataEnd = 2
  StartBrk = 3
  FirstBrk = 5
  MaxBrk = 5
  OutOfMemory = TRUE
  Writers = {w1, w2}
  Requests <- MCShortAndLong
  Tasks <- MCTasks
INVARIANTS OthersUntouched
PROPERTIES WritesAdvance
CHECK_DEADLOCK FALSE
