SPECIFICATION MCSpec
CONSTANTS
  CommandLines <- MCCommandLines
  Maps <- MCMaps
  Costs = {2, 7}
  Gaps = {9, 25}
  IntMax = 14
  MaxVmas = 4
  MaxPages = 3
  CleansCaches = TRUE
  FlushesPage = TRUE
  Files <- MCFiles
  ProfileSizes = {1, 2, 4}
  NameLen = 1
  OldNameLen = 2
  FirstOffset = 1
  MaxRuns = 3
  MaxFile = 60
  Inputs <- MCInputs
  Vectors <- MCVectors
  Images <- MCImages
  Kernels <- MCKernels
  Word = 8
  Results <- MCResults
  Tolerance = 1
INVARIANTS
  TypeOK AveragesExact CheapestListed LastPageNeverListed ProfileFits RowsInOrder
  LoadsSeeLastStore ChangeTakesEffect
  SectionsReadable FirstProfileGiven LoadedMoveOnlyFromGaps
  HandlesBalance ResultsFit PlacedByFirstFix
  PositivesSorted RoutinesMatchReference ReportsHold
PROPERTIES LapseLasts NoLateWriteback
CHECK_DEADLOCK FALSE
