SPECIFICATION Spec
CONSTANTS
  Areas <- MCAreas
  Heap = 2
  StartBrk = 3
  Brk = 6
  LastPage = 3
  HelloPages = 2
  Indices <- MCIndices
  PageLists <- MCPageLists
  Numbers = {1, 2, 3}
  StorePages = {3, 4}
  Reaches = {4, 8}
  MaxWrites = 2
  MaxLoads = 2
INVARIANTS AskedPagesChanged ServedUntilDescent OthersVisited StaleEntryIsHellos StoresNotLeftInCache
CHECK_DEADLOCK FALSE
