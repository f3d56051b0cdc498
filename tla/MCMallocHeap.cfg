CONSTANTS
  InitialHeap = 8
  InitialHeapSize = 48
  PageSize = 32
  MinRemaining = 8
  InitPages = 2
  MaxPages = 4
  Sizes = {0, 10, 50}
  CallocArgs <- MCCallocArgs
  ReallocSizes = {0, 10, 25}
SPECIFICATION Spec
INVARIANTS TypeOK WordsTileHeaps AllocatedIsHeld BlocksDisjoint NullOnlyWhenFull SearchesFullHeaps
PROPERTY CallsReturn
CHECK_DEADLOCK FALSE
