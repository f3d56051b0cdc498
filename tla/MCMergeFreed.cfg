CONSTANTS
  InitialHeap = 8
  InitialHeapSize = 48
  PageSize = 32
  MinRemaining = 8
  InitPages = 2
  MaxPages = 4
  Sizes = {4}
  CallocArgs <- MCCallocArgs
  ReallocSizes = {25}
SPECIFICATION Spec
INVARIANT MergesFreedOnly
CHECK_DEADLOCK FALSE
