CONSTANTS
  AddrPages <- MCAddrPages
  MaxPages <- MCMaxPages
  InitPages <- MCInitPages
  HeapBase <- MCHeapBase
  Sizes <- MCSizes
  CallocArgs <- MCCallocArgs
SPECIFICATION Spec
INVARIANTS TypeOK BlocksInMemory BlocksDisjoint WasteBounded
PROPERTY PointerMonotonic
CHECK_DEADLOCK FALSE
