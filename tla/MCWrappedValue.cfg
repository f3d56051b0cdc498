SPECIFICATION Spec
CONSTANTS
  Group = 4
  Word = 32
  Signatures <- MCSignatures
  Values <- MCValues
  max_stack = 4
INVARIANT WrappedValueArrives
CHECK_DEADLOCK FALSE
