CONSTANTS
  CodeOrder <- MCCodeOrder
  Programs <- MCPrograms
  Calls <- MCCalls
  Builtin <- MCBuiltin
SPECIFICATION Spec
INVARIANTS BodyCloses  AbiDescribesHandlers MergeKeepsStanding
CHECK_DEADLOCK FALSE
