CONSTANTS
  CodeOrder <- MCCodeOrder
  Programs <- GuideProgram
  Calls <- MCCalls
  Builtin <- MCBuiltin
SPECIFICATION Spec
INVARIANT HandlersDispatchable
CHECK_DEADLOCK FALSE
