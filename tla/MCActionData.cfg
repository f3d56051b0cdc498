SPECIFICATION Spec
CONSTANTS
  Group = 4
  Word = 32
  Signatures <- MCSignatures
  Values <- MCValues
  max_stack = 4
INVARIANTS TypeOK ArgsAsSent CompleteCallSucceeds
CHECK_DEADLOCK FALSE
