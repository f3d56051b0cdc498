CONSTANTS
  Tests = 2
  MaxDepth = 3
  Statements = 4
SPECIFICATION Spec
INVARIANTS TypeOK JumpTargetLive EachTestJudged FailureIsReported
PROPERTY Terminates
CHECK_DEADLOCK FALSE
