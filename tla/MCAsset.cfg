CONSTANTS
  MaxInt = 15
  Symbols = {sys, tok, bad}
  ValidSymbols = {sys, tok}
  Contracts = {c1, c2}
  Vars = {a, b}
  Inputs <- MCInputs
  Validated = TRUE
SPECIFICATION Spec
INVARIANTS TypeOK AmountsInRange ArithmeticExact NoTrap
CHECK_DEADLOCK FALSE
