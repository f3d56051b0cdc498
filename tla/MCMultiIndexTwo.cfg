CONSTANTS
  Instances = {m1, m2}
  Keys = {0, 1}
  Secs = {1}
  Payers = {alice}
  SamePayer = nobody
  MaxU = 4
  MaxGen = 1
SPECIFICATION Spec
INVARIANT IndexCoversRows
VIEW StateView
SYMMETRY InstanceSymmetry
CHECK_DEADLOCK FALSE
