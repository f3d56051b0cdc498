CONSTANTS
  Instances = {m1}
  Keys = {0, 2, 3}
  Secs = {1, 2}
  Payers = {alice}
  SamePayer = nobody
  MaxU = 3
  MaxGen = 2
SPECIFICATION Spec
INVARIANTS TypeOK CacheCoherent IndexMatchesRows NextKeyAboveRows
PROPERTY ImplementsTable
VIEW StateView
CHECK_DEADLOCK FALSE
