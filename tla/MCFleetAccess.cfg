SPECIFICATION FleetSpec
CONSTANTS
  o1 = o1
  o2 = o2
  w1 = w1
  w2 = w2
  n1 = n1
  r1 = r1
  r2 = r2
  m1 = m1
  m2 = m2
  None = None
  Operator <- TwoOperators
  Worker <- TwoWorkers
  Namespace <- OneNamespace
  Request <- TwoRequests
  Move <- TwoMoves
  MaxOps = 4
  MaxFailures = 1
INVARIANTS MovesAreWoken  RowsInScope 
PROPERTIES FenceHolds VersionFences
SYMMETRY Alike
CHECK_DEADLOCK FALSE
