SPECIFICATION MCSpec
CONSTANTS
  s1 = s1
  s2 = s2
  c1 = c1
  c2 = c2
  f1 = f1
  q1 = q1
  Session <- MCSession
  Child <- MCChild
  File <- MCFile
  Request <- MCRequest
  NoFile = NoFile
  Machine = Machine
  Restart = Restart
  NoTarget = NoTarget
  MaxDaemons = 2
  MaxSessions = 2
INVARIANTS
  TableIsMap
  ResumedOnce
  RepliesOnce
PROPERTIES SettledTruthfully
SYMMETRY Symmetric
CHECK_DEADLOCK FALSE
