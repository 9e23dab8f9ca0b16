SPECIFICATION FairSearchSpec
CONSTANTS
  Session <- MCSession
  Operator <- MCOperator
  Request <- MCRequest
  Kind <- MCKind
  PageLimit = 2
  Fanout = 2
  MaxCursors = 2
  MaxParticipants = 3
  MaxBranch = 3
  MaxSearches = 2
  MaxChanges = 1
INVARIANTS
  StoreBounded
  PagesSound
  PagesComplete
PROPERTIES SearchEnds
CHECK_DEADLOCK FALSE
