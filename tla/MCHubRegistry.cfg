SPECIFICATION HubSpec
CONSTANTS
  s1 = s1
  s2 = s2
  k1 = k1
  k2 = k2
  f1 = f1
  Session <- MCSession
  Socket <- MCSocket
  File <- MCFile
  NoFile = NoFile
  NoSocket = NoSocket
  NoPlan = NoPlan
  SessionCap = 1
  MaxRestarts = 2
  MaxDown = 1
INVARIANTS
  OneAgent
  RestartConsistent
  UnreachableIsResolvable
PROPERTIES
  RevivalIsDispatched
  
  FirstEndSticks
SYMMETRY Symmetric
CHECK_DEADLOCK FALSE
