SPECIFICATION FairSpec
CONSTANTS
  s1 = s1
  Session <- OneSession
  UserOps <- AllOps
  Mishaps <- AllMishaps
  Child <- MCChild
  File <- MCChild
  Socket <- MCSocket
  NoFile = 0
  NoSocket = 0
  NoPlan = NoPlan
  SessionCap = 3
  MaxOps = 2
  MaxFaults = 1
  MaxDaemons = 3
  MaxSockets = 4
  MaxChildren = 4
  MaxRestarts = 1
  MaxSessions = 2
  MaxQueued = 4
  MaxBeats = 0
  MaxDown = 9
 
PROPERTIES PhantomsRetire RestartEnds
CHECK_DEADLOCK FALSE
