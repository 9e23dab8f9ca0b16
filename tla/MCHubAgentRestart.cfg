SPECIFICATION FairSpec
CONSTANTS
  s1 = s1
  Session <- OneSession
  UserOps <- RestartOps
  Mishaps <- NoMishaps
  Child <- MCChild
  File <- MCChild
  Socket <- MCSocket
  NoFile = 0
  NoSocket = 0
  NoPlan = NoPlan
  SessionCap = 3
  MaxOps = 3
  MaxFaults = 0
  MaxDaemons = 3
  MaxSockets = 3
  MaxChildren = 4
  MaxRestarts = 2
  MaxSessions = 2
  MaxQueued = 4
  MaxBeats = 1
  MaxDown = 9

PROPERTIES  NoFalseRetirement
CHECK_DEADLOCK FALSE
