SPECIFICATION SysSpec
CONSTANTS
  s1 = s1
  Session <- OneSession
  UserOps <- RestartOps
  Mishaps <- NoMishaps
  Child <- MCChild
  File <- MCChild
  Socket <- MCSocket
  NoFile = 0
  NoSocket = 0
  NoPlan = NoPlan
  SessionCap = 3
  MaxOps = 2
  MaxFaults = 0
  MaxDaemons = 2
  MaxSockets = 2
  MaxChildren = 3
  MaxRestarts = 1
  MaxSessions = 2
  MaxQueued = 4
  MaxBeats = 0
  MaxDown = 9
INVARIANTS OneWriterPerFile
CHECK_DEADLOCK FALSE
