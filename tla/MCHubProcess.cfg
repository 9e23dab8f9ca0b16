SPECIFICATION FairProcessSpec
CONSTANTS
  Process <- MCProcess
  Core <- MCCore
  NoProcess = 0
  NoCore = 0
  MaxChanges = 2
  MaxFaults = 1
  MaxReloads = 1
INVARIANTS SavedSticks
PROPERTIES EventuallySaved RestartServes
CHECK_DEADLOCK FALSE
