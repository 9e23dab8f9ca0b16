SPECIFICATION FairLinkSpec
CONSTANTS
  Daemon = d1
  Client <- MCClient
  Socket <- MCSocket
  NoSocket = 0
  MaxSockets = 3
  MaxQueued = 2
  MaxFrames = 3
  MaxEvents = 1
  MaxCuts = 2
  MaxFailures = 1
  LateHello = FALSE
INVARIANTS
  FramesInOrder
  KeptUntilCommitted
PROPERTIES
  EventsDelivered
  KeepsOpen
CHECK_DEADLOCK FALSE
