SPECIFICATION FairViewSpec
CONSTANTS
  g1 = g1
  Guest <- MCGuest
  MaxDown = 8
  PageSize = 2
  MaxEntries = 3
  MaxAsks = 2
  MaxMishaps = 2
INVARIANT ReplicaFaithful
PROPERTY LiveAgain
CHECK_DEADLOCK FALSE
