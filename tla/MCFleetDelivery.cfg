SPECIFICATION FairDeliverySpec
CONSTANTS
  Request <- MCRequest
  Option <- MCOption
  MaxAnswers = 1
  ReplayLimit = 2
  MaxMishaps = 1
INVARIANTS InjectedOnce AnswerCounts
 
CHECK_DEADLOCK FALSE
