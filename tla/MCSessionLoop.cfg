SPECIFICATION FairLoopSpec
CONSTANTS
  p1 = p1
  p2 = p2
  Prompt <- MCPrompt
  NoPrompt = NoPrompt
  MaxIterations = 2
  MaxOps = 6
  MaxTurns = 3
  LateVerdict = TRUE
  Rejects = TRUE
INVARIANTS NeverStalls
PROPERTIES FreshIteration BudgetRunsOut
CHECK_DEADLOCK FALSE
