SPECIFICATION Spec
CONSTANTS
  MaxAttempts = 1
  MaxSteps = 1
  MaxCalls = 2
  OldCost = 9
  Unjudged = Unjudged
INVARIANTS DelegationsInBudget
CHECK_DEADLOCK FALSE
