SPECIFICATION Spec
CONSTANTS
  MaxAttempts = 2
  MaxSteps = 2
  MaxCalls = 2
  OldCost = 9
  Unjudged = Unjudged
INVARIANTS TypeOK EveryCallAnswered CostAccounted
PROPERTIES SessionSpec EpisodeEnds
CHECK_DEADLOCK FALSE
