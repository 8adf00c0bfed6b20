SPECIFICATION FairSpec
CONSTANTS
  max_turns = 3
  response_length = 7
  MaxTokens = 2
  MaxRoutes = 2
INVARIANTS TypeOK TokensCredited RewardOnAnswer EveryRouteAnswered DoneReasonTrue BareAnswerAfterRouting
PROPERTIES EpisodeReturns
CHECK_DEADLOCK FALSE
