SPECIFICATION Spec
CONSTANTS
  max_turns = 2
  response_length = 5
  MaxTokens = 2
  MaxRoutes = 2
INVARIANTS RoutesBeforeAnswer
CHECK_DEADLOCK FALSE
