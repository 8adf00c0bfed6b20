SPECIFICATION FairSpec
CONSTANTS
  Callers = {c1, c2}
  PoolSize = 1
  MaxCalls = 1
  None = None
INVARIANTS TypeOK TokensReported ErrorMeansNoAnswer
PROPERTIES RunRouteReturns
CHECK_DEADLOCK FALSE
