SPECIFICATION FairSpec
CONSTANTS
  Tasks = {t1, t2}
  Answers = {a1, a2}
  None = None
  Legacy = Legacy
  MaxRuns = 3
INVARIANTS RewardOfThisAnswer
PROPERTIES LedgerSpec RunEnds
CHECK_DEADLOCK FALSE
