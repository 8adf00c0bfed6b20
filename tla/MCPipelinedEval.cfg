SPECIFICATION FairSpec
CONSTANTS
  Tasks = {t1, t2}
  answer = answer
  Empty = Empty
  Answers <- MCAnswers
  None = None
  Legacy = Legacy
  Raised = Raised
  MaxRuns = 3
INVARIANTS OneRowPerTask JudgedIsOnFile NothingLost IInv
PROPERTIES RunEnds LedgerSpec
CHECK_DEADLOCK FALSE
