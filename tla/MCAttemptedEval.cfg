SPECIFICATION Spec
CONSTANTS
  Tasks = {t1, t2}
  PassK = 2
  None = None
  MaxRuns = 2
INVARIANTS TypeOK JudgedOnce VerdictHasItsPrediction OneLostPerRun AttemptsAccounted
PROPERTIES RunEnds
CHECK_DEADLOCK FALSE
