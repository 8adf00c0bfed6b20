SPECIFICATION Spec
CONSTANTS
  BatchesPerEpoch = 2
  Epochs = 3
  SaveFreq = 4
  Keeps = {0, 1, 2}
  MaxRuns = 3
  None = None
  Torn = Torn
INVARIANTS TypeOK ResumeConsistent ResumesWhereSaved
PROPERTIES TrainingEnds
CHECK_DEADLOCK FALSE
