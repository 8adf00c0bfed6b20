SPECIFICATION FairSpec
CONSTANTS
  Projects = {p1, p2}
  prebuilt = {p1}
  None = None
  MaxSignals = 2
INVARIANTS TypeOK LeaksAccountedFor CleanedOnce SessionHeld
PROPERTIES ShutdownEndsOrDeadlocks
CHECK_DEADLOCK FALSE
