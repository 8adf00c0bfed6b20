SPECIFICATION FairSpec
CONSTANTS
  Projects = {p1}
  prebuilt = {}
  None = None
  MaxSignals = 2
PROPERTIES ShutdownEnds
CHECK_DEADLOCK FALSE
