SPECIFICATION Spec
CONSTANTS
  Projects = {p1}
  prebuilt = {}
  None = None
  MaxSignals = 1
INVARIANTS CleansUpAllRegistered
CHECK_DEADLOCK FALSE
