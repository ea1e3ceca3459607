CONSTANTS
  MaxChildren = 2
  Worker = {w1}
  Slot = {k1}
  Workflow <- OnlySleeping
  MaxFaults = 1
SPECIFICATION Spec
INVARIANT ReplaysItself
CHECK_DEADLOCK FALSE
