CONSTANTS
  MaxChildren = 2
  Worker = {w1, w2}
  Slot = {k1}
  Workflow <- Workflows
  MaxFaults = 1
SPECIFICATION Spec
INVARIANTS ReplaysItself  NeverStuck CompensatesBackwards
SYMMETRY Symmetry
CHECK_DEADLOCK FALSE
