CONSTANTS
  MaxRuns = 3
  ChildKind <- MCChildKind
  RootLimits = {{}}
  Endings = {"run_completed", "run_continued_as_new"}
  Tx = {t1, t2}
  Clients = {"cancel", "terminate"}
  MaxBegun = 4
SPECIFICATION Spec
SYMMETRY Symmetry
INVARIANTS NoDeadlock OutcomeExact NoOrphan OneOpenPerChain
PROPERTIES ClosedIsFinal ImplementsTree
CHECK_DEADLOCK FALSE
