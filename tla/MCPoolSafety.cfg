CONSTANTS
  Task = {t1, t2}
  Worker = {w1, w2}
  Stoppable = {w1}
  VisibilityTimeout = 3
  HeartbeatInterval = 1
  MaxDelay = 0
  NackDelay = 0
  PoisonThreshold = 2
  MaxDeliveries = 2
  Concurrency = 1
  MaxHandlerAttempts = 2
  StickyTimeout = 0
  RunMayEnd = FALSE
  OperatorActs = TRUE
  MaxFaults = 1
  MaxCrashes = 0
SPECIFICATION PoolSpec
INVARIANTS   BeatingKeepsLease
SYMMETRY TaskSymmetry
CHECK_DEADLOCK FALSE
