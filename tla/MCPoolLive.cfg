CONSTANTS
  Task = {t1}
  Worker = {w1, w2}
  Stoppable = {w1}
  VisibilityTimeout = 2
  HeartbeatInterval = 1
  MaxDelay = 1
  NackDelay = 1
  PoisonThreshold = 2
  MaxDeliveries = 5
  Concurrency = 1
  MaxHandlerAttempts = 1
  StickyTimeout = 1
  RunMayEnd = TRUE
  OperatorActs = FALSE
  MaxFaults = 1
  MaxCrashes = 1
SPECIFICATION FairPoolSpec
INVARIANTS OnlyNewestHolds PoisonBudget
PROPERTIES  KeepsPromise EveryTaskSettles
CHECK_DEADLOCK FALSE
