CONSTANTS
  Request = {q1, q2}
  Namespace = {n1, n2}
  ApiKey = {a, b}
  Address = {h1, h2}
  StartInput <- MCStartInput
  MaxRuns = 1
  MaxTasks = 1
  MaxQueueDepth = 1
  MaxStreams = 1
  MaxFailures = 1
  MaxTracked = 1
  Unit = 2
  Refill = 1
  Burst = 2
  ClockStep <- MCClockStep
  MaxRequests = 3
  MaxHappenings = 2
SPECIFICATION Spec
INVARIANTS StartsOnce CountsExact 
SYMMETRY Symmetry
CHECK_DEADLOCK FALSE
