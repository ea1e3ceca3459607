CONSTANTS
  Steps = 1
  SignalAt = 1
  Modes = {"full"}
  MaxAttempts = 1
  Failures = {"fatal"}
  Requests = {"signal", "cancel", "terminate"}
  Slots = 2
  MaxWakes = 3
  MaxDeliveries = 2
  MaxCrashes = 1
  MaxLosses = 0
  MaxFaults = 0
  Parks = FALSE
SPECIFICATION Spec
INVARIANT ScheduledOnce
PROPERTY KeepsRunPromise
CHECK_DEADLOCK FALSE
