CONSTANTS
  Steps = 2
  SignalAt = 3
  Modes = {"live", "full"}
  MaxAttempts = 2
  Failures = {"retryable", "fatal"}
  Requests = {}
  Slots = 2
  MaxWakes = 2
  MaxDeliveries = 2
  MaxCrashes = 0
  MaxLosses = 1
  MaxFaults = 1
  Parks = TRUE
SPECIFICATION Spec
INVARIANTS OneVerdict OpenStepHasTask BuriedIsDecided
CHECK_DEADLOCK FALSE
