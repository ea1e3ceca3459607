CONSTANTS
  Steps = 1
  SignalAt = 2
  Modes = {"live"}
  MaxAttempts = 3
  Failures = {"fatal"}
  Requests = {}
  Slots = 2
  MaxWakes = 5
  MaxDeliveries = 4
  MaxCrashes = 1
  MaxLosses = 1
  MaxFaults = 1
  Parks = FALSE
SPECIFICATION FairSpec
PROPERTY RunCloses
CHECK_DEADLOCK FALSE
