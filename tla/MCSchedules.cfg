CONSTANTS
  Minute = 1
  MinutesPerHour = 2
  HoursPerDay = 2
  WeekLength = 2
  MonthLength = 3
  MonthsPerYear = 2
  Jumps = {}
  LastMinute = 12
  Manager = {m1, m2}
  Expression <- EveryMinute
  Samples <- SomeExpressions
  Overlaps = {"skip", "buffer_one", "allow_all"}
  CatchUps = {"latest_only", "all"}
  NoWindow = NoWindow
  Windows = {1}
  BatchSize = 1
  Horizon = 2
  LastInstant = 4
  MaxEvents = 1
  Backfills <- Ranges
SPECIFICATION FairSpec
INVARIANTS OneRunPerInstant  BufferExact NextIsFirst
PROPERTIES CatchUpExact CatchesUp
CHECK_DEADLOCK FALSE
