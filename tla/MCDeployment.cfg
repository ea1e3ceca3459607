CONSTANTS
  p1 = p1
  p2 = p2
  Proc = {p1, p2}
  Jobs <- TwoBuilds
  MaxKnown = 2
  Production = {p1}
  Limits <- TwoLimits
  Revert = 2
  Loops = {"timers", "janitor"}
  Immediate = {"timers"}
  MaxFaults = 1
  MaxKills = 1
SPECIFICATION FairSpec
INVARIANTS MigrationsExact  PoolEndsLast
PROPERTY GetsThere
CHECK_DEADLOCK FALSE
