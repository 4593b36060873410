SPECIFICATION Spec
CONSTANTS
  c1 = c1
  p1 = p1
  bad = bad
  Client <- MCOneClient
  Ops <- MCAllOps
  Pattern <- MCPattern
  BadPattern = bad
  Keep = 1
  MaxStalls = 1
  MaxRuns = 3
  MaxRestores = 2
  MaxFires = 2
  MaxRequests = 2
  MaxCrashes = 1
INVARIANTS TypeOK NewestRestorable PrunedHasNoArchive RestoreCarried ScheduleMatchesRow
PROPERTIES RetentionEnforced
CHECK_DEADLOCK FALSE
