SPECIFICATION Spec
CONSTANTS
  c1 = c1
  c2 = c2
  Client <- MCOneClient
  MaxAttempts = 2
  MaxStalls = 1
  MaxRequests = 2
  MaxCrashes = 0
INVARIANTS ResumeTakesEffect
CHECK_DEADLOCK FALSE
