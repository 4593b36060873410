SPECIFICATION FairSpec
CONSTANTS
  c1 = c1
  c2 = c2
  Client <- MCTwoClients
  MaxAttempts = 2
  MaxStalls = 1
  MaxRequests = 3
  MaxCrashes = 1
INVARIANTS TypeOK PausedMeansStopped AtMostOneAfterStop
PROPERTIES StopDrains DeleteDrains
CHECK_DEADLOCK FALSE
