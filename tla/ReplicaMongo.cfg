SPECIFICATION Spec
CONSTANTS
  k1 = k1
  k2 = k2
  v1 = v1
  v2 = v2
  NoRow = NoRow
  Key <- MCKeys
  Val <- MCVals
  SourceType = "mongodb"
  DestType = "mysql"
  Bootstrap = "snapshot"
  MaxLog = 4
  MaxFaults = 2
  Prefetch = 2
  BatchSize = 2
  MaxStalls = 1
  StartTime = {"taken", "refused"}
SYMMETRY Symmetry
INVARIANTS TypeOK NoGap Converged
PROPERTIES CursorHeldThenForward ImplementsReplica
CHECK_DEADLOCK FALSE
