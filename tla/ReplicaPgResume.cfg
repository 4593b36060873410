SPECIFICATION Spec
CONSTANTS
  k1 = k1
  k2 = k2
  v1 = v1
  v2 = v2
  NoRow = NoRow
  Key <- MCKeys
  Val <- MCVals
  SourceType = "postgres"
  DestType = "postgres"
  Bootstrap = "snapshot"
  MaxLog = 3
  MaxFaults = 1
  Prefetch = 2
  BatchSize = 2
  MaxStalls = 1
  StartTime = {"taken"}
SYMMETRY Symmetry
INVARIANTS NoGap
CHECK_DEADLOCK FALSE
