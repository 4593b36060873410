SPECIFICATION FairSpec
CONSTANTS
  k1 = k1
  k2 = k2
  v1 = v1
  v2 = v2
  NoRow = NoRow
  Key <- MCKeys
  Val <- MCOneVal
  SourceType = "mongodb"
  DestType = "mongodb"
  Bootstrap = "snapshot"
  MaxLog = 2
  MaxFaults = 2
  Prefetch = 2
  BatchSize = 1
  MaxStalls = 1
  StartTime = {"taken"}
PROPERTIES EventuallyEqual BootstrapCompletes
CHECK_DEADLOCK FALSE
