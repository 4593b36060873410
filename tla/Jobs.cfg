SPECIFICATION MCSpec
CONSTANTS
  v1 = v1
  v2 = v2
  Namespace <- MCNamespace
  Rows <- MCRows
  MaxPending = 1
  MaxDeaths = 1
  MaxExportDeaths = 2
  Db <- MCNamespace
  MaxLegacyDeaths = 1
  MaxDrops = 2
  MaxPageDeaths = 1
INVARIANTS MCTypeOK RunTruthful ExportReady LegacyTruthful
PROPERTIES JobsEnd PageFollowsRow
CHECK_DEADLOCK FALSE
