SPECIFICATION MCSpec
CONSTANTS
  v1 = v1
  v2 = v2
  k1 = k1
  PgLimit = 4
  MysqlLimit = 5
  Case <- MCCase
  RowId = {1, 2}
  MaxCopies = 2
  MaxChanges = 4
  Table <- MCPair
  Chosen <- MCChosen
  MaxLog = 4
  MaxAttempts = 3
  Status <- MCStatus
  None = None
  NoOne = NoOne
  Unused = Unused
  Gone = Gone
  Caller <- MCPair
  Email <- MCPair
  Profile <- MCPair
  Conn = {k1}
  MaxAccounts = 3
  MaxRequests = 6
  PageSize = 2
  MaxRows = 3
INVARIANTS MCTypeOK  ColumnsCarried Mirrors RowsKept MetricCarried PagesWhole
PROPERTIES ProfilesApart
CHECK_DEADLOCK FALSE
