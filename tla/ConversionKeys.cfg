SPECIFICATION TransferSpec
CONSTANTS
  PgLimit = 4
  MysqlLimit = 5
  Case <- MCCase
  RowId = {1, 2}
  MaxCopies = 1
  MaxChanges = 4
INVARIANTS Located
CHECK_DEADLOCK FALSE
