SPECIFICATION Spec
CONSTANTS
  Statements = {s1}
  Transactions = {}
  MaxOpenConns = 1
  QueryTimeout = TRUE
  MaxFaults = 0
INVARIANTS
  RowsUntilDeadline
CHECK_DEADLOCK FALSE
