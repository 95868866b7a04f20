CONSTANTS
  Changes = {1, 2}
  SvNames = {"s1", "s2"}
  MaxSavepoints = 2
  LocksTables = TRUE
  UnsafeInTransaction = TRUE
  SetReadsTables = FALSE
  SetSavepointMayFail = FALSE
SPECIFICATION Spec
INVARIANT
  ActiveMeansMarked
PROPERTIES
  FailedStatementUndone
  EndedStmtTxHasBegun
