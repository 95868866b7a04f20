CONSTANTS
  Indexes = {"i1", "i2"}
  NRows = 3
  KeyOrder <- Orders
  RowsToBlock = 2
  RequestsMayFail = TRUE
  LockMayFail = FALSE
  UnlockedBy = {"unlock_tables"}
SPECIFICATION Spec
INVARIANT
  InUseExact
  RequestsFit
  RowLocksAccounted
  ObjLockMatched
  RightRow
  RowsInOrder
