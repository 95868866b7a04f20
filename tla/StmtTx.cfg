CONSTANTS
  Changes = {1, 2, 3}
  SvNames = {"s1", "s2"}
  MaxSavepoints = 2
  LocksTables = FALSE
  UnsafeInTransaction = FALSE
  SetReadsTables = FALSE
  SetSavepointMayFail = FALSE
SPECIFICATION Spec
INVARIANT
  PendingIsRegistered
PROPERTY
  TransactionSpec
