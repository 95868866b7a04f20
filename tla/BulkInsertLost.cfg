CONSTANTS
  MaxId = 4
  MaxRows = 3
  Capacities = {2}
  BinLogModes = {TRUE, FALSE}
  ExplicitIds = {1, 3}
  FlushedSizes = {}
  RequestsMayFail = FALSE
  RetryResumes = TRUE
SPECIFICATION Spec
INVARIANT
  SuccessStored
