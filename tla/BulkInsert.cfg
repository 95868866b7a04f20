CONSTANTS
  MaxId = 4
  MaxRows = 3
  Capacities = {1, 2}
  BinLogModes = {TRUE, FALSE}
  ExplicitIds = {1, 3}
  FlushedSizes = {1}
  RequestsMayFail = TRUE
  RetryResumes = TRUE
SPECIFICATION Spec
INVARIANTS
  PredictionExact
  AcceptedAccounted
  NothingHeld
  SingleRowsSettled
