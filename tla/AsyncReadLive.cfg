CONSTANTS
  NRows = 3
  MaxCapacity = 2
  BatchSize = 2
  PipeCapacity = 1
  AsyncModes = {TRUE}
  EndReadFirst = TRUE
  PipeReadMayFail = TRUE
  ServerMayDie = FALSE
SPECIFICATION FairSpec
PROPERTY
  ReadReturns
