CONSTANTS
  NRows = 4
  MaxCapacity = 3
  BatchSize = 2
  PipeCapacity = 2
  AsyncModes = {TRUE, FALSE}
  EndReadFirst = TRUE
  PipeReadMayFail = FALSE
  ServerMayDie = TRUE
SPECIFICATION Spec
INVARIANTS
  ReloadFindsServerQuiet
  
  CountsAreBacked
PROPERTY
  CursorSpec
