CONSTANTS
  Conns = {c1, c2}
  Handlers = {h1, h2}
  Names = {n1, n2}
  MaxFile = 3
  MaxPreserved = 1
  ChangeKinds = {"data"}
  EndsPreserving = FALSE
  RenamesUnderHandles = FALSE
  Crashes = 1
  Clients = {k1, k2}
  Rows = {r1, r2}
  Readers = {k1, k2}
  FieldLength = 3
  FullAllocate = 1
  DefaultAllocation = 1
  Unit = 1
  Paths <- ThePaths
  Definitions <- TheDefinitions
  Temp = "temp"
  Preserved = 8
  MaxName = 12
  collation_map <- TheMap
  k1 = k1
  k2 = k2
  r1 = r1
  r2 = r2
SPECIFICATION SSpec
SYMMETRY Symmetry
\* With the bounds reached and the connections away, nothing is left to do.
CHECK_DEADLOCK FALSE
INVARIANTS
  HandlesAccounted
  UseCountExact
  RightFile
  FidMatches
  
  CountCurrent
  IndexesServe
