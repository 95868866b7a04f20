CONSTANTS
  S2S <- TheS2S
  D12U <- TheD12U
  D22U <- TheD22U
  E02U <- TheE02U
  E12U <- TheE12U
  E22U1 <- TheE22U1
  E22U <- TheE22U
  E32U1 <- TheE32U1
  E32U <- TheE32U
  U2S <- TheU2S
  U2D <- TheU2D
  U2M2 <- TheU2M2
  U2M3 <- TheU2M3
  Descriptors <- TheDescriptors
  Calls <- TheCalls
  Characters <- TheCharacters
  Columns <- TheColumns
  MaxItems = 2
  Rooms = {0, 1, 2, 3, 4, 5, 6, 8}
  StoresPairs = FALSE
  MaxDecPrecision = 5
  Tables <- TheTables
  PrefixReads = FALSE
SPECIFICATION RSpec
INVARIANTS
  ReadsInside
  OverrunBounded
  ConvertedSoFar
  RefusesExactly
  SubstitutionCounted
  InColumn
  RoundTrip
  ValueSurvives
  ReadFinds
  RangeMeant
\* A conversion or a column's round trip ends.
CHECK_DEADLOCK FALSE
