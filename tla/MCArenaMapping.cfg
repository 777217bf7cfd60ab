SPECIFICATION Spec
CONSTANTS
  Arenas = {a1, a2, a3}
  Unmapped = Unmapped
  Leaked = Leaked
  NumPages = 5
  PageSize = 8
  HeaderSize = 5
  MaxAlignment = 2
  InitialSizes = {0, 1, 2, 3, 4, 8, 11, 12}
  Debug = FALSE
CHECK_DEADLOCK FALSE
SYMMETRY Symmetry
INVARIANT MappedUpToPadding
PROPERTY DestroySparesOthers
