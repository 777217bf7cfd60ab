SPECIFICATION Spec
CONSTANTS
  NumSlots = 2
  Seats = 1
  Descriptors = {3, 4, 5}
  NoThread = NoThread
  ArenaRoom = 1
  MaxPending = 0
  Enabled = TRUE
  MaxLost = 1
  Failures = {"seat"}
CHECK_DEADLOCK FALSE
INVARIANTS TypeOK ThreadsEndBeforeArena DescriptorsClosed
PROPERTIES ReportsAlternate ClosesOwnDevice RumblePlaysOnOwnFile
