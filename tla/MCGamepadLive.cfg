SPECIFICATION Spec
CONSTANTS
  NumSlots = 2
  Seats = 1
  Descriptors = {3, 4}
  NoThread = NoThread
  ArenaRoom = 1
  MaxPending = 1
  Enabled = TRUE
  MaxLost = 0
  Failures = {"display", "seat", "thread"}
CHECK_DEADLOCK FALSE
PROPERTIES DestroyEnds DisconnectNoticed
