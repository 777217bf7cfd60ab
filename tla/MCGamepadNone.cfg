SPECIFICATION Spec
CONSTANTS
  NumSlots = 2
  Seats = 1
  Descriptors = {3, 4, 5}
  NoThread = NoThread
  ArenaRoom = 2
  MaxPending = 1
  Enabled = FALSE
  MaxLost = 0
  Failures = {}
CHECK_DEADLOCK FALSE
INVARIANT DestroyWithoutGamepads
