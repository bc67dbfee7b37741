\* Can the table be full when main is told it is not?
SPECIFICATION Spec
CONSTANTS
  Clients = {c1, c2, c3, c4}
  MAX_USER = 2
  FREE = FREE
INVARIANTS RoomForNext
CHECK_DEADLOCK FALSE
