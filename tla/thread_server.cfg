\* Four connections over a table of two slots.
SPECIFICATION Spec
CONSTANTS
  Clients = {c1, c2, c3, c4}
  MAX_USER = 2
  FREE = FREE
INVARIANTS TypeOK OwnsSlot SlotHasWorker NeverPastMax
CHECK_DEADLOCK FALSE
