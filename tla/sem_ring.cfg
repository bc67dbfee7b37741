\* Ten numbers through a ring of three slots: the indices go round three times.
SPECIFICATION Spec
CONSTANTS
  Slots = 3
  First = 100
  Limit = 10
INVARIANTS TypeOK NeverSameSlot
PROPERTIES ImplementsLine AllPrinted
CHECK_DEADLOCK FALSE
