\* One producer and two consumers, as in main, and four nodes.
SPECIFICATION Spec
CONSTANTS
  Consumers = {c1, c2}
  NULL = NULL
  First = 100
  Limit = 4
INVARIANTS TypeOK NoDanglingNode PrintedOnce NobodySleepsOverWork
PROPERTIES EveryNodeFreed
CHECK_DEADLOCK FALSE
