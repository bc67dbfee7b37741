\* Two connections with two pieces each on epoll, one event at a time; three
\* with one piece each over a table of two; a callback takes one piece.
SPECIFICATION Spec
CONSTANTS
  EchoClients = {1, 2}
  EchoPieces = 2
  PollClients = {1, 2, 3}
  PollPieces = 1
  Getters = {2}
  Blank = {1}
  BufPieces = 1
  LISTEN = LISTEN
  NONE = NONE
  MAX_EVENT_NUM = 1
  TableSize = 2
INVARIANTS TypeOK NewsReported TableIsOpen OnlyFreshEntryBlocks
PROPERTIES EveryInputServed LeaverClosed GetAnswered 
CHECK_DEADLOCK FALSE
