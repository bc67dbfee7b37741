\* Three connections or children, more than enough for signals that merge; a
\* pipe of two items that is filled by three; two udp clients with two lines.
SPECIFICATION Spec
CONSTANTS
  Clients = {c1, c2, c3}
  Capacity = 2
  Items = 3
  Peers = {p1, p2}
  Questions = 2
INVARIANTS TypeOK NoChildForgotten NeverUndercounts ReaderGotAll AnswersMatch
PROPERTIES ZombiesReaped PipeProgramsEnd AnsweredUnlessLost
CHECK_DEADLOCK FALSE
