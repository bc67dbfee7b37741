---------------------------- MODULE PollServer ----------------------------
(***************************************************************************)
(* src/select_poll_epoll/poll_server.c and select_server.c: an echo server *)
(* over a table of fds.  A round polls the table, accepts one connection,  *)
(* and reads the fds that were reported.  The fds block.                   *)
(*                                                                         *)
(* The two programs differ in the table.  With poll a connection takes the *)
(* lowest free of 1024 entries; with select its fd is its entry, the       *)
(* kernel gives the lowest free one, and the set has FD_SETSIZE.           *)
(***************************************************************************)
EXTENDS Sockets

CONSTANTS TableSize, NONE

\* What is assumed of the constants.
TableAssumption ==
  SocketAssumption /\ TableSize \in Nat \ {0} /\ NONE \notin Clients

Entries == 1 .. TableSize

VARIABLES
  how,                 \* which of the two programs runs
  table,               \* client_fds: the connection of each entry
  revents,             \* what the last poll or select reported, per entry ...
  connect,             \* ... and of the listening fd
  max_fd, i,           \* the last entry ever used, the entry the loop is at
  pc

poller == <<how, table, revents, connect, max_fd, i, pc>>
vars == <<connection, server, poller>>

(* The array of poll is on the stack: its revents hold anything before the *)
(* first poll.                                                             *)
Init ==
  /\ SocketInit
  /\ how \in {"poll", "select"}
  /\ table = [e \in Entries |-> NONE]
  /\ revents \in [Entries -> BOOLEAN]
  /\ how = "select" => \A e \in Entries : ~revents[e]
  /\ connect = FALSE /\ max_fd = 0 /\ i = 0 /\ pc = "poll"
-----------------------------------------------------------------------------
Arrival ==
  /\ \E c \in Clients : Connect(c) \/ Send(c) \/ Leave(c)
  /\ UNCHANGED <<server, poller>>

Reported(e) == table[e] # NONE /\ Readable(table[e])

\* Mutant of PollRevents: what an earlier round reported stays.
PollReventsKept == [e \in Entries |-> Reported(e) \/ revents[e]]

\* poll writes revents of the entries up to max_fd; with select the others
\* were never set.
PollRevents ==
  [e \in Entries |-> IF e <= max_fd THEN Reported(e) ELSE revents[e]]

Poll ==
  /\ pc = "poll"
  /\ Readable(LISTEN) \/ \E e \in Entries : Reported(e)
  /\ connect' = Readable(LISTEN)
  /\ revents' = PollRevents
  /\ pc' = "accept"
  /\ UNCHANGED <<connection, server, how, table, max_fd, i>>

Free == {e \in Entries : table[e] = NONE}

\* Mutant of MaxAfter: the entries are counted as they are used.
MaxCounted(e) == max_fd + 1

\* Mutant of MaxAfter: an entry is the last one when it is used.
MaxIsLatest(e) == e

\* The highest entry the loop has to look at once e is used.
MaxAfter(e) == IF e > max_fd THEN e ELSE max_fd

AcceptOne ==
  /\ pc = "accept" /\ connect /\ Free # {}
  /\ TakeConnection
  /\ \E e \in Free : /\ \A f \in Free : e <= f
                     /\ table' = [table EXCEPT ![e] = Head(queue)]
                     /\ max_fd' = MaxAfter(e)
  /\ i' = 1 /\ pc' = "read"
  /\ UNCHANGED <<sent, input, peer, server, how, revents, connect>>

\* The table is full: max_fd becomes an index past its end, or FD_SET writes
\* there, and nothing is known of the program from here on.
Overrun ==
  /\ pc = "accept" /\ connect /\ Free = {}
  /\ TakeConnection
  /\ server' = "undefined"
  /\ UNCHANGED <<sent, input, peer, poller>>

AcceptNone ==
  /\ pc = "accept" /\ ~connect
  /\ i' = 1 /\ pc' = "read"
  /\ UNCHANGED <<connection, server, how, table, revents, connect, max_fd>>

InLoop == pc = "read" /\ i <= max_fd

Skip ==
  /\ InLoop /\ (table[i] = NONE \/ ~revents[i])
  /\ i' = i + 1
  /\ UNCHANGED <<connection, server, how, table, revents, connect, max_fd, pc>>

ReadData ==
  /\ InLoop /\ table[i] # NONE /\ revents[i] /\ ReadResult(table[i]) = "data"
  /\ Echo(table[i])
  /\ i' = i + 1
  /\ UNCHANGED <<how, table, revents, connect, max_fd, pc>>

\* Mutant of ReadEnd: the fd is closed and stays in the table.
ReadEndKeepsEntry ==
  /\ InLoop /\ table[i] # NONE /\ revents[i] /\ ReadResult(table[i]) = "end"
  /\ Close(table[i])
  /\ i' = i + 1
  /\ UNCHANGED <<how, table, revents, connect, max_fd, pc>>

ReadEnd ==
  /\ InLoop /\ table[i] # NONE /\ revents[i] /\ ReadResult(table[i]) = "end"
  /\ Close(table[i])
  /\ table' = [table EXCEPT ![i] = NONE]
  /\ i' = i + 1
  /\ UNCHANGED <<how, revents, connect, max_fd, pc>>

\* An error ends the round, and the connection stays in the table.
ReadError ==
  /\ InLoop /\ table[i] # NONE /\ revents[i] /\ ReadResult(table[i]) = "error"
  /\ ResetReported(table[i])
  /\ pc' = "poll"
  /\ UNCHANGED <<queue, client, sent, input, server, how, table, revents,
                 connect, max_fd, i>>

EndOfRound ==
  /\ pc = "read" /\ i > max_fd
  /\ pc' = "poll"
  /\ UNCHANGED <<connection, server, how, table, revents, connect, max_fd, i>>
-----------------------------------------------------------------------------
ServerStep ==
  /\ server = "up"
  /\ \/ Poll \/ AcceptOne \/ Overrun \/ AcceptNone
     \/ Skip \/ ReadData \/ ReadEnd \/ ReadError \/ EndOfRound

Next == ServerStep \/ Arrival

Spec == Init /\ [][Next]_vars /\ WF_vars(ServerStep)
-----------------------------------------------------------------------------
TypeOK ==
  /\ SocketTypeOK
  /\ how \in {"poll", "select"}
  /\ table \in [Entries -> Clients \cup {NONE}]
  /\ revents \in [Entries -> BOOLEAN] /\ connect \in BOOLEAN
  /\ max_fd \in 0 .. TableSize /\ i \in 0 .. TableSize + 1
  /\ pc \in {"poll", "accept", "read"}

\* The server sits in a read that does not return.
Blocked ==
  /\ server = "up" /\ InLoop /\ table[i] # NONE /\ revents[i]
  /\ ReadResult(table[i]) = "none"

(* Every open connection is in the table, once, below max_fd, and nothing  *)
(* else is: no fd is forgotten, none is served that was closed and may     *)
(* belong to another client.                                               *)
TableIsOpen ==
  server = "up" =>
    /\ \A c \in Clients : client[c] = "open" =>
         \E e \in Entries : /\ table[e] = c /\ e <= max_fd
                            /\ \A f \in Entries \ {e} : table[f] # c
    /\ \A e \in Entries : table[e] # NONE => client[table[e]] = "open"

(* The server sits in a read that does not return only with poll, at an    *)
(* entry that was used for the first time in this round, and never with    *)
(* select (poll_server.c:63-98, select_server.c:56-77).                    *)
OnlyFreshEntryBlocks ==
  Blocked => how = "poll" /\ connect /\ i = max_fd
=============================================================================
