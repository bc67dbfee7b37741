------------------------------- MODULE Epoll -------------------------------
(***************************************************************************)
(* epoll as the servers of src/ use it: a list of fds with news, and       *)
(* epoll_wait, which hands the first of it to the server as a batch.  An   *)
(* fd in level-triggered mode goes back on the list when it is reported.   *)
(***************************************************************************)
EXTENDS Sockets

CONSTANT MAX_EVENT_NUM        \* how many events one epoll_wait reports

\* What is assumed of the constants.
EpollAssumption == SocketAssumption /\ MAX_EVENT_NUM \in Nat \ {0}

VARIABLES
  et,                         \* are client fds registered edge-triggered?
  ready,                      \* the kernel's list, the oldest first
  batch                       \* the events the server has still to handle

epoll == <<et, ready, batch>>

Fds == Clients \cup {LISTEN}

OnList(fd, list) == \E k \in 1 .. Len(list) : list[k] = fd

\* The members of the list that are in S, in their order.
Only(S, list) ==
  LET only[k \in 0 .. Len(list)] ==
        IF k = 0 THEN <<>>
        ELSE IF list[k] \in S THEN Append(only[k - 1], list[k]) ELSE only[k - 1]
  IN  only[Len(list)]

\* The listening fd is registered before the first wait.
EpollInit == ready = <<>> /\ batch = <<>>

\* News of fd puts it on the list, if it is registered and not there yet.
Raise(fd) ==
  ready' = IF (fd = LISTEN \/ client[fd] = "open") /\ ~OnList(fd, ready)
           THEN Append(ready, fd) ELSE ready

Arrival ==
  /\ \E c \in Clients : \/ Connect(c) /\ Raise(LISTEN)
                        \/ (Send(c) \/ Leave(c)) /\ Raise(c)
  /\ UNCHANGED <<server, et, batch>>

\* epoll_wait returns the first fds that are readable; what it finds not to
\* be readable any more is dropped.
Wait ==
  /\ batch = <<>>
  /\ LET news == Only({fd \in Fds : Readable(fd)}, ready) IN
       /\ news # <<>>
       /\ LET n    == IF Len(news) < MAX_EVENT_NUM THEN Len(news)
                                                  ELSE MAX_EVENT_NUM
              told == SubSeq(news, 1, n)
              back == IF et THEN <<>> ELSE Only(Clients, told)
          IN batch' = told /\ ready' = SubSeq(news, n + 1, Len(news)) \o back
  /\ UNCHANGED <<connection, server, et>>

\* accept of one connection, and its registration, which reports at once
\* what the connection already has.
Accept ==
  /\ batch # <<>> /\ Head(batch) = LISTEN /\ queue # <<>>
  /\ TakeConnection
  /\ ready' = IF Readable(Head(queue)) THEN Append(ready, Head(queue))
                                       ELSE ready
  /\ batch' = Tail(batch)
  /\ UNCHANGED <<sent, input, peer, server, et>>

EpollTypeOK ==
  /\ SocketTypeOK
  /\ et \in BOOLEAN
  /\ {ready, batch} \subseteq Seq(Fds)

(* No input is lost: an open connection with input is on the kernel's list *)
(* or among the events in the server's hands, although an edge is reported *)
(* once and input comes at any moment of the loop that reads.              *)
InputReported ==
  server = "up" =>
    \A c \in Clients : client[c] = "open" /\ input[c] > 0 =>
      OnList(c, ready) \/ OnList(c, batch)
=============================================================================
