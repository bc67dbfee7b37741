---------------------------- MODULE EpollServer ----------------------------
(***************************************************************************)
(* src/select_poll_epoll/epoll_server.c: an echo server in level-triggered *)
(* mode, or with an argument in edge-triggered mode.  The listening fd is  *)
(* edge-triggered in both.  A step of the server is one call that reads.   *)
(* epoll_server2.c differs in how the edge-triggered loop ends, mtlt.cpp   *)
(* and 9-3mtlt.cpp have the edge-triggered mode of epoll_server.c only.    *)
(***************************************************************************)
EXTENDS Epoll

VARIABLE file            \* the program: one of epoll_server, epoll_server2

vars == <<connection, server, epoll, file>>

\* Level-triggered, the two programs are the same.
Init ==
  /\ SocketInit /\ EpollInit /\ et \in BOOLEAN
  /\ file \in {"epoll_server", "epoll_server2"}
  /\ file = "epoll_server2" => et

\* The event the server is at is of client c.
At(c) == batch # <<>> /\ Head(batch) = c

Done == batch' = Tail(batch)

\* close takes the fd off the list as well.
Forget(c) == ready' = Only(Fds \ {c}, ready)
-----------------------------------------------------------------------------
(* lt_work: one read per event.  A read that fails ends the server.        *)
L_Read(c) ==
  /\ At(c) /\ ~et
  /\ \/ ReadResult(c) = "data" /\ Echo(c) /\ ready' = ready
     \/ ReadResult(c) = "end" /\ Close(c) /\ Forget(c)
     \/ /\ ReadResult(c) \in {"none", "error", "bad_fd"} /\ server' = "exited"
        /\ UNCHANGED <<connection, ready>>
  /\ Done /\ UNCHANGED <<et, file>>
-----------------------------------------------------------------------------
(* et_work: read until nothing is left.  At the end of the stream the fd   *)
(* is closed and the loop goes on, to fail on it and close it once more;   *)
(* in epoll_server2.c it is left.                                          *)
E_Data(c) ==
  /\ At(c) /\ et /\ ReadResult(c) = "data"
  /\ Echo(c)
  /\ UNCHANGED <<epoll, file>>

E_End(c) ==
  /\ At(c) /\ et /\ ReadResult(c) = "end" /\ file = "epoll_server"
  /\ Close(c) /\ Forget(c)
  /\ UNCHANGED <<et, batch, file>>

E_EndLeaves(c) ==
  /\ At(c) /\ et /\ ReadResult(c) = "end" /\ file = "epoll_server2"
  /\ Close(c) /\ Forget(c)
  /\ Done /\ UNCHANGED <<et, file>>

\* Mutant of E_Later: the loop ends after the first read.
E_LaterTooSoon(c) ==
  /\ At(c) /\ et /\ ReadResult(c) \in {"none", "data"}
  /\ Done
  /\ UNCHANGED <<connection, server, et, ready, file>>

E_Later(c) ==
  /\ At(c) /\ et /\ ReadResult(c) = "none"
  /\ Done
  /\ UNCHANGED <<connection, server, et, ready, file>>

\* Mutant of E_Error: EAGAIN is an error as well.
E_ErrorAlways(c) ==
  /\ At(c) /\ et /\ ReadResult(c) \in {"none", "error", "bad_fd"}
  /\ Close(c) /\ Forget(c)
  /\ Done /\ UNCHANGED <<et, file>>

E_Error(c) ==
  /\ At(c) /\ et /\ ReadResult(c) \in {"error", "bad_fd"}
  /\ Close(c) /\ Forget(c)
  /\ Done /\ UNCHANGED <<et, file>>
-----------------------------------------------------------------------------
ServerStep ==
  /\ server = "up"
  /\ \/ (Wait \/ Accept) /\ file' = file
     \/ \E c \in Clients : L_Read(c) \/ E_Data(c) \/ E_End(c) \/ E_EndLeaves(c)
                              \/ E_Later(c) \/ E_Error(c)

Next == ServerStep \/ (Arrival /\ file' = file)

(* The one thread of the server runs.                                      *)
Spec == Init /\ [][Next]_vars /\ WF_vars(ServerStep)

(* What happened to an open connection is known: there is input to read,   *)
(* or its client has left, only while it is on the kernel's list or among  *)
(* the events in the server's hands, although an edge is reported once and *)
(* news comes at any moment of the loop that reads.                        *)
NewsReported ==
  server = "up" =>
    \A c \in Clients : client[c] = "open" /\ Readable(c) =>
      OnList(c, ready) \/ OnList(c, batch)

(* In level-triggered mode, which is the default, a connection in the      *)
(* listen queue is accepted (epoll_server.c:216-228).                      *)
DefaultModeAccepts ==
  \A c \in Clients : (~et /\ client[c] = "queued")
                       ~> (client[c] = "open" \/ server # "up")
=============================================================================
