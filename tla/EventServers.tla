---------------------------- MODULE EventServers ----------------------------
(***************************************************************************)
(* The event-driven servers of src/ side by side, over the same sockets:   *)
(* one of the programs is started and runs alone.  What they promise in    *)
(* common is stated here once.                                             *)
(***************************************************************************)
EXTENDS Naturals, Sequences

CONSTANTS EchoClients, EchoPieces,    \* of the servers on epoll and libevent
          PollClients, PollPieces,    \* of the servers on poll and select
          Getters, Blank, LISTEN, NONE, MAX_EVENT_NUM, TableSize, BufPieces

VARIABLES program,
          queue, client, sent, input, peer, server,          \* Sockets
          et, ready, batch, file,                            \* EpollServer
          how, table, revents, connect, max_fd, i, pc,       \* PollServer
          line,                                              \* HttpEpoll
          serves, inbuf, outbuf, written, active         \* LibeventServer

Echo == INSTANCE EpollServer WITH Clients <- EchoClients, Pieces <- EchoPieces
Http == INSTANCE HttpEpoll   WITH Clients <- EchoClients, Pieces <- EchoPieces
Poll == INSTANCE PollServer  WITH Clients <- PollClients, Pieces <- PollPieces
Libevent ==
  INSTANCE LibeventServer WITH Clients <- EchoClients, Pieces <- EchoPieces

ASSUME EventAssumption ==
  /\ Echo!EpollAssumption /\ Http!EpollAssumption
  /\ Getters \subseteq EchoClients
  /\ Poll!TableAssumption /\ Libevent!LibeventAssumption

epoll   == <<et, ready, batch>>
poller  == <<how, table, revents, connect, max_fd, i, pc>>
library == <<serves, inbuf, outbuf, written, active>>
vars    == <<program, queue, client, sent, input, peer, server, epoll, file,
             poller, line, library>>

\* A program that does not run has no state.
NoEpoll    == et = FALSE /\ ready = <<>> /\ batch = <<>>
NoFile     == file = "epoll_server"
NoPoll     == /\ how = "poll" /\ table = <<>> /\ revents = <<>>
              /\ connect = FALSE /\ max_fd = 0 /\ i = 0 /\ pc = "poll"
NoHttp     == line = 0
NoLibevent == /\ serves = "echo" /\ inbuf = <<>> /\ outbuf = <<>>
              /\ written = <<>> /\ active = {}

Init ==
  \/ program = "epoll" /\ Echo!Init /\ NoPoll /\ NoHttp /\ NoLibevent
  \/ program = "http"  /\ Http!Init /\ NoFile /\ NoPoll /\ NoLibevent
  \/ /\ program = "poll" /\ Poll!Init
     /\ NoEpoll /\ NoFile /\ NoHttp /\ NoLibevent
  \/ /\ program = "libevent" /\ Libevent!Init
     /\ NoEpoll /\ NoFile /\ NoPoll /\ NoHttp

\* What the steps of each program leave alone.
Epolls    == program = "epoll" /\ UNCHANGED <<program, poller, line, library>>
Https     == program = "http"  /\ UNCHANGED <<program, file, poller, library>>
Polls     == /\ program = "poll"
             /\ UNCHANGED <<program, epoll, file, line, library>>
Libevents == /\ program = "libevent"
             /\ UNCHANGED <<program, epoll, file, poller, line>>

ServerStep ==
  \/ Epolls /\ Echo!ServerStep
  \/ Https /\ Http!ServerStep
  \/ Polls /\ Poll!ServerStep
  \/ Libevents /\ Libevent!ServerStep

Arrival ==
  \/ Epolls /\ Echo!Arrival /\ UNCHANGED file
  \/ Https /\ Http!Arrival /\ UNCHANGED line
  \/ Polls /\ Poll!Arrival
  \/ Libevents /\ Libevent!Arrival

\* The user stops the http server on libevent.
Signal == Libevents /\ server = "up" /\ Libevent!CbSignal

Next == ServerStep \/ Arrival \/ Signal

(* The one thread of the server runs.  Clients need not do anything.       *)
Spec == Init /\ [][Next]_vars /\ WF_vars(ServerStep)
-----------------------------------------------------------------------------
TypeOK ==
  /\ program \in {"epoll", "http", "poll", "libevent"}
  /\ program = "epoll" => Echo!EpollTypeOK
  /\ program = "http" => Http!EpollTypeOK /\ line \in 0 .. EchoPieces
  /\ program = "poll" => Poll!TypeOK
  /\ program = "libevent" => Libevent!TypeOK

(* No news of a connection is lost between two events, and of the http     *)
(* server no input (epoll_server.c:138-168, epoll_server2.c:138-170,       *)
(* mtlt.cpp:90-114, http_epoll.c:86-99).                                   *)
NewsReported ==
  /\ program = "epoll" => Echo!NewsReported
  /\ program = "http" => Http!InputReported

(* The tables of poll and select hold the open connections and nothing     *)
(* else (poll_server.c:73-85, 109-114, select_server.c:66-67, 88-93).      *)
TableIsOpen == program = "poll" => Poll!TableIsOpen

(* Only an entry used for the first time makes the server block in a read  *)
(* (poll_server.c:63-98, select_server.c:56-77).                           *)
OnlyFreshEntryBlocks == program = "poll" => Poll!OnlyFreshEntryBlocks

All == EchoClients \cup PollClients

\* Does the program echo what it reads?
Echoes == \/ program \in {"epoll", "poll"}
          \/ program = "libevent" /\ serves = "echo"

\* An open connection with input to read or an echo to write, or whose
\* client has left.
Unserved(c) ==
  /\ c \in DOMAIN client /\ client[c] = "open"
  /\ input[c] > 0 \/ (program = "libevent" /\ outbuf[c] > 0)
Left(c) == c \in DOMAIN client /\ client[c] = "open" /\ peer[c] # "there"

\* The server is gone, or sits in a read that does not return.
Stuck == server # "up" \/ (program = "poll" /\ Poll!Blocked)

(* Each echo server reads in the end what an open connection sent, and     *)
(* writes what it took, as long as it runs and does not block (epoll_      *)
(* server.c:66-103, 122-173, poll_server.c:90-118, select_server.c:71-99,  *)
(* event_server.c:14-27) ...                                               *)
EveryInputServed ==
  \A c \in All : (Echoes /\ Unserved(c)) ~> (~Unserved(c) \/ Stuck)

(* ... and closes it when its client has left (epoll_server.c:87-98,       *)
(* 142-157, poll_server.c:109-114, select_server.c:88-93), as does the     *)
(* http server on libevent (libevent_http.c:77-103).                       *)
LeaverClosed ==
  \A c \in All : (program # "http" /\ Left(c)) ~> (~Left(c) \/ Stuck)

\* Of the http server on libevent: a client that is there sent a GET; the
\* answer was written, or the client has left before.
Asked(c)    == /\ program = "libevent" /\ serves = "http"
               /\ client[c] = "open" /\ sent[c] > 0
Answered(c) == peer[c] # "there" \/ (c \in DOMAIN written /\ written[c] > 0)

(* A GET is answered, however its headers are cut into pieces, and on epoll *)
(* its connection is closed (http_epoll.c:101-107); on libevent it stays   *)
(* open (libevent_http.c:56-60), and a client that closes or half-closes   *)
(* it may lose the answer (libevent_http.c:77-103).                        *)
GetAnswered ==
  /\ program = "http" => Http!GetAnswered
  /\ \A c \in Getters : Asked(c) ~> (Answered(c) \/ server # "up")
-----------------------------------------------------------------------------
\* What was answered: on epoll and poll each piece as soon as it is read; the
\* http server on epoll closes with its one answer.
AnsweredBy(c) ==
  CASE program = "libevent"         -> written[c]
    [] program = "http"             -> IF client[c] = "closed" THEN 1 ELSE 0
    [] program \in {"epoll", "poll"} -> sent[c] - input[c]

\* The connections that may be answered.  A later piece that starts with a
\* space is taken for what was on the stack (libevent_http.c:49-52).
Asking == CASE program = "http"                         -> Getters
            [] program = "libevent" /\ serves = "http"  -> Getters \cup Blank
            [] OTHER                                    -> All

Manner == CASE program \in {"epoll", "poll"} -> "complete"
            [] program = "libevent"          -> "lossy"
            [] program = "http"              -> "once"

Of(c, value, none) == IF c \in DOMAIN client THEN value ELSE none

Service ==
  INSTANCE EventService WITH
    Clients  <- All,
    client   <- [c \in All |-> Of(c, client[c], "none")],
    sent     <- [c \in All |-> Of(c, sent[c], 0)],
    answered <- [c \in All |-> Of(c, AnsweredBy(c), 0)],
    left     <- [c \in All |-> Of(c, peer[c] # "there", FALSE)],
    up       <- server = "up",
    manner   <- Manner,
    asking   <- Asking

(* All the event-driven servers implement one service: connections in      *)
(* order, no piece answered twice, and none of a client that asked for     *)
(* nothing.  No echo server closes a connection while its client is there; *)
(* all but the one on libevent, which drops its buffers at the end of the  *)
(* stream (event_server.c:42-63, libevent_http.c:77-103), echo everything  *)
(* before.  The http server on epoll closes a connection with its answer,  *)
(* and never otherwise (http_epoll.c:86-107).                              *)
ImplementsService == Service!Spec
=============================================================================
