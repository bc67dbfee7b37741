----------------------------- MODULE HttpEpoll -----------------------------
(***************************************************************************)
(* src/http_code/epoll/http_epoll.c: an http server on epoll, all fds      *)
(* edge-triggered.  A request is a line and headers, and may come in       *)
(* pieces.  A step of the server is one get_line that finds a piece, or    *)
(* what it does when there is no more.                                     *)
(***************************************************************************)
EXTENDS Epoll

CONSTANT Getters       \* the clients whose first piece starts with "get"

VARIABLE line          \* the first piece read of the request at hand, or 0

vars == <<connection, server, epoll, line>>

Init == SocketInit /\ EpollInit /\ et = TRUE /\ line = 0

At(c) == batch # <<>> /\ Head(batch) = c

\* The number of the first piece of c that was not read.
NextPiece(c) == sent[c] - input[c] + 1

\* The line that was read first is the request line of a GET.
IsGet(c) == line = 1 /\ c \in Getters
-----------------------------------------------------------------------------
\* do_read: lines are read until get_line returns 0, and the first is kept.
R_Line(c) ==
  /\ At(c) /\ ReadResult(c) = "data"
  /\ input' = [input EXCEPT ![c] = @ - 1]
  /\ line' = IF line = 0 THEN NextPiece(c) ELSE line
  /\ UNCHANGED <<queue, client, sent, peer, server, epoll>>

\* No more data, the end of the stream and an error are all the end of the
\* request.
NoMore(c) == ReadResult(c) \in {"none", "end", "error"}

\* Mutant of R_Reply: the connection stays open after the answer.
R_ReplyKeepsOpen(c) ==
  /\ At(c) /\ NoMore(c) /\ IsGet(c)
  /\ Write(c)
  /\ line' = 0 /\ batch' = Tail(batch)
  /\ UNCHANGED <<queue, client, sent, input, et, ready>>

\* http_get_request and disconnect.
R_Reply(c) ==
  /\ At(c) /\ NoMore(c) /\ IsGet(c)
  /\ Write(c)
  /\ client' = [client EXCEPT ![c] = "closed"]
  /\ ready' = Only(Fds \ {c}, ready)
  /\ line' = 0 /\ batch' = Tail(batch)
  /\ UNCHANGED <<queue, sent, input, et>>

\* Anything else is dropped, and the connection stays open.
R_Drop(c) ==
  /\ At(c) /\ NoMore(c) /\ ~IsGet(c)
  /\ IF peer[c] = "reset" THEN ResetReported(c) ELSE peer' = peer
  /\ line' = 0 /\ batch' = Tail(batch)
  /\ UNCHANGED <<queue, client, sent, input, server, et, ready>>
-----------------------------------------------------------------------------
ServerStep ==
  /\ server = "up"
  /\ \/ (Wait \/ Accept) /\ UNCHANGED line
     \/ \E c \in Clients : R_Line(c) \/ R_Reply(c) \/ R_Drop(c)

Next == ServerStep \/ (Arrival /\ UNCHANGED line)

Spec == Init /\ [][Next]_vars /\ WF_vars(ServerStep)
-----------------------------------------------------------------------------
(* A GET that arrived whole or in part is answered, and the connection is  *)
(* closed after the answer (http_epoll.c:101-107).                         *)
GetAnswered ==
  \A c \in Getters : (client[c] = "open" /\ sent[c] > 0)
                       ~> (client[c] = "closed" \/ server # "up")
=============================================================================
