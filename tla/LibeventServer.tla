--------------------------- MODULE LibeventServer ---------------------------
(***************************************************************************)
(* The two servers on libevent: src/lIbevent_code/event_server.c, an echo, *)
(* and src/http_code/libevent, http.  A loop waits for events and calls    *)
(* the program back for each.  A connection is a bufferevent: what the     *)
(* library read waits in one buffer, what the program wrote in another.    *)
(***************************************************************************)
EXTENDS Sockets

CONSTANTS BufPieces,   \* how many pieces the array in cb_read holds
          Getters,     \* the clients whose first piece starts with "get"
          Blank        \* the clients whose later pieces start with a space

LibeventAssumption ==
  /\ SocketAssumption /\ BufPieces \in Nat \ {0}
  /\ Getters \subseteq Clients /\ Blank \subseteq Clients

VARIABLES
  serves,              \* the program: "http" or "echo"
  inbuf, outbuf,       \* per connection: pieces in the two buffers
  written,             \* per connection: pieces written to the socket
  active               \* the events of this round not handled yet

buffers == <<inbuf, outbuf, written>>
library == <<serves, buffers, active>>
vars    == <<connection, server, library>>

Init ==
  /\ SocketInit
  /\ serves \in {"http", "echo"}
  /\ inbuf = [c \in Clients |-> 0] /\ outbuf = [c \in Clients |-> 0]
  /\ written = [c \in Clients |-> 0]
  /\ active = {}

Arrival ==
  /\ \E c \in Clients : Connect(c) \/ Send(c) \/ Leave(c)
  /\ UNCHANGED <<server, library>>
-----------------------------------------------------------------------------
Open == {c \in Clients : client[c] = "open"}

\* What a wait reports; fds are level-triggered.
News == {<<fd, "read">> : fd \in {f \in Open \cup {LISTEN} : Readable(f)}}
          \cup {<<c, "write">> : c \in {d \in Open : outbuf[d] > 0}}

Dispatch ==
  /\ active = {} /\ News # {}
  /\ active' = News
  /\ UNCHANGED <<connection, server, serves, buffers>>

\* Connections are accepted until there is none, and cb_listener is called
\* for each.
CbListener ==
  /\ <<LISTEN, "read">> \in active
  /\ TakeConnection
  /\ active' = IF Len(queue) > 1 THEN active ELSE active \ {<<LISTEN, "read">>}
  /\ UNCHANGED <<sent, input, peer, server, serves, buffers>>

\* What the array method holds after sscanf is "get".  Nothing is stored
\* when the text starts with a space: method keeps what the stack had.
MethodIsGet(c, first) ==
  CASE first = 1                 -> {c \in Getters}
    [] first > 1 /\ c \in Blank  -> BOOLEAN
    [] first > 1 /\ c \notin Blank -> {FALSE}

\* The echo is put in the output buffer ...
EchoTaken(c, n) == outbuf' = [outbuf EXCEPT ![c] = @ + n]

\* ... and so is the reply to a request: its head, then a file or a listing.
\* The connection stays open.
http_response(c) == outbuf' = [outbuf EXCEPT ![c] = @ + 1]

\* The library reads some of the input and calls cb_read, once.
CbRead(c) ==
  /\ <<c, "read">> \in active /\ ReadResult(c) = "data"
  /\ \E n \in 1 .. input[c] :
       LET have  == inbuf[c] + n
           taken == IF have < BufPieces THEN have ELSE BufPieces
           first == sent[c] - input[c] - inbuf[c] + 1
       IN /\ input' = [input EXCEPT ![c] = @ - n]
          /\ inbuf' = [inbuf EXCEPT ![c] = have - taken]
          /\ \/ serves = "echo" /\ EchoTaken(c, taken)
             \/ /\ serves = "http"
                /\ \E get \in MethodIsGet(c, first) :
                     IF get THEN http_response(c) ELSE outbuf' = outbuf
  /\ active' = active \ {<<c, "read">>}
  /\ UNCHANGED <<queue, client, sent, peer, server, serves, written>>

\* The connection is closed, its buffers and its events are gone.
FreeBufferevent(c) ==
  /\ client' = [client EXCEPT ![c] = "closed"]
  /\ inbuf' = [inbuf EXCEPT ![c] = 0] /\ outbuf' = [outbuf EXCEPT ![c] = 0]
  /\ active' = active \ ({c} \X {"read", "write"})

\* Mutant of CbEvent: the program does not free the bufferevent.
CbEventKeeps(c) ==
  /\ <<c, "read">> \in active /\ ReadResult(c) \in {"end", "error"}
  /\ active' = active \ {<<c, "read">>}
  /\ UNCHANGED <<connection, server, serves, buffers>>

\* cb_event, after the end of the stream or an error: its test is always
\* true, and it frees everything.
CbEvent(c) ==
  /\ <<c, "read">> \in active /\ ReadResult(c) \in {"end", "error"}
  /\ FreeBufferevent(c)
  /\ UNCHANGED <<queue, sent, input, peer, server, serves, written>>

\* The library writes some of the output, and calls cb_write when nothing is
\* left, or cb_event when the write failed; it may also raise SIGPIPE.
CbWrite(c) ==
  /\ <<c, "write">> \in active
  /\ \/ /\ peer[c] \in {"there", "ended"}
        /\ \E n \in 1 .. outbuf[c] :
             /\ outbuf' = [outbuf EXCEPT ![c] = @ - n]
             /\ written' = [written EXCEPT ![c] = @ + n]
        /\ active' = active \ {<<c, "write">>}
        /\ UNCHANGED <<client, inbuf, server>>
     \/ peer[c] = "reset" /\ FreeBufferevent(c) /\ UNCHANGED <<written, server>>
     \/ /\ peer[c] = "reset" /\ server' = "killed"
        /\ UNCHANGED <<client, buffers, active>>
  /\ UNCHANGED <<queue, sent, input, peer, serves>>

\* SIGINT: the http server leaves the loop, frees the listener and ends.
CbSignal ==
  /\ serves = "http"
  /\ server' = "exited"
  /\ UNCHANGED <<connection, library>>
-----------------------------------------------------------------------------
ServerStep ==
  /\ server = "up"
  /\ \/ Dispatch \/ CbListener
     \/ \E c \in Clients : CbRead(c) \/ CbEvent(c) \/ CbWrite(c)

Next == ServerStep \/ Arrival \/ (server = "up" /\ CbSignal)

(* The loop runs.  No signal has to come.                                  *)
Spec == Init /\ [][Next]_vars /\ WF_vars(ServerStep)
-----------------------------------------------------------------------------
TypeOK ==
  /\ SocketTypeOK
  /\ serves \in {"http", "echo"}
  /\ inbuf \in [Clients -> 0 .. Pieces]
  /\ outbuf \in [Clients -> 0 .. Pieces]
  /\ written \in [Clients -> 0 .. Pieces]
  /\ active \subseteq (Clients \cup {LISTEN}) \X {"read", "write"}
=============================================================================
