------------------------------ MODULE Sockets ------------------------------
(***************************************************************************)
(* What an event-driven server of src/ sees of the kernel: connections     *)
(* wait in the listen queue until they are accepted; an open one has input *)
(* that was not read yet, counted in pieces of what one read returns, and  *)
(* a peer that is there, has ended its stream, or has reset it.            *)
(***************************************************************************)
EXTENDS Naturals, Sequences

CONSTANTS Clients,     \* the connections, numbered in the order they are made
          Pieces,      \* how many pieces a client may send
          LISTEN       \* the listening fd

\* What is assumed of the constants.
SocketAssumption ==
  Clients \subseteq Nat /\ Pieces \in Nat /\ LISTEN \notin Clients

VARIABLES
  queue,               \* the listen queue
  client,              \* per connection: the server's end of it
  sent, input,         \* per connection: pieces sent, pieces not read yet
  peer,                \* per connection: its client
  server               \* the server process

connection == <<queue, client, sent, input, peer>>

SocketInit ==
  /\ queue = <<>>
  /\ client = [c \in Clients |-> "none"]
  /\ sent = [c \in Clients |-> 0] /\ input = [c \in Clients |-> 0]
  /\ peer = [c \in Clients |-> "there"]
  /\ server = "up"

\* A read of fd, or an accept, would return at once.
Readable(fd) ==
  IF fd = LISTEN THEN queue # <<>> ELSE input[fd] > 0 \/ peer[fd] # "there"
-----------------------------------------------------------------------------
(* What clients do.  Each makes one fd readable.                           *)
Connect(c) ==
  /\ client[c] = "none" /\ \A d \in Clients : d < c => client[d] # "none"
  /\ client' = [client EXCEPT ![c] = "queued"] /\ queue' = Append(queue, c)
  /\ UNCHANGED <<sent, input, peer>>

Send(c) ==
  /\ client[c] \in {"queued", "open"} /\ peer[c] = "there" /\ sent[c] < Pieces
  /\ sent' = [sent EXCEPT ![c] = @ + 1] /\ input' = [input EXCEPT ![c] = @ + 1]
  /\ UNCHANGED <<queue, client, peer>>

\* The peer closes its end, or a reset arrives: it aborted the connection,
\* or answers data sent to an end it had closed.
Leave(c) ==
  /\ client[c] \in {"queued", "open"}
  /\ \/ peer[c] = "there" /\ peer' = [peer EXCEPT ![c] = "ended"]
     \/ peer[c] \in {"there", "ended"} /\ peer' = [peer EXCEPT ![c] = "reset"]
  /\ UNCHANGED <<queue, client, sent, input>>
-----------------------------------------------------------------------------
(* What the calls of a server do.                                          *)

\* accept: the first of the queue.
TakeConnection ==
  /\ client' = [client EXCEPT ![Head(queue)] = "open"]
  /\ queue' = Tail(queue)

\* What a read of c returns.  "none": nothing yet.
ReadResult(c) ==
  CASE client[c] = "closed" -> "bad_fd"
    [] client[c] # "closed" /\ input[c] > 0 -> "data"
    [] client[c] # "closed" /\ input[c] = 0 /\ peer[c] = "reset" -> "error"
    [] /\ client[c] # "closed" /\ input[c] = 0
       /\ peer[c] \in {"ended", "gone"} -> "end"
    [] OTHER -> "none"

\* A call has reported the reset: the next read finds the end of the stream.
ResetReported(c) == peer' = [peer EXCEPT ![c] = "gone"]

\* A write to c.  The peer's reset makes it fail, or raise SIGPIPE, which no
\* server handles.
Write(c) ==
  \/ peer[c] \in {"there", "ended"} /\ UNCHANGED <<peer, server>>
  \/ peer[c] = "reset" /\ ResetReported(c) /\ server' = server
  \/ peer[c] \in {"reset", "gone"} /\ server' = "killed" /\ peer' = peer

\* One piece is read and echoed.
Echo(c) ==
  /\ input' = [input EXCEPT ![c] = @ - 1]
  /\ Write(c)
  /\ UNCHANGED <<queue, client, sent>>

Close(c) ==
  /\ client' = [client EXCEPT ![c] = "closed"]
  /\ UNCHANGED <<queue, sent, input, peer, server>>

SocketTypeOK ==
  /\ queue \in Seq(Clients)
  /\ client \in [Clients -> {"none", "queued", "open", "closed"}]
  /\ sent \in [Clients -> 0 .. Pieces] /\ input \in [Clients -> 0 .. Pieces]
  /\ peer \in [Clients -> {"there", "ended", "reset", "gone"}]
  /\ server \in {"up", "exited", "killed", "undefined"}
=============================================================================
