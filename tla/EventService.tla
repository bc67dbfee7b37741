---------------------------- MODULE EventService ----------------------------
(***************************************************************************)
(* What an event-driven server promises: connections are accepted in the   *)
(* order they were made, what a client sent is answered once at most, and  *)
(* only where there is something to answer.  A connection is closed when   *)
(* its client has left, or together with its one answer.  A server that    *)
(* may break down does nothing from then on.                               *)
(***************************************************************************)
EXTENDS Naturals, Sequences

CONSTANT Clients

VARIABLES
  queue,               \* connections not accepted yet
  client,              \* per connection: the server's end of it
  sent, answered,      \* per connection: pieces sent, pieces answered
  left,                \* per connection: has its client left?
  up,                  \* does the server run?
  manner,              \* how a connection ends: after all is answered, with
                       \*   what is under way dropped, or with its one answer
  asking               \* the connections on which there may be an answer

vars == <<queue, client, sent, answered, left, up, manner, asking>>

Init ==
  /\ queue = <<>> /\ client = [c \in Clients |-> "none"]
  /\ sent = [c \in Clients |-> 0] /\ answered = [c \in Clients |-> 0]
  /\ left = [c \in Clients |-> FALSE]
  /\ up = TRUE
  /\ manner \in {"complete", "lossy", "once"} /\ asking \in SUBSET Clients
-----------------------------------------------------------------------------
Connect(c) ==
  /\ client[c] = "none"
  /\ client' = [client EXCEPT ![c] = "queued"] /\ queue' = Append(queue, c)
  /\ UNCHANGED <<sent, answered, left>>

Send(c) ==
  /\ client[c] \in {"queued", "open"} /\ ~left[c]
  /\ sent' = [sent EXCEPT ![c] = @ + 1]
  /\ UNCHANGED <<queue, client, answered, left>>

Leave(c) ==
  /\ client[c] \in {"queued", "open"}
  /\ left' = [left EXCEPT ![c] = TRUE]
  /\ UNCHANGED <<queue, client, sent, answered>>

ClientStep ==
  /\ \E c \in Clients : Connect(c) \/ Send(c) \/ Leave(c)
  /\ UNCHANGED <<up, manner, asking>>
-----------------------------------------------------------------------------
Accept ==
  /\ queue # <<>>
  /\ client' = [client EXCEPT ![Head(queue)] = "open"] /\ queue' = Tail(queue)
  /\ UNCHANGED <<sent, answered, left>>

\* Some more of what was sent is answered.
Answer(c) ==
  /\ client[c] = "open" /\ c \in asking /\ manner # "once"
  /\ \E n \in answered[c] + 1 .. sent[c] : answered' = [answered EXCEPT ![c] = n]
  /\ UNCHANGED <<queue, client, sent, left>>

\* The one answer on a connection, which ends it.
AnswerAndClose(c) ==
  /\ client[c] = "open" /\ c \in asking /\ manner = "once"
  /\ sent[c] > 0 /\ answered[c] = 0
  /\ answered' = [answered EXCEPT ![c] = 1]
  /\ client' = [client EXCEPT ![c] = "closed"]
  /\ UNCHANGED <<queue, sent, left>>

\* The client has left.
Close(c) ==
  /\ client[c] = "open" /\ left[c] /\ manner # "once"
  /\ manner = "complete" => answered[c] = sent[c]
  /\ client' = [client EXCEPT ![c] = "closed"]
  /\ UNCHANGED <<queue, sent, answered, left>>

BreakDown == UNCHANGED <<queue, client, sent, answered, left>> /\ ~up'

\* A server may break down in the middle of each of its steps.
ServerStep ==
  /\ up /\ up' \in BOOLEAN
  /\ \/ Accept \/ BreakDown
     \/ \E c \in Clients : Answer(c) \/ AnswerAndClose(c) \/ Close(c)
  /\ UNCHANGED <<manner, asking>>

Next == ClientStep \/ ServerStep

Spec == Init /\ [][Next]_vars
=============================================================================
