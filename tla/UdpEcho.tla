------------------------------ MODULE UdpEcho ------------------------------
(***************************************************************************)
(* src/udp_code: clients send a datagram each and wait for the answer; one *)
(* server answers them in turn, to the address the last datagram had.  The *)
(* network loses datagrams, doubles them and delivers them in any order.   *)
(***************************************************************************)
EXTENDS Naturals, Sequences

CONSTANTS Peers,       \* the clients
          Questions    \* how many lines each user types

UdpAssumption == Questions \in Nat

VARIABLES
  net,                 \* datagrams under way
  inbox,               \* the server's socket buffer
  client_addr, recv_buff, spc,     \* the server
  asked, answer, waits,            \* per client: its last line, the answer
                                   \* it printed last, is it in recvfrom?
  lost, doubled        \* history: clients one of whose datagrams was lost,
                       \* or came twice

udpserver == <<client_addr, recv_buff, spc>>
udpclient == <<asked, answer, waits>>
faults    == <<lost, doubled>>
vars == <<net, inbox, udpserver, udpclient, faults>>

Init ==
  /\ net = {} /\ inbox = <<>>
  /\ client_addr \in Peers
  /\ recv_buff = [line |-> 0, copy |-> 1]
  /\ spc = "recvfrom"
  /\ asked = [c \in Peers |-> 0] /\ answer = [c \in Peers |-> 0]
  /\ waits = [c \in Peers |-> FALSE]
  /\ lost = {} /\ doubled = {}

Texts == [line : 0 .. Questions, copy : {1, 2}]
Datagrams == [dir : {"to_server", "to_client"}, peer : Peers, text : Texts]
Datagram(dir, c, text) == [dir |-> dir, peer |-> c, text |-> text]
-----------------------------------------------------------------------------
C_Send(c) ==
  /\ ~waits[c] /\ asked[c] < Questions
  /\ asked' = [asked EXCEPT ![c] = @ + 1]
  /\ net' = net \cup
       {Datagram("to_server", c, [line |-> asked[c] + 1, copy |-> 1])}
  /\ waits' = [waits EXCEPT ![c] = TRUE]
  /\ UNCHANGED <<inbox, udpserver, answer, faults>>

\* recvfrom takes any datagram, and there is no timeout.
C_Receive(c) ==
  /\ waits[c]
  /\ \E d \in net : /\ d.dir = "to_client" /\ d.peer = c
                    /\ answer' = [answer EXCEPT ![c] = d.text.line]
                    /\ net' = net \ {d}
  /\ waits' = [waits EXCEPT ![c] = FALSE]
  /\ UNCHANGED <<inbox, udpserver, asked, faults>>
-----------------------------------------------------------------------------
Arrive(d) ==
  /\ d \in net /\ d.dir = "to_server"
  /\ inbox' = Append(inbox, d) /\ net' = net \ {d}
  /\ UNCHANGED <<udpserver, udpclient, faults>>

ArriveFrom(c) == \E d \in net : d.peer = c /\ Arrive(d)

\* On the way, or because the socket buffer is full.
Lose(d) ==
  /\ d \in net
  /\ net' = net \ {d} /\ lost' = lost \cup {d.peer}
  /\ UNCHANGED <<inbox, udpserver, udpclient, doubled>>

\* Bound: this happens once.
Double(d) ==
  /\ d \in net /\ doubled = {}
  /\ net' = net \cup {[d EXCEPT !.text.copy = 2]}
  /\ doubled' = doubled \cup {d.peer}
  /\ UNCHANGED <<inbox, udpserver, udpclient, lost>>
-----------------------------------------------------------------------------
\* Mutant of S_Receive: the address stays that of the first client.
S_ReceiveNoAddress ==
  /\ spc = "recvfrom" /\ inbox # <<>>
  /\ recv_buff' = Head(inbox).text
  /\ inbox' = Tail(inbox) /\ spc' = "sendto"
  /\ UNCHANGED <<net, client_addr, udpclient, faults>>

S_Receive ==
  /\ spc = "recvfrom" /\ inbox # <<>>
  /\ client_addr' = Head(inbox).peer /\ recv_buff' = Head(inbox).text
  /\ inbox' = Tail(inbox) /\ spc' = "sendto"
  /\ UNCHANGED <<net, udpclient, faults>>

S_Send ==
  /\ spc = "sendto"
  /\ net' = net \cup {Datagram("to_client", client_addr, recv_buff)}
  /\ spc' = "recvfrom"
  /\ UNCHANGED <<inbox, client_addr, recv_buff, udpclient, faults>>

Server == S_Receive \/ S_Send

Next ==
  \/ Server
  \/ \E c \in Peers : C_Send(c) \/ C_Receive(c)
  \/ \E d \in net : Arrive(d) \/ Lose(d) \/ Double(d)

(* Server and clients run, a datagram arrives if it is not lost; the user  *)
(* need not type.                                                          *)
Spec == /\ Init /\ [][Next]_vars /\ WF_vars(Server)
        /\ \A c \in Peers : WF_vars(C_Receive(c))
        /\ \A c \in Peers : WF_vars(ArriveFrom(c))
-----------------------------------------------------------------------------
TypeOK ==
  /\ net \subseteq Datagrams /\ inbox \in Seq(Datagrams)
  /\ client_addr \in Peers /\ recv_buff \in Texts
  /\ spc \in {"recvfrom", "sendto"}
  /\ asked \in [Peers -> 0 .. Questions]
  /\ answer \in [Peers -> 0 .. Questions]
  /\ waits \in [Peers -> BOOLEAN] /\ {lost, doubled} \subseteq SUBSET Peers

(* A client gets its own answer: the one it prints is to the line it sent  *)
(* last, whoever else the server talks to in between and whatever is lost, *)
(* unless a datagram of its own came twice: from then on it may be one     *)
(* answer behind (udp_server.c:42-53, udp_client.c:32-39).                 *)
AnswersMatch ==
  \A c \in Peers : ~waits[c] /\ c \notin doubled => answer[c] = asked[c]

(* A client waits for ever only when a datagram of its own was lost        *)
(* (udp_server.c:39-57, udp_client.c:35-38).                               *)
AnsweredUnlessLost ==
  \A c \in Peers : waits[c] ~> (~waits[c] \/ c \in lost)
=============================================================================
