-------------------------- MODULE Processes_proofs --------------------------
(***************************************************************************)
(* Theorems about the programs of Processes, for any number of children    *)
(* and of udp clients, and any size of the pipe.                           *)
(***************************************************************************)
EXTENDS Processes, FiniteSetTheorems, SequenceTheorems, TLAPS

-----------------------------------------------------------------------------
(* Reaper.  SIGCHLD is blocked or handled at any time, and main unblocks   *)
(* it only when the handler is there: no signal is discarded.  The value   *)
(* of user main has loaded is never below the one it has now, as the       *)
(* handler only decrements it.                                             *)
ReaperInv ==
  /\ Reaper!TypeOK
  /\ IsFiniteSet(Reaper!Children)
  /\ blocked \/ installed
  /\ mpc = "unblock" => installed
  /\ Reaper!NoChildForgotten
  /\ mpc = "store" => user <= reg
  /\ Reaper!NeverUndercounts

LEMMA SameCardinality ==
  \A S : Reaper!Cardinality(S) = Cardinality(S)
BY DEF Reaper!Cardinality, Cardinality

LEMMA ReaperInit == Reaper!Init => ReaperInv
<1> SUFFICES ASSUME Reaper!Init PROVE ReaperInv
  OBVIOUS
<1>1. Reaper!Children = {} /\ Reaper!Zombies = {}
  BY DEF Reaper!Init, Reaper!Children, Reaper!Zombies
<1>2. IsFiniteSet(Reaper!Children) /\ Cardinality(Reaper!Children) = 0
  BY <1>1, FS_EmptySet
<1>3. Reaper!TypeOK
  BY DEF Reaper!Init, Reaper!TypeOK
<1>4. Reaper!NeverUndercounts
  BY <1>2, SameCardinality DEF Reaper!Init, Reaper!NeverUndercounts
<1> QED
  BY <1>1, <1>2, <1>3, <1>4 DEF Reaper!Init, ReaperInv, Reaper!NoChildForgotten

\* A child that ends, is reaped or is made, and what that does to the count.
Count == Cardinality(Reaper!Children)

LEMMA CountIsNat ==
  ASSUME ReaperInv
  PROVE  /\ Count \in Nat
         /\ runs = "server" => user >= Count + (IF mpc = "fork" THEN 1 ELSE 0)
BY SameCardinality, FS_CardinalityType
   DEF Count, ReaperInv, Reaper!NeverUndercounts

LEMMA SameChildren ==
  ASSUME ReaperInv, child' = child
  PROVE  /\ Reaper!Children' = Reaper!Children
         /\ Reaper!Zombies' = Reaper!Zombies
         /\ IsFiniteSet(Reaper!Children)' /\ Count' = Count
BY DEF Reaper!Children, Reaper!Zombies, Count, ReaperInv

LEMMA ReapOneChild ==
  ASSUME ReaperInv, NEW c \in Reaper!Zombies,
         child' = [child EXCEPT ![c] = "reaped"]
  PROVE  /\ IsFiniteSet(Reaper!Children)' /\ Count' = Count - 1
<1>1. /\ c \in Reaper!Children
      /\ Reaper!Children' = Reaper!Children \ {c}
  BY DEF ReaperInv, Reaper!TypeOK, Reaper!Zombies, Reaper!Children
<1> QED
  BY <1>1, FS_RemoveElement DEF ReaperInv, Count

LEMMA ForkOneChild ==
  ASSUME ReaperInv, NEW c \in Clients,
         child' = [child EXCEPT ![c] = "serving"]
  PROVE  /\ IsFiniteSet(Reaper!Children)' /\ Count' \in Nat /\ Count' <= Count + 1
         /\ Reaper!Zombies' \subseteq Reaper!Zombies
<1>1. /\ Reaper!Children' = Reaper!Children \cup {c}
      /\ Reaper!Zombies' \subseteq Reaper!Zombies
  BY DEF ReaperInv, Reaper!TypeOK, Reaper!Children, Reaper!Zombies
<1>2. IsFiniteSet(Reaper!Children)
  BY DEF ReaperInv
<1>3. IsFiniteSet(Reaper!Children \cup {c})
  BY <1>2, FS_AddElement
<1>4. Cardinality(Reaper!Children \cup {c})
        = IF c \in Reaper!Children THEN Count ELSE Count + 1
  BY <1>2, FS_AddElement DEF Count
<1>5. Count \in Nat
  BY <1>2, FS_CardinalityType DEF Count
<1>6. Count' = Cardinality(Reaper!Children \cup {c})
  BY <1>1 DEF Count
<1>7. Count' \in Nat /\ Count' <= Count + 1
  BY <1>4, <1>5, <1>6
<1> QED
  BY <1>1, <1>3, <1>7

LEMMA ExitOneChild ==
  ASSUME ReaperInv, NEW c \in Clients, child[c] = "serving",
         child' = [child EXCEPT ![c] = "zombie"]
  PROVE  /\ IsFiniteSet(Reaper!Children)' /\ Count' = Count
<1>1. Reaper!Children' = Reaper!Children
  BY DEF ReaperInv, Reaper!TypeOK, Reaper!Children
<1> QED
  BY <1>1 DEF ReaperInv, Count

\* The parts of ReaperInv, for the next state.
LEMMA ReaperInvNext ==
  ASSUME Reaper!TypeOK', IsFiniteSet(Reaper!Children)',
         (blocked \/ installed)',
         mpc' = "unblock" => installed',
         Reaper!Zombies' # {} => pending' \/ hpc' = "loop",
         mpc' = "store" => user' <= reg',
         runs' = "server" => user' >= Count' + (IF mpc' = "fork" THEN 1 ELSE 0)
  PROVE  ReaperInv'
<1>1. Reaper!NeverUndercounts'
  BY SameCardinality DEF Reaper!NeverUndercounts, Count
<1> QED
  BY <1>1 DEF ReaperInv, Reaper!NoChildForgotten

\* Steps of clients, main and the handler that leave the children alone.
LEMMA ReaperQuietSteps ==
  ASSUME ReaperInv,
         \/ \E c \in Clients : Reaper!Connect(c) \/ Reaper!Leave(c) \/ Reaper!M_Accept(c)
         \/ Reaper!Deliver \/ Reaper!H_Return \/ Reaper!M_Interrupted \/ Reaper!M_Failed
         \/ Reaper!M_Load \/ Reaper!M_Store \/ Reaper!D_Forked
         \/ Reaper!M_Install \/ Reaper!M_Unblock
         \/ UNCHANGED Reaper!vars
  PROVE  ReaperInv'
<1> USE DEF Reaper!TypeOK, Reaper!NoChildForgotten, Reaper!main, Reaper!signal
<1>0. child' = child =>
        /\ Reaper!Children' = Reaper!Children /\ Reaper!Zombies' = Reaper!Zombies
        /\ IsFiniteSet(Reaper!Children)' /\ Count' = Count
  BY SameChildren
<1>1. ReaperInv /\ Count \in Nat
      /\ (runs = "server" => user >= Count + (IF mpc = "fork" THEN 1 ELSE 0))
  BY CountIsNat
<1>2. ASSUME NEW c \in Clients, Reaper!Connect(c) PROVE ReaperInv'
  BY <1>0, <1>1, <1>2, ReaperInvNext DEF Reaper!Connect, ReaperInv
<1>3. ASSUME NEW c \in Clients, Reaper!Leave(c) PROVE ReaperInv'
  BY <1>0, <1>1, <1>3, ReaperInvNext DEF Reaper!Leave, ReaperInv
<1>4. ASSUME NEW c \in Clients, Reaper!M_Accept(c) PROVE ReaperInv'
  BY <1>0, <1>1, <1>4, ReaperInvNext DEF Reaper!M_Accept, ReaperInv
<1>5. CASE Reaper!Deliver
  BY <1>0, <1>1, <1>5, ReaperInvNext DEF Reaper!Deliver, ReaperInv
<1>6. CASE Reaper!H_Return
  BY <1>0, <1>1, <1>6, ReaperInvNext DEF Reaper!H_Return, ReaperInv
<1>7. CASE Reaper!M_Interrupted
  BY <1>0, <1>1, <1>7, ReaperInvNext DEF Reaper!M_Interrupted, ReaperInv
<1>8. CASE Reaper!M_Failed
  BY <1>0, <1>1, <1>8, ReaperInvNext DEF Reaper!M_Failed, ReaperInv
<1>9. CASE Reaper!M_Load
  BY <1>0, <1>1, <1>9, ReaperInvNext DEF Reaper!M_Load, ReaperInv
<1>10. CASE Reaper!M_Store
  BY <1>0, <1>1, <1>10, ReaperInvNext DEF Reaper!M_Store, ReaperInv
<1>11. CASE Reaper!D_Forked
  BY <1>0, <1>1, <1>11, ReaperInvNext DEF Reaper!D_Forked, ReaperInv
<1>12. CASE Reaper!M_Install
  BY <1>0, <1>1, <1>12, ReaperInvNext DEF Reaper!M_Install, ReaperInv
<1>13. CASE Reaper!M_Unblock
  BY <1>0, <1>1, <1>13, ReaperInvNext DEF Reaper!M_Unblock, ReaperInv
<1>14. CASE UNCHANGED Reaper!vars
  BY <1>0, <1>1, <1>14, ReaperInvNext DEF Reaper!vars, ReaperInv
<1> QED
  BY <1>2, <1>3, <1>4, <1>5, <1>6, <1>7, <1>8, <1>9, <1>10, <1>11, <1>12, <1>13, <1>14

\* Steps that make, end or reap a child.
LEMMA ReaperNext == ReaperInv /\ [Reaper!Next]_(Reaper!vars) => ReaperInv'
<1> SUFFICES ASSUME ReaperInv, [Reaper!Next]_(Reaper!vars) PROVE ReaperInv'
  OBVIOUS
<1> USE DEF Reaper!main, Reaper!signal
<1>1. Count \in Nat
      /\ (runs = "server" => user >= Count + (IF mpc = "fork" THEN 1 ELSE 0))
  BY CountIsNat
<1>2. ASSUME NEW c \in Clients, Reaper!ChildExit(c) PROVE ReaperInv'
  <2>1. IsFiniteSet(Reaper!Children)' /\ Count' = Count
    BY <1>2, ExitOneChild DEF Reaper!ChildExit
  <2>2. Reaper!TypeOK'
    BY <1>2 DEF Reaper!ChildExit, ReaperInv, Reaper!TypeOK
  <2> QED
    BY <1>1, <1>2, <2>1, <2>2, ReaperInvNext
       DEF Reaper!ChildExit, ReaperInv
<1>3. CASE Reaper!H_Reap
  <2>1. PICK c \in Reaper!Zombies : child' = [child EXCEPT ![c] = "reaped"]
    BY <1>3 DEF Reaper!H_Reap
  <2>2. IsFiniteSet(Reaper!Children)' /\ Count' = Count - 1
    BY <2>1, ReapOneChild
  <2>3. runs = "server" => user - 1 >= 0
    <3>1. Count' \in Nat
      BY <2>2, FS_CardinalityType DEF Count
    <3> QED  BY <1>1, <2>2, <3>1 DEF ReaperInv, Reaper!TypeOK
  <2>4. Reaper!TypeOK'
    BY <1>3, <2>1, <2>3 DEF Reaper!H_Reap, ReaperInv, Reaper!TypeOK, Reaper!Zombies
  <2> QED
    BY <1>1, <1>3, <2>2, <2>4, ReaperInvNext DEF Reaper!H_Reap, ReaperInv, Reaper!TypeOK
<1>4. CASE Reaper!M_Fork
  <2>1. CASE child' = child
    BY <1>1, <1>4, <2>1, SameChildren, ReaperInvNext
       DEF Reaper!M_Fork, ReaperInv, Reaper!TypeOK, Reaper!NoChildForgotten
  <2>2. CASE child' # child
    <3>1. PICK c \in Clients : child' = [child EXCEPT ![c] = "serving"]
      BY <1>4, <2>2 DEF Reaper!M_Fork
    <3>2. /\ IsFiniteSet(Reaper!Children)' /\ Count' \in Nat /\ Count' <= Count + 1
          /\ Reaper!Zombies' \subseteq Reaper!Zombies
      BY <3>1, ForkOneChild
    <3>3. Reaper!TypeOK'
      BY <1>4, <3>1 DEF Reaper!M_Fork, ReaperInv, Reaper!TypeOK
    <3>4. /\ mpc = "fork" /\ mpc' = "install"
          /\ UNCHANGED <<runs, user, reg, hpc, pending, blocked, installed>>
      BY <1>4, <2>2 DEF Reaper!M_Fork
    <3>5. runs' = "server" => user' >= Count'
      <4>1. user \in Nat /\ user' = user
        BY <3>4 DEF ReaperInv, Reaper!TypeOK
      <4>2. runs = "server" => user >= Count + 1
        BY <1>1, <3>4
      <4> QED  BY <1>1, <3>2, <3>4, <4>1, <4>2
    <3>6. Reaper!Zombies' # {} => pending' \/ hpc' = "loop"
      BY <3>2, <3>4 DEF ReaperInv, Reaper!NoChildForgotten
    <3> QED
      BY <3>2, <3>3, <3>4, <3>5, <3>6, ReaperInvNext DEF ReaperInv
  <2> QED  BY <2>1, <2>2
<1>5. CASE Reaper!D_Fork
  <2>1. PICK c \in Clients :
          /\ client' = [client EXCEPT ![c] = "left"]
          /\ child' \in {child, [child EXCEPT ![c] = "serving"]}
    BY <1>5 DEF Reaper!D_Fork
  <2>2. Reaper!TypeOK'
    BY <1>5, <2>1 DEF Reaper!D_Fork, ReaperInv, Reaper!TypeOK
  <2>3. IsFiniteSet(Reaper!Children)' /\ Reaper!Zombies' \subseteq Reaper!Zombies
    BY <2>1, SameChildren, ForkOneChild
  <2> QED
    BY <1>5, <2>2, <2>3, ReaperInvNext
       DEF Reaper!D_Fork, ReaperInv, Reaper!NoChildForgotten
<1> QED
  BY <1>2, <1>3, <1>4, <1>5, ReaperQuietSteps
     DEF Reaper!Next, Reaper!Main, Reaper!Handler
-----------------------------------------------------------------------------
(* Pipe.  What was written is in the pipe or was read; a process holds its *)
(* write end until it ends; two fifo programs that have met have both been *)
(* started; 01_pipe waits when it has read its one item.                   *)
PipeInv ==
  /\ Pipe!TypeOK
  /\ IF pair = "event_fifo" THEN written = 0 ELSE got + data = written
  /\ "W" \in wends <=> wpc \in {"opening", "exec", "writing"}
  /\ Pipe!Fifo => "R" \notin wends
  /\ ~Pipe!Fifo => wpc # "start" /\ (rpc = "start" => wpc = "none")
  /\ met => wpc # "start"
  /\ pair = "fifo" /\ rpc = "reading" => met
  /\ rpc = "wait" => pair = "pipe" /\ got = 1
  /\ Pipe!ReaderGotAll

LEMMA PipeInit == Pipe!Init => PipeInv
<1> SUFFICES ASSUME Pipe!Init PROVE PipeInv
  OBVIOUS
<1> USE DEF Pipe!Init
<1>1. Pipe!TypeOK
  <2>1. data \in 0 .. Capacity
    BY ProcessAssumption DEF Pipe!PipeAssumption
  <2>2. written \in 0 .. Pipe!Total /\ got \in 0 .. written
    BY ProcessAssumption DEF Pipe!Total, Pipe!PipeAssumption
  <2>3. wpc \in {"none", "start"} /\ wends = {} /\ rends = {} /\ met \in BOOLEAN
    OBVIOUS
  <2> QED  BY <2>1, <2>2, <2>3 DEF Pipe!TypeOK
<1>2. /\ IF pair = "event_fifo" THEN written = 0 ELSE got + data = written
      /\ "W" \in wends <=> wpc \in {"opening", "exec", "writing"}
  OBVIOUS
<1> QED  BY <1>1, <1>2 DEF PipeInv, Pipe!Fifo, Pipe!ReaderGotAll

LEMMA PipeNext == PipeInv /\ [Pipe!Next]_(Pipe!vars) => PipeInv'
<1> SUFFICES ASSUME PipeInv, [Pipe!Next]_(Pipe!vars) PROVE PipeInv'
  OBVIOUS
<1> USE ProcessAssumption
    DEF PipeInv, Pipe!TypeOK, Pipe!Fifo, Pipe!Total, Pipe!ReaderGotAll, Pipe!pipe,
        Pipe!CloseAll, Pipe!PipeAssumption
<1>1. CASE Pipe!Fork
  BY <1>1 DEF Pipe!Fork
<1>2. CASE Pipe!R_Open
  BY <1>2 DEF Pipe!R_Open
<1>3. CASE Pipe!R_Opened
  BY <1>3 DEF Pipe!R_Opened
<1>4. CASE Pipe!W_Open
  BY <1>4 DEF Pipe!W_Open
<1>5. CASE Pipe!W_Opened
  BY <1>5 DEF Pipe!W_Opened
<1>6. CASE Pipe!W_OpenNow
  <2>1. CASE rends = {}
    BY <1>6, <2>1 DEF Pipe!W_OpenNow
  <2>2. CASE rends # {}
    <3>1. /\ pair = "event_fifo" /\ wpc' = "writing" /\ wends' = {"W"}
          /\ met' = TRUE
          /\ UNCHANGED <<pair, rends, data, rpc, written, got>>
      BY <1>6, <2>2 DEF Pipe!W_OpenNow
    <3>2. Pipe!TypeOK'
      BY <3>1
    <3>3. Pipe!ReaderGotAll'
      BY <3>1, <1>6 DEF Pipe!W_OpenNow
    <3>4. "W" \in wends' <=> wpc' \in {"opening", "exec", "writing"}
      BY <3>1
    <3>5. written = 0
      BY <3>1
    <3> QED
      BY <3>1, <3>2, <3>3, <3>4, <3>5
  <2> QED  BY <2>1, <2>2
<1>7. CASE Pipe!R_Exec
  BY <1>7 DEF Pipe!R_Exec
<1>8. CASE Pipe!W_Exec
  BY <1>8 DEF Pipe!W_Exec
<1>9. CASE Pipe!W_Write
  BY <1>9 DEF Pipe!W_Write, Pipe!MoreToWrite
<1>10. CASE Pipe!W_Killed
  BY <1>10 DEF Pipe!W_Killed, Pipe!MoreToWrite
<1>11. CASE Pipe!W_End
  BY <1>11 DEF Pipe!W_End
<1>12. CASE Pipe!R_Read
  BY <1>12 DEF Pipe!R_Read
<1>13. CASE Pipe!R_AtEnd
  BY <1>13 DEF Pipe!R_AtEnd
<1>14. CASE Pipe!R_Wait
  BY <1>14 DEF Pipe!R_Wait
<1>15. CASE Pipe!StopReader
  BY <1>15 DEF Pipe!StopReader
<1>16. CASE Pipe!StopWriter
  BY <1>16 DEF Pipe!StopWriter
<1>17. CASE UNCHANGED Pipe!vars
  BY <1>17 DEF Pipe!vars
<1> QED
  BY <1>1, <1>2, <1>3, <1>4, <1>5, <1>6, <1>7, <1>8, <1>9, <1>10, <1>11, <1>12,
     <1>13, <1>14, <1>15, <1>16, <1>17
     DEF Pipe!Next, Pipe!Reader, Pipe!Writer, Pipe!User
-----------------------------------------------------------------------------
(* Udp.  A client that has sent one line has at most one datagram under    *)
(* way, the line or the answer to it, in one of four places; it waits as   *)
(* long as there is one.  This is all it takes, as long as no datagram of  *)
(* its own is doubled.                                                     *)
ToServer(c) == \E d \in net : d.peer = c /\ d.dir = "to_server"
ToClient(c) == \E d \in net : d.peer = c /\ d.dir = "to_client"
InInbox(c)  == \E k \in 1 .. Len(inbox) : inbox[k].peer = c
AtServer(c) == spc = "sendto" /\ client_addr = c

Line(c) == [line |-> asked[c], copy |-> 1]

OneDatagram(c) ==
  /\ \A d \in net : d.peer = c => d.text = Line(c)
  /\ \A k \in 1 .. Len(inbox) : inbox[k].peer = c => inbox[k].text = Line(c)
  /\ AtServer(c) => recv_buff = Line(c)
  /\ \A j, k \in 1 .. Len(inbox) : inbox[j].peer = c /\ inbox[k].peer = c => j = k
  /\ ToServer(c) => ~ToClient(c) /\ ~InInbox(c) /\ ~AtServer(c)
  /\ ToClient(c) => ~InInbox(c) /\ ~AtServer(c)
  /\ InInbox(c) => ~AtServer(c)
  /\ ToServer(c) \/ ToClient(c) \/ InInbox(c) \/ AtServer(c) => waits[c]
  /\ waits[c] \/ answer[c] = asked[c]

UdpInv ==
  /\ Udp!TypeOK
  /\ \A c \in Peers \ doubled : OneDatagram(c)

LEMMA UdpInit == Udp!Init => UdpInv
<1> SUFFICES ASSUME Udp!Init PROVE UdpInv
  OBVIOUS
<1> USE DEF Udp!Init
<1>1. Udp!TypeOK
  BY ProcessAssumption, EmptySeq DEF Udp!TypeOK, Udp!Texts, Udp!UdpAssumption
<1>2. \A c \in Peers : OneDatagram(c)
  BY EmptySeq DEF OneDatagram, ToServer, ToClient, InInbox, AtServer
<1> QED  BY <1>1, <1>2 DEF UdpInv

\* The text of a datagram that is doubled.
LEMMA DoubledDatagram ==
  ASSUME NEW d \in Udp!Datagrams
  PROVE  [d EXCEPT !.text.copy = 2] \in Udp!Datagrams
BY DEF Udp!Datagrams, Udp!Texts

\* A datagram is what its direction, client and text say.
LEMMA SameDatagram ==
  ASSUME NEW d \in Udp!Datagrams, NEW e \in Udp!Datagrams,
         d.dir = e.dir, d.peer = e.peer, d.text = e.text
  PROVE  d = e
BY DEF Udp!Datagrams

LEMMA UdpType == UdpInv /\ [Udp!Next]_(Udp!vars) => Udp!TypeOK'
<1> SUFFICES ASSUME UdpInv, [Udp!Next]_(Udp!vars) PROVE Udp!TypeOK'
  OBVIOUS
<1> USE DEF UdpInv, Udp!TypeOK, Udp!udpserver, Udp!udpclient, Udp!faults
<1>0. Questions \in Nat
  BY ProcessAssumption DEF Udp!UdpAssumption
<1>1. CASE Udp!S_Receive
  <2>1. inbox \in Seq(Udp!Datagrams) /\ inbox # <<>>
    BY <1>1 DEF Udp!S_Receive
  <2>2. Head(inbox) \in Udp!Datagrams /\ Tail(inbox) \in Seq(Udp!Datagrams)
    BY <2>1, HeadTailProperties
  <2>3. Head(inbox).peer \in Peers /\ Head(inbox).text \in Udp!Texts
    BY <2>2 DEF Udp!Datagrams
  <2> QED  BY <1>1, <2>2, <2>3 DEF Udp!S_Receive
<1>2. CASE Udp!S_Send
  BY <1>2 DEF Udp!S_Send, Udp!Datagram, Udp!Datagrams
<1>3. ASSUME NEW c \in Peers, Udp!C_Send(c) PROVE Udp!TypeOK'
  <2>1. asked[c] + 1 \in 0 .. Questions
    BY <1>0, <1>3 DEF Udp!C_Send
  <2>2. Udp!Datagram("to_server", c, [line |-> asked[c] + 1, copy |-> 1])
          \in Udp!Datagrams
    BY <2>1 DEF Udp!Datagram, Udp!Datagrams, Udp!Texts
  <2> QED  BY <1>3, <2>1, <2>2 DEF Udp!C_Send
<1>4. ASSUME NEW c \in Peers, Udp!C_Receive(c) PROVE Udp!TypeOK'
  <2>1. PICK d \in net : answer' = [answer EXCEPT ![c] = d.text.line] /\ net' = net \ {d}
    BY <1>4 DEF Udp!C_Receive
  <2>2. d.text.line \in 0 .. Questions
    BY <2>1 DEF Udp!Datagrams, Udp!Texts
  <2> QED  BY <1>4, <2>1, <2>2 DEF Udp!C_Receive
<1>5. ASSUME NEW d \in net, Udp!Arrive(d) PROVE Udp!TypeOK'
  <2>1. Append(inbox, d) \in Seq(Udp!Datagrams)
    BY AppendProperties
  <2> QED  BY <1>5, <2>1 DEF Udp!Arrive
<1>6. ASSUME NEW d \in net, Udp!Lose(d) PROVE Udp!TypeOK'
  <2>1. d.peer \in Peers
    BY DEF Udp!Datagrams
  <2> QED  BY <1>6, <2>1 DEF Udp!Lose
<1>7. ASSUME NEW d \in net, Udp!Double(d) PROVE Udp!TypeOK'
  <2>1. d.peer \in Peers /\ [d EXCEPT !.text.copy = 2] \in Udp!Datagrams
    BY DoubledDatagram DEF Udp!Datagrams
  <2> QED  BY <1>7, <2>1 DEF Udp!Double
<1>8. CASE UNCHANGED Udp!vars
  BY <1>8 DEF Udp!vars
<1> QED
  BY <1>1, <1>2, <1>3, <1>4, <1>5, <1>6, <1>7, <1>8 DEF Udp!Next, Udp!Server

LEMMA UdpOne ==
  ASSUME UdpInv, [Udp!Next]_(Udp!vars), NEW c \in Peers \ doubled, c \notin doubled'
  PROVE  OneDatagram(c)'
<1> USE DEF Udp!udpserver, Udp!udpclient, Udp!faults
<1>0. Udp!TypeOK /\ OneDatagram(c) /\ c \in Peers
  BY DEF UdpInv
<1>1. CASE Udp!S_Receive
  <2>1. inbox \in Seq(Udp!Datagrams) /\ inbox # <<>>
    BY <1>0, <1>1 DEF Udp!S_Receive, Udp!TypeOK
  <2>2. /\ Len(inbox) \in Nat \ {0} /\ Len(inbox') = Len(inbox) - 1
        /\ \A k \in 1 .. Len(inbox') : inbox'[k] = inbox[k + 1]
        /\ Head(inbox) = inbox[1]
    BY <1>1, <2>1, HeadTailProperties, LenProperties, EmptySeq DEF Udp!S_Receive
  <2>3. /\ client_addr' = inbox[1].peer /\ recv_buff' = inbox[1].text
        /\ spc' = "sendto" /\ spc = "recvfrom"
        /\ UNCHANGED <<net, asked, answer, waits>>
    BY <1>1, <2>2 DEF Udp!S_Receive
  <2>4. AtServer(c)' <=> inbox[1].peer = c
    BY <2>3 DEF AtServer
  <2>5. InInbox(c)' => InInbox(c) /\ inbox[1].peer # c
    BY <1>0, <2>2 DEF InInbox, OneDatagram
  <2>6. AtServer(c)' => InInbox(c)
    BY <2>2, <2>4 DEF InInbox
  <2>7. (ToServer(c)' <=> ToServer(c)) /\ (ToClient(c)' <=> ToClient(c))
        /\ Line(c)' = Line(c)
    BY <2>3 DEF ToServer, ToClient, Line
  <2>8. \A k \in 1 .. Len(inbox') : inbox'[k].peer = c => inbox'[k].text = Line(c)
    BY <1>0, <2>2 DEF OneDatagram
  <2>9. \A j, k \in 1 .. Len(inbox') : inbox'[j].peer = c /\ inbox'[k].peer = c => j = k
    BY <1>0, <2>2 DEF OneDatagram
  <2>10. AtServer(c)' => recv_buff' = Line(c)
    BY <1>0, <2>2, <2>3, <2>4 DEF OneDatagram
  <2> QED
    BY <1>0, <2>3, <2>4, <2>5, <2>6, <2>7, <2>8, <2>9, <2>10 DEF OneDatagram
<1>2. CASE Udp!S_Send
  <2>1. /\ spc = "sendto" /\ spc' = "recvfrom"
        /\ net' = net \cup {Udp!Datagram("to_client", client_addr, recv_buff)}
        /\ UNCHANGED <<inbox, asked, answer, waits>>
    BY <1>2 DEF Udp!S_Send
  <2>2. /\ (ToServer(c)' <=> ToServer(c))
        /\ (ToClient(c)' <=> ToClient(c) \/ AtServer(c))
        /\ ~AtServer(c)' /\ (InInbox(c)' <=> InInbox(c)) /\ Line(c)' = Line(c)
    <3>1. PICK e : e = Udp!Datagram("to_client", client_addr, recv_buff)
      OBVIOUS
    <3>2. e.dir = "to_client" /\ e.peer = client_addr
      BY <3>1 DEF Udp!Datagram
    <3>3. net' = net \cup {e}
      BY <2>1, <3>1
    <3>4. ToServer(c)' <=> ToServer(c)
      BY <3>2, <3>3 DEF ToServer
    <3>5. ToClient(c)' <=> ToClient(c) \/ AtServer(c)
      BY <2>1, <3>2, <3>3 DEF ToClient, AtServer
    <3> QED
      BY <2>1, <3>4, <3>5 DEF AtServer, InInbox, Line
  <2>3. \A d \in net' : d.peer = c => d.text = Line(c)
    BY <1>0, <2>1 DEF OneDatagram, AtServer, Udp!Datagram
  <2> QED
    BY <1>0, <2>1, <2>2, <2>3 DEF OneDatagram
<1>3. ASSUME NEW b \in Peers, Udp!C_Send(b) PROVE OneDatagram(c)'
  <2>1. /\ net' = net \cup
             {Udp!Datagram("to_server", b, [line |-> asked[b] + 1, copy |-> 1])}
        /\ UNCHANGED <<inbox, spc, client_addr, recv_buff, answer>>
        /\ ~waits[b] /\ waits' = [waits EXCEPT ![b] = TRUE]
        /\ asked' = [asked EXCEPT ![b] = @ + 1]
    BY <1>3 DEF Udp!C_Send
  <2>2. /\ (AtServer(c)' <=> AtServer(c)) /\ (InInbox(c)' <=> InInbox(c))
        /\ (ToClient(c)' <=> ToClient(c))
        /\ (ToServer(c)' <=> ToServer(c) \/ b = c)
    <3>1. PICK e : e = Udp!Datagram("to_server", b, [line |-> asked[b] + 1, copy |-> 1])
      OBVIOUS
    <3>2. e.dir = "to_server" /\ e.peer = b
      BY <3>1 DEF Udp!Datagram
    <3>3. net' = net \cup {e}
      BY <2>1, <3>1
    <3>4. ToServer(c)' <=> ToServer(c) \/ b = c
      BY <3>2, <3>3 DEF ToServer
    <3>5. ToClient(c)' <=> ToClient(c)
      BY <3>2, <3>3 DEF ToClient
    <3> QED
      BY <2>1, <3>4, <3>5 DEF AtServer, InInbox
  <2>3. /\ waits'[c] <=> waits[c] \/ b = c
        /\ asked'[c] = IF b = c THEN asked[c] + 1 ELSE asked[c]
    BY <1>0, <2>1 DEF Udp!TypeOK
  <2>4. CASE b = c
    <3>1. ~(ToServer(c) \/ ToClient(c) \/ InInbox(c) \/ AtServer(c))
      BY <1>0, <2>1, <2>4 DEF OneDatagram
    <3>2. \A d \in net' : d.peer = c => d.text = Line(c)'
      <4>1. \A d \in net : d.peer # c
        BY <1>0, <3>1 DEF ToServer, ToClient, Udp!TypeOK, Udp!Datagrams
      <4> QED  BY <2>1, <2>3, <2>4, <4>1 DEF Udp!Datagram, Line
    <3>3. \A k \in 1 .. Len(inbox) : inbox[k].peer # c
      BY <3>1 DEF InInbox
    <3> QED
      BY <2>1, <2>2, <2>3, <2>4, <3>1, <3>2, <3>3 DEF OneDatagram
  <2>5. CASE b # c
    <3>1. \A d \in net' : d.peer = c => d \in net
      BY <2>1, <2>5 DEF Udp!Datagram
    <3> QED
      BY <1>0, <2>1, <2>2, <2>3, <2>5, <3>1 DEF OneDatagram, Line
  <2> QED  BY <2>4, <2>5
<1>4. ASSUME NEW b \in Peers, Udp!C_Receive(b) PROVE OneDatagram(c)'
  <2>1. PICK d \in net : /\ d.dir = "to_client" /\ d.peer = b
                         /\ answer' = [answer EXCEPT ![b] = d.text.line]
                         /\ net' = net \ {d}
    BY <1>4 DEF Udp!C_Receive
  <2>2. /\ UNCHANGED <<inbox, spc, client_addr, recv_buff, asked>>
        /\ waits' = [waits EXCEPT ![b] = FALSE]
    BY <1>4 DEF Udp!C_Receive
  <2>3. /\ (AtServer(c)' <=> AtServer(c)) /\ (InInbox(c)' <=> InInbox(c))
        /\ (ToClient(c)' => ToClient(c)) /\ (ToServer(c)' => ToServer(c))
        /\ Line(c)' = Line(c)
    BY <2>1, <2>2 DEF ToServer, ToClient, AtServer, InInbox, Line
  <2>4. CASE b = c
    <3>1. ToClient(c) /\ d.text = Line(c)
      BY <1>0, <2>1, <2>4 DEF ToClient, OneDatagram
    <3>2. ~ToClient(c)'
      <4>1. ASSUME NEW e \in net, e.peer = c, e.dir = "to_client"
            PROVE  e = d
        <5>1. e.text = d.text /\ e.peer = d.peer /\ e.dir = d.dir
          BY <1>0, <2>1, <2>4, <3>1, <4>1 DEF OneDatagram
        <5>2. net \subseteq Udp!Datagrams
          BY <1>0 DEF Udp!TypeOK
        <5> QED  BY <2>1, <5>1, <5>2, SameDatagram
      <4> QED  BY <2>1, <4>1 DEF ToClient
    <3>3. answer'[c] = asked'[c]
      BY <1>0, <2>1, <2>2, <2>4, <3>1 DEF Udp!TypeOK, Line
    <3> QED
      BY <1>0, <2>1, <2>2, <2>3, <3>1, <3>2, <3>3 DEF OneDatagram
  <2>5. CASE b # c
    <3>1. answer'[c] = answer[c] /\ waits'[c] = waits[c]
      BY <1>0, <2>1, <2>2, <2>5 DEF Udp!TypeOK
    <3> QED
      BY <1>0, <2>1, <2>2, <2>3, <3>1 DEF OneDatagram
  <2> QED  BY <2>4, <2>5
<1>5. ASSUME NEW d \in net, Udp!Arrive(d) PROVE OneDatagram(c)'
  <2>1. /\ d.dir = "to_server" /\ inbox' = Append(inbox, d) /\ net' = net \ {d}
        /\ UNCHANGED <<spc, client_addr, recv_buff, asked, answer, waits>>
    BY <1>5 DEF Udp!Arrive
  <2>2. inbox \in Seq(Udp!Datagrams) /\ d \in Udp!Datagrams
    BY <1>0 DEF Udp!TypeOK
  <2>3. /\ Len(inbox) \in Nat /\ Len(inbox') = Len(inbox) + 1
        /\ \A k \in 1 .. Len(inbox) : inbox'[k] = inbox[k]
        /\ inbox'[Len(inbox) + 1] = d
    BY <2>1, <2>2, AppendProperties, LenProperties
  <2>4. /\ (AtServer(c)' <=> AtServer(c)) /\ (ToClient(c)' <=> ToClient(c))
        /\ (InInbox(c)' <=> InInbox(c) \/ d.peer = c)
        /\ (ToServer(c)' => ToServer(c)) /\ Line(c)' = Line(c)
    BY <2>1, <2>3 DEF ToServer, ToClient, AtServer, InInbox, Line
  <2>5. CASE d.peer = c
    <3>1. ToServer(c) /\ d.text = Line(c)
      BY <1>0, <2>1, <2>5 DEF ToServer, OneDatagram
    <3>2. ~ToServer(c)'
      <4>1. \A e \in net : e.peer = c /\ e.dir = "to_server" => e = d
        BY <1>0, <2>1, <2>5, <3>1, SameDatagram DEF OneDatagram, Udp!TypeOK
      <4> QED  BY <2>1, <4>1 DEF ToServer
    <3>3. \A k \in 1 .. Len(inbox) : inbox[k].peer # c
      BY <1>0, <3>1 DEF InInbox, OneDatagram
    <3>4. \A k \in 1 .. Len(inbox') : inbox'[k].peer = c => k = Len(inbox) + 1
      BY <2>3, <3>3
    <3>5. \A k \in 1 .. Len(inbox') : inbox'[k].peer = c => inbox'[k].text = Line(c)
      BY <2>3, <3>1, <3>4
    <3> QED
      BY <1>0, <2>1, <2>4, <3>1, <3>2, <3>4, <3>5 DEF OneDatagram
  <2>6. CASE d.peer # c
    <3>1. \A k \in 1 .. Len(inbox') :
            inbox'[k].peer = c => k \in 1 .. Len(inbox) /\ inbox'[k] = inbox[k]
      BY <2>3, <2>6
    <3> QED
      BY <1>0, <2>1, <2>4, <2>6, <3>1 DEF OneDatagram
  <2> QED  BY <2>5, <2>6
<1>6. ASSUME NEW d \in net, Udp!Lose(d) PROVE OneDatagram(c)'
  <2>1. /\ net' = net \ {d}
        /\ UNCHANGED <<inbox, spc, client_addr, recv_buff, asked, answer, waits>>
    BY <1>6 DEF Udp!Lose
  <2>2. /\ (AtServer(c)' <=> AtServer(c)) /\ (InInbox(c)' <=> InInbox(c))
        /\ (ToClient(c)' => ToClient(c)) /\ (ToServer(c)' => ToServer(c))
        /\ Line(c)' = Line(c)
    BY <2>1 DEF ToServer, ToClient, AtServer, InInbox, Line
  <2> QED  BY <1>0, <2>1, <2>2 DEF OneDatagram
<1>7. ASSUME NEW d \in net, Udp!Double(d) PROVE OneDatagram(c)'
  <2>1. /\ d.peer # c /\ net' = net \cup {[d EXCEPT !.text.copy = 2]}
        /\ UNCHANGED <<inbox, spc, client_addr, recv_buff, asked, answer, waits>>
    BY <1>7 DEF Udp!Double
  <2>2. [d EXCEPT !.text.copy = 2].peer = d.peer
    BY <1>0 DEF Udp!TypeOK, Udp!Datagrams
  <2>3. \A e \in net' : e.peer = c => e \in net
    BY <2>1, <2>2
  <2>4. /\ (AtServer(c)' <=> AtServer(c)) /\ (InInbox(c)' <=> InInbox(c))
        /\ (ToClient(c)' => ToClient(c)) /\ (ToServer(c)' => ToServer(c))
        /\ Line(c)' = Line(c)
    BY <2>1, <2>3 DEF ToServer, ToClient, AtServer, InInbox, Line
  <2> QED  BY <1>0, <2>1, <2>3, <2>4 DEF OneDatagram
<1>8. CASE UNCHANGED Udp!vars
  BY <1>0, <1>8 DEF Udp!vars, OneDatagram, ToServer, ToClient, AtServer, InInbox, Line
<1> QED
  BY <1>1, <1>2, <1>3, <1>4, <1>5, <1>6, <1>7, <1>8 DEF Udp!Next, Udp!Server

LEMMA UdpNext == UdpInv /\ [Udp!Next]_(Udp!vars) => UdpInv'
<1> SUFFICES ASSUME UdpInv, [Udp!Next]_(Udp!vars) PROVE UdpInv'
  OBVIOUS
<1>1. doubled \subseteq doubled'
  BY DEF Udp!Next, Udp!Server, Udp!S_Receive, Udp!S_Send, Udp!C_Send, Udp!C_Receive,
     Udp!Arrive, Udp!Lose, Udp!Double, Udp!vars, Udp!faults
<1> QED
  BY <1>1, UdpType, UdpOne DEF UdpInv
-----------------------------------------------------------------------------
(* Each program keeps its invariant, whether it runs or not.               *)
Inv == program \in {"reaper", "pipe", "udp"} /\ ReaperInv /\ PipeInv /\ UdpInv

LEMMA InitInv == Init => Inv
BY ReaperInit, PipeInit, UdpInit DEF Init, Inv, NoReaper, NoPipe, NoUdp

\* The variables of a program that does not run are its own.
LEMMA Programs ==
  ASSUME [Next]_vars
  PROVE  /\ [Reaper!Next]_(Reaper!vars) /\ [Pipe!Next]_(Pipe!vars)
         /\ [Udp!Next]_(Udp!vars) /\ program' = program
<1> USE DEF vars, reaper, piped, udp, Reaper!vars, Reaper!main, Reaper!signal,
        Pipe!vars, Pipe!pipe, Udp!vars, Udp!udpserver, Udp!udpclient, Udp!faults,
        Reapers, Pipers, Udps
<1>1. CASE Reapers /\ Reaper!Next
  BY <1>1
<1>2. CASE Pipers /\ Pipe!Next
  BY <1>2
<1>3. CASE Udps /\ Udp!Next
  BY <1>3
<1>4. CASE UNCHANGED vars
  BY <1>4
<1> QED  BY <1>1, <1>2, <1>3, <1>4 DEF Next

LEMMA NextInv == Inv /\ [Next]_vars => Inv'
BY Programs, ReaperNext, PipeNext, UdpNext DEF Inv

LEMMA InvAlways == Spec => []Inv
BY InitInv, NextInv, PTL DEF Spec
-----------------------------------------------------------------------------
(* The variables of the processes, the pipe and the network keep their     *)
(* types; the count of clients of server_fork.c never goes below 0.        *)
THEOREM TypeCorrect == Spec => []TypeOK
<1>1. Inv => TypeOK
  BY DEF Inv, TypeOK, ReaperInv, PipeInv, UdpInv
<1> QED  BY InvAlways, <1>1, PTL

(* No child that ended is forgotten, by server_fork.c:17-25, 144-150 or    *)
(* recycle_process_signal.c:9-20, 23-50, for any number of children.       *)
THEOREM ChildrenNotForgotten == Spec => []NoChildForgotten
<1>1. Inv => NoChildForgotten
  BY DEF Inv, NoChildForgotten, ReaperInv
<1> QED  BY InvAlways, <1>1, PTL

(* server_fork.c:20-23, 97: the handler's decrements may come between the  *)
(* load and the store of main's increment, and the count is never too low. *)
THEOREM CountNotTooLow == Spec => []NeverUndercounts
<1>1. Inv => NeverUndercounts
  BY DEF Inv, NeverUndercounts, ReaperInv
<1> QED  BY InvAlways, <1>1, PTL

(* A reader that came to its end has all that was written (01_pipe.c:22-29,*)
(* grep_pipe.c:22-25, r_fifo.c:22-32), for any capacity of the pipe.       *)
THEOREM ReaderMissesNothing == Spec => []ReaderGotAll
<1>1. Inv => ReaderGotAll
  BY DEF Inv, ReaderGotAll, PipeInv
<1> QED  BY InvAlways, <1>1, PTL

(* A udp client prints the answer to its last line (udp_server.c:42-53,    *)
(* udp_client.c:32-39), whatever the network loses or delays.              *)
THEOREM ClientsGetTheirAnswers == Spec => []AnswersMatch
<1>1. Inv => AnswersMatch
  BY DEF Inv, AnswersMatch, Udp!AnswersMatch, UdpInv, OneDatagram
<1> QED  BY InvAlways, <1>1, PTL
=============================================================================
