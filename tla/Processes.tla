----------------------------- MODULE Processes -----------------------------
(***************************************************************************)
(* The programs of src/ that are made of processes, side by side: the ones *)
(* that reap children, the ones with a pipe between two processes, and udp *)
(* clients with their server.  One of them is started and runs alone.      *)
(***************************************************************************)
EXTENDS Integers, Sequences, FiniteSets

CONSTANTS Clients,                    \* ForkServer
          Capacity, Items,            \* Pipes
          Peers, Questions            \* UdpEcho

VARIABLES program,
          runs, client, child, user, mpc, reg, errno, hpc,
          pending, blocked, installed,                          \* ForkServer
          pair, wends, rends, data, met, wpc, rpc, written, got,    \* Pipes
          net, inbox, client_addr, recv_buff, spc, asked, answer, waits,
          lost, doubled                                         \* UdpEcho

Reaper == INSTANCE ForkServer
Pipe   == INSTANCE Pipes
Udp    == INSTANCE UdpEcho

ASSUME ProcessAssumption ==
  Pipe!PipeAssumption /\ Udp!UdpAssumption

reaper == <<runs, client, child, user, mpc, reg, errno, hpc,
            pending, blocked, installed>>
piped  == <<pair, wends, rends, data, met, wpc, rpc, written, got>>
udp    == <<net, inbox, client_addr, recv_buff, spc, asked, answer, waits,
            lost, doubled>>
vars   == <<program, reaper, piped, udp>>

\* The variables of a program that does not run keep one value.
NoReaper == Reaper!Init /\ runs = "server"
NoPipe   == Pipe!Init /\ pair = "pipe"
NoUdp    == Udp!Init /\ client_addr = CHOOSE c \in Peers : TRUE

Init ==
  \/ program = "reaper" /\ Reaper!Init /\ NoPipe /\ NoUdp
  \/ program = "pipe" /\ Pipe!Init /\ NoReaper /\ NoUdp
  \/ program = "udp" /\ Udp!Init /\ NoReaper /\ NoPipe

\* A step of a program leaves the others alone.
Reapers == program = "reaper" /\ UNCHANGED <<program, piped, udp>>
Pipers  == program = "pipe" /\ UNCHANGED <<program, reaper, udp>>
Udps    == program = "udp" /\ UNCHANGED <<program, reaper, piped>>

Next ==
  \/ Reapers /\ Reaper!Next
  \/ Pipers /\ Pipe!Next
  \/ Udps /\ Udp!Next

(* The fairness of each program, for as long as it is the one that runs.   *)
Fairness ==
  /\ SF_vars(Reapers /\ Reaper!Main)
  /\ WF_vars(Reapers /\ Reaper!Deliver)
  /\ WF_vars(Reapers /\ Reaper!Handler)
  /\ WF_vars(Pipers /\ Pipe!Reader)
  /\ WF_vars(Pipers /\ Pipe!Writer)
  /\ WF_vars(Udps /\ Udp!Server)
  /\ \A c \in Peers : WF_vars(Udps /\ Udp!C_Receive(c))
  /\ \A c \in Peers : WF_vars(Udps /\ Udp!ArriveFrom(c))

Spec == Init /\ [][Next]_vars /\ Fairness
-----------------------------------------------------------------------------
TypeOK ==
  /\ program \in {"reaper", "pipe", "udp"}
  /\ Reaper!TypeOK /\ Pipe!TypeOK /\ Udp!TypeOK

(* No child that ended is forgotten, by the server or the demonstration,   *)
(* although signals merge (server_fork.c:17-25, 144-150, recycle_process_  *)
(* signal.c:9-20, 23-50) ...                                               *)
NoChildForgotten == Reaper!NoChildForgotten

(* ... every one is reaped in the end ...                                  *)
ZombiesReaped == Reaper!ZombiesReaped

(* ... and the server's count of clients is never too low (server_fork.c:  *)
(* 20-23, 97).                                                             *)
NeverUndercounts == Reaper!NeverUndercounts

(* A reader that came to the end of a pipe has all that was written, and   *)
(* no writer is left (01_pipe.c:22-29, grep_pipe.c:22-25, r_fifo.c:22-32). *)
ReaderGotAll == Pipe!ReaderGotAll

(* The programs with a pipe end, whichever of the two processes is stopped *)
(* or could not be started (01_pipe.c:14-30, grep_pipe.c:14-26, r_fifo.c:  *)
(* 22-33, w_fifo.c:23-28, write_fifo.c:17).                                *)
PipeProgramsEnd == Pipe!PipeProgramsEnd

(* A udp client prints the answer to the line it sent last (udp_server.c:  *)
(* 42-53, udp_client.c:32-39), unless the network doubled a datagram ...   *)
AnswersMatch == Udp!AnswersMatch

(* ... and gets one, unless a datagram of its own was lost.                *)
AnsweredUnlessLost == Udp!AnsweredUnlessLost
=============================================================================
