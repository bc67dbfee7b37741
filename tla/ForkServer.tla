----------------------------- MODULE ForkServer -----------------------------
(***************************************************************************)
(* src/tcp_code/server_fork.c: main accepts a connection and forks a child *)
(* that serves it; a handler of SIGCHLD, which interrupts main anywhere,   *)
(* reaps the children that ended.  SIGCHLD is blocked until the handler is *)
(* installed, after the first fork.  src/signal_code/recycle_process_      *)
(* signal.c has the same protocol: it forks all its children first, and    *)
(* they end by themselves.                                                 *)
(***************************************************************************)
EXTENDS Integers, FiniteSets

CONSTANT Clients      \* the connections, each made once

VARIABLES
  runs,               \* the program: "server" or "demo"
  client,             \* per connection: what its client did
  child,              \* per connection: its child process
  user,               \* main's count of the clients online
  mpc, reg, errno,    \* main; the value of user it loaded; C's errno
  hpc,                \* the handler of SIGCHLD
  pending, blocked, installed   \* SIGCHLD: the signal and its disposition

main   == <<mpc, reg>>
signal == <<pending, blocked, installed>>
vars   == <<runs, client, child, user, main, errno, hpc, signal>>

Init ==
  /\ client = [c \in Clients |-> "idle"]
  /\ child = [c \in Clients |-> "none"]
  /\ user = 0
  /\ runs \in {"server", "demo"}
  /\ mpc = (IF runs = "server" THEN "accept" ELSE "fork")
  /\ reg = 0 /\ errno = "none"
  /\ hpc = "out"
  /\ pending = FALSE /\ blocked = TRUE /\ installed = FALSE

Children == {c \in Clients : child[c] \in {"serving", "zombie"}}
Zombies  == {c \in Clients : child[c] = "zombie"}
-----------------------------------------------------------------------------
Connect(c) ==
  /\ runs = "server"
  /\ client[c] = "idle" /\ client' = [client EXCEPT ![c] = "queued"]
  /\ UNCHANGED <<runs, child, user, main, errno, hpc, signal>>

Leave(c) ==
  /\ client[c] = "open" /\ client' = [client EXCEPT ![c] = "left"]
  /\ UNCHANGED <<runs, child, user, main, errno, hpc, signal>>

\* A child whose client is gone exits.  Any number of SIGCHLD make one; one
\* that is neither blocked nor handled is discarded.
ChildExit(c) ==
  /\ child[c] = "serving" /\ client[c] = "left"
  /\ child' = [child EXCEPT ![c] = "zombie"]
  /\ pending' = (pending \/ blocked \/ installed)
  /\ UNCHANGED <<runs, client, user, main, errno, hpc, blocked, installed>>
-----------------------------------------------------------------------------
(* recycle_child runs on top of main, which stands still meanwhile.  A     *)
(* signal that comes while main sits in accept makes accept fail, one that *)
(* comes just before the call does not.                                    *)
Deliver ==
  /\ pending /\ ~blocked /\ installed /\ hpc = "out" /\ mpc # "exited"
  /\ pending' = FALSE
  /\ hpc' = "loop"
  /\ mpc' \in (IF mpc = "accept" THEN {"accept", "interrupted"} ELSE {mpc})
  /\ UNCHANGED <<runs, client, child, user, reg, errno, blocked, installed>>

\* Mutant of H_Reap: the handler reaps one child and returns.
H_ReapOne ==
  /\ hpc = "loop"
  /\ \E c \in Zombies : child' = [child EXCEPT ![c] = "reaped"]
  /\ user' = IF runs = "server" THEN user - 1 ELSE user
  /\ hpc' = "out"
  /\ UNCHANGED <<runs, client, main, errno, signal>>

\* waitpid returns a child.
H_Reap ==
  /\ hpc = "loop"
  /\ \E c \in Zombies : child' = [child EXCEPT ![c] = "reaped"]
  /\ user' = IF runs = "server" THEN user - 1 ELSE user
  /\ UNCHANGED <<runs, client, main, errno, hpc, signal>>

\* waitpid returns 0, or -1 when no child is left, and the handler returns.
H_Return ==
  /\ hpc = "loop" /\ Zombies = {}
  /\ hpc' = "out"
  /\ errno' = IF Children = {} THEN "ECHILD" ELSE errno
  /\ UNCHANGED <<runs, client, child, user, main, signal>>
-----------------------------------------------------------------------------
(* main                                                                    *)
M_Accept(c) ==
  /\ mpc = "accept" /\ hpc = "out"
  /\ client[c] = "queued" /\ client' = [client EXCEPT ![c] = "open"]
  /\ mpc' = "load"
  /\ UNCHANGED <<runs, child, user, reg, errno, hpc, signal>>

\* The interrupted call returns, and sets errno after the handler did.
M_Interrupted ==
  /\ mpc = "interrupted" /\ hpc = "out"
  /\ errno' = "EINTR"
  /\ mpc' = "failed"
  /\ UNCHANGED <<runs, client, child, user, reg, hpc, signal>>

\* Only EINTR is a reason to call accept again.
M_Failed ==
  /\ mpc = "failed" /\ hpc = "out"
  /\ mpc' = IF errno = "EINTR" THEN "accept" ELSE "exited"
  /\ UNCHANGED <<runs, client, child, user, reg, errno, hpc, signal>>

\* ++user, in a load and a store.
M_Load ==
  /\ mpc = "load" /\ hpc = "out"
  /\ reg' = user /\ mpc' = "store"
  /\ UNCHANGED <<runs, client, child, user, errno, hpc, signal>>

\* Mutant of M_Store: the new client is not counted.
M_StoreForgotten ==
  /\ mpc = "store" /\ hpc = "out"
  /\ reg' = 0 /\ mpc' = "fork"
  /\ UNCHANGED <<runs, client, child, user, errno, hpc, signal>>

M_Store ==
  /\ mpc = "store" /\ hpc = "out"
  /\ user' = reg + 1 /\ reg' = 0 /\ mpc' = "fork"
  /\ UNCHANGED <<runs, client, child, errno, hpc, signal>>

\* The child is there before the parent goes on; fork may also fail.
M_Fork ==
  /\ runs = "server" /\ mpc = "fork" /\ hpc = "out"
  /\ \/ /\ \E c \in Clients :
             /\ client[c] \in {"open", "left"} /\ child[c] = "none"
             /\ child' = [child EXCEPT ![c] = "serving"]
        /\ mpc' = "install"
     \/ mpc' = "exited" /\ child' = child
  /\ UNCHANGED <<runs, client, user, reg, errno, hpc, signal>>

\* The demo tries to fork each child once, and its children exit at once.
D_Fork ==
  /\ runs = "demo" /\ mpc = "fork" /\ hpc = "out"
  /\ \E c \in Clients :
       /\ client[c] = "idle" /\ client' = [client EXCEPT ![c] = "left"]
       /\ child' \in {child, [child EXCEPT ![c] = "serving"]}
  /\ UNCHANGED <<runs, user, main, errno, hpc, signal>>

D_Forked ==
  /\ runs = "demo" /\ mpc = "fork" /\ hpc = "out"
  /\ \A c \in Clients : client[c] # "idle"
  /\ mpc' = "install"
  /\ UNCHANGED <<runs, client, child, user, reg, errno, hpc, signal>>

\* The handler replaces the default disposition.
M_Install ==
  /\ mpc = "install" /\ hpc = "out"
  /\ installed' = TRUE
  /\ mpc' = "unblock"
  /\ UNCHANGED <<runs, client, child, user, reg, errno, hpc, pending, blocked>>

\* SIGCHLD is unblocked, and the parent closes its copy of the connection;
\* the demo sleeps from here on.
M_Unblock ==
  /\ mpc = "unblock" /\ hpc = "out"
  /\ blocked' = FALSE
  /\ mpc' = IF runs = "server" THEN "accept" ELSE "sleep"
  /\ UNCHANGED <<runs, client, child, user, reg, errno, hpc, pending,
                 installed>>
-----------------------------------------------------------------------------
Handler == H_Reap \/ H_Return
Main    == \/ \E c \in Clients : M_Accept(c)
           \/ M_Interrupted \/ M_Failed \/ M_Load \/ M_Store \/ M_Fork
           \/ D_Fork \/ D_Forked \/ M_Install \/ M_Unblock

Next == \/ Main \/ Deliver \/ Handler
        \/ \E c \in Clients : Connect(c) \/ Leave(c) \/ ChildExit(c)

(* The processes run, and a pending signal that is not blocked comes.      *)
Spec == /\ Init /\ [][Next]_vars
        /\ SF_vars(Main) /\ WF_vars(Deliver) /\ WF_vars(Handler)
-----------------------------------------------------------------------------
TypeOK ==
  /\ runs \in {"server", "demo"}
  /\ client \in [Clients -> {"idle", "queued", "open", "left"}]
  /\ child \in [Clients -> {"none", "serving", "zombie", "reaped"}]
  /\ user \in Nat /\ reg \in Nat
  /\ mpc \in {"accept", "interrupted", "failed", "load", "store", "fork",
              "install", "unblock", "exited", "sleep"}
  /\ errno \in {"none", "EINTR", "ECHILD"}
  /\ hpc \in {"out", "loop"}
  /\ {pending, blocked, installed} \subseteq BOOLEAN

(* A child that ended is never forgotten: a signal is still to come for    *)
(* it, or the handler is in its loop, although signals that come together  *)
(* are merged (server_fork.c:17-25, 70-75, 144-150, recycle_process_       *)
(* signal.c:9-20, 23-50).                                                  *)
NoChildForgotten == Zombies # {} => pending \/ hpc = "loop"

(* Every child that ends is reaped, unless the server itself ends.         *)
ZombiesReaped ==
  \A c \in Clients :
    (child[c] = "zombie") ~> (child[c] = "reaped" \/ mpc = "exited")

(* The count of clients online is never too low, although the handler      *)
(* decrements it between the load and the store of main's increment.       *)
NeverUndercounts ==
  runs = "server" =>
    user >= Cardinality(Children) + (IF mpc = "fork" THEN 1 ELSE 0)
=============================================================================
