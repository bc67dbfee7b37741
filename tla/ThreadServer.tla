---------------------------- MODULE ThreadServer ----------------------------
(***************************************************************************)
(* src/tcp_code/server_thread.c: main accepts connections into a table of  *)
(* MAX_USER slots and starts a detached worker for each; the worker serves *)
(* its client until it leaves, then gives the slot back.  The number of    *)
(* users online is kept in `user', which all threads update with no lock:  *)
(* its ++ and -- are a load and a store, and others come in between.       *)
(***************************************************************************)
EXTENDS Integers

CONSTANTS Clients,     \* the connections, each made once
          MAX_USER,    \* 21 in the code
          FREE         \* the fd of a free slot, -1 in the code

ASSUME ServerAssumption == MAX_USER \in Nat \ {0} /\ FREE \notin Clients

Slots == 0 .. MAX_USER - 1

VARIABLES
  client,              \* per connection: what its client did
  user,
  user_sock,           \* per slot: the connection whose fd it holds, or FREE
  mpc, i, reg,         \* main, and the value of user it loaded
  wpc, info, wreg      \* per connection, its worker: where it is, its slot,
                       \* and the value of user it loaded

main   == <<mpc, i, reg>>
worker == <<wpc, info, wreg>>
vars   == <<client, user, user_sock, main, worker>>

Init ==
  /\ client = [c \in Clients |-> "idle"]
  /\ user = 0
  /\ user_sock = [s \in Slots |-> FREE]
  /\ mpc = "check" /\ i = 0 /\ reg = 0
  /\ wpc = [c \in Clients |-> "none"]
  /\ info = [c \in Clients |-> 0]
  /\ wreg = [c \in Clients |-> 0]
-----------------------------------------------------------------------------
(* Clients connect, which puts them in the listen queue, and leave.        *)
Connect(c) ==
  /\ client[c] = "idle" /\ client' = [client EXCEPT ![c] = "queued"]
  /\ UNCHANGED <<user, user_sock, main, worker>>

Leave(c) ==
  /\ client[c] = "open" /\ client' = [client EXCEPT ![c] = "left"]
  /\ UNCHANGED <<user, user_sock, main, worker>>
-----------------------------------------------------------------------------
(* main *)

\* Mutant of TableFull: nobody is held back.
NeverFull == FALSE

TableFull == user = MAX_USER

\* While the table is full main sleeps and tests again.
M_Check ==
  /\ mpc = "check" /\ ~TableFull
  /\ mpc' = "scan" /\ i' = 0
  /\ UNCHANGED <<client, user, user_sock, reg, worker>>

\* Mutant of SlotTaken: the scan takes the first slot it looks at.
NeverTaken(s) == FALSE

SlotTaken(s) == user_sock[s] # FREE

\* Mutant of M_Scan: the loop goes one slot too far.
M_ScanPast ==
  /\ mpc = "scan"
  /\ \/ i <= MAX_USER /\ (i \in Slots => SlotTaken(i)) /\ i' = i + 1 /\ mpc' = mpc
     \/ i \in Slots /\ ~SlotTaken(i) /\ i' = i /\ mpc' = "accept"
  /\ UNCHANGED <<client, user, user_sock, reg, worker>>

\* The scan looks at one slot after the other while workers free some.
M_Scan ==
  /\ mpc = "scan"
  /\ \/ i < MAX_USER /\ SlotTaken(i) /\ i' = i + 1 /\ mpc' = mpc
     \/ (i < MAX_USER => ~SlotTaken(i)) /\ i' = i /\ mpc' = "accept"
  /\ UNCHANGED <<client, user, user_sock, reg, worker>>

\* accept writes the new fd to slot i, and a worker starts on that slot.
M_Accept ==
  /\ mpc = "accept" /\ i < MAX_USER
  /\ \E c \in Clients :
       /\ client[c] = "queued" /\ client' = [client EXCEPT ![c] = "open"]
       /\ user_sock' = [user_sock EXCEPT ![i] = c]
       /\ wpc' = [wpc EXCEPT ![c] = "talk"]
       /\ info' = [info EXCEPT ![c] = i]
  /\ mpc' = "load"
  /\ UNCHANGED <<user, i, reg, wreg>>

\* The scan found no free slot: accept writes past the end of the table, and
\* nothing is known of the program from here on.
M_Overrun ==
  /\ mpc = "accept" /\ i = MAX_USER
  /\ \E c \in Clients : client[c] = "queued"
  /\ mpc' = "undefined"
  /\ UNCHANGED <<client, user, user_sock, i, reg, worker>>

\* accept fails: the slot holds -1, main ends and leaves its workers running.
M_AcceptError ==
  /\ mpc = "accept" /\ i < MAX_USER
  /\ user_sock' = [user_sock EXCEPT ![i] = FREE]
  /\ mpc' = "ended"
  /\ UNCHANGED <<client, user, i, reg, worker>>

\* ++user
M_Load ==
  /\ mpc = "load" /\ reg' = user /\ mpc' = "store"
  /\ UNCHANGED <<client, user, user_sock, i, worker>>

M_Store ==
  /\ mpc = "store" /\ user' = reg + 1 /\ reg' = 0 /\ mpc' = "check"
  /\ UNCHANGED <<client, user_sock, i, worker>>
-----------------------------------------------------------------------------
(* worker: what it echoes changes nothing here, and read returns 0 or -1   *)
(* only when the client is gone.                                           *)
W_Close(c) ==
  /\ wpc[c] = "talk" /\ client[c] = "left"
  /\ wpc' = [wpc EXCEPT ![c] = "clear"]
  /\ UNCHANGED <<client, user, user_sock, main, info, wreg>>

\* Mutant of W_Clear: the fd is closed and the slot keeps its number.
W_ClearForgotten(c) ==
  /\ wpc[c] = "clear"
  /\ wpc' = [wpc EXCEPT ![c] = "load"]
  /\ UNCHANGED <<client, user, user_sock, main, info, wreg>>

\* info->fd = -1
W_Clear(c) ==
  /\ wpc[c] = "clear"
  /\ user_sock' = [user_sock EXCEPT ![info[c]] = FREE]
  /\ wpc' = [wpc EXCEPT ![c] = "load"]
  /\ UNCHANGED <<client, user, main, info, wreg>>

\* user--
W_Load(c) ==
  /\ wpc[c] = "load"
  /\ wreg' = [wreg EXCEPT ![c] = user]
  /\ wpc' = [wpc EXCEPT ![c] = "store"]
  /\ UNCHANGED <<client, user, user_sock, main, info>>

W_Store(c) ==
  /\ wpc[c] = "store"
  /\ user' = wreg[c] - 1
  /\ wreg' = [wreg EXCEPT ![c] = 0]
  /\ wpc' = [wpc EXCEPT ![c] = "gone"]
  /\ UNCHANGED <<client, user_sock, main, info>>
-----------------------------------------------------------------------------
MainStep == M_Check \/ M_Scan \/ M_Accept \/ M_Overrun \/ M_AcceptError
              \/ M_Load \/ M_Store
WorkerStep(c) == W_Close(c) \/ W_Clear(c) \/ W_Load(c) \/ W_Store(c)

Next ==
  /\ mpc # "undefined"
  /\ \/ MainStep
     \/ \E c \in Clients : Connect(c) \/ Leave(c) \/ WorkerStep(c)

Spec == Init /\ [][Next]_vars
-----------------------------------------------------------------------------
TypeOK ==
  /\ client \in [Clients -> {"idle", "queued", "open", "left"}]
  /\ user \in Int
  /\ user_sock \in [Slots -> Clients \cup {FREE}]
  /\ mpc \in {"check", "scan", "accept", "load", "store", "ended", "undefined"}
  /\ i \in 0 .. MAX_USER /\ reg \in Int
  /\ wpc \in [Clients -> {"none", "talk", "clear", "load", "store", "gone"}]
  /\ info \in [Clients -> Slots] /\ wreg \in [Clients -> Int]

(* A worker that serves a client, or is about to free its slot, owns the   *)
(* slot: info->fd is still the fd it was started for, so it reads from,    *)
(* writes to and closes its own connection, and no slot in use is given to *)
(* the next one (server_thread.c:36-65, 122-134).                          *)
OwnsSlot ==
  \A c \in Clients : wpc[c] \in {"talk", "clear"} => user_sock[info[c]] = c

(* A slot in use has a worker that will free it.                           *)
SlotHasWorker ==
  \A s \in Slots : user_sock[s] # FREE =>
    /\ wpc[user_sock[s]] \in {"talk", "clear"}
    /\ info[user_sock[s]] = s

(* However the updates of user race, it never passes MAX_USER, which main  *)
(* tests with == (server_thread.c:116).                                    *)
NeverPastMax ==
  /\ user <= MAX_USER
  /\ mpc \in {"scan", "accept", "load"} => user < MAX_USER

(* When main is past the test, the table has a free slot for the next      *)
(* client (server_thread.c:116-128).                                       *)
RoomForNext == mpc = "accept" => i < MAX_USER
=============================================================================
