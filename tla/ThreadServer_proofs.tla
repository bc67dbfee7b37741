------------------------ MODULE ThreadServer_proofs ------------------------
(***************************************************************************)
(* Theorems about ThreadServer, for every size of the table and every set  *)
(* of connections.                                                         *)
(***************************************************************************)
EXTENDS ThreadServer, TLAPS

(* A worker may hold a stale value of user, but never one above MAX_USER,  *)
(* so that what it stores is below it.                                     *)
StaleBelowMax ==
  /\ \A c \in Clients : wpc[c] = "store" => wreg[c] <= MAX_USER
  /\ mpc = "store" => reg < MAX_USER

\* A slot main chose is still free when accept writes to it.
ChosenIsFree == mpc = "accept" /\ i < MAX_USER => user_sock[i] = FREE

\* A connection in the listen queue, or not yet made, has no worker.
FreshClient ==
  \A c \in Clients : client[c] \in {"idle", "queued"} => wpc[c] = "none"

Inv == TypeOK /\ OwnsSlot /\ SlotHasWorker /\ NeverPastMax
         /\ StaleBelowMax /\ ChosenIsFree /\ FreshClient

LEMMA InitInv == Init => Inv
BY ServerAssumption DEF Init, Inv, TypeOK, OwnsSlot, SlotHasWorker, NeverPastMax,
   StaleBelowMax, ChosenIsFree, FreshClient, Slots

LEMMA NextInv == Inv /\ [Next]_vars => Inv'
<1> SUFFICES ASSUME Inv, [Next]_vars PROVE Inv'
  OBVIOUS
<1> USE ServerAssumption
    DEF Inv, TypeOK, OwnsSlot, SlotHasWorker, NeverPastMax, StaleBelowMax,
        ChosenIsFree, FreshClient, Slots, main, worker
<1>1. CASE \E c \in Clients : Connect(c) \/ Leave(c)
  BY <1>1 DEF Connect, Leave
<1>2. CASE M_Check
  BY <1>2 DEF M_Check, TableFull
<1>3. CASE M_Scan
  BY <1>3 DEF M_Scan, SlotTaken
<1>4. CASE M_Accept
  BY <1>4 DEF M_Accept
<1>5. CASE M_Overrun
  BY <1>5 DEF M_Overrun
<1>6. CASE M_AcceptError
  BY <1>6 DEF M_AcceptError
<1>7. CASE M_Load
  BY <1>7 DEF M_Load
<1>8. CASE M_Store
  BY <1>8 DEF M_Store
<1>9. ASSUME NEW c \in Clients, W_Close(c) PROVE Inv'
  BY <1>9 DEF W_Close
<1>10. ASSUME NEW c \in Clients, W_Clear(c) PROVE Inv'
  BY <1>10 DEF W_Clear
<1>11. ASSUME NEW c \in Clients, W_Load(c) PROVE Inv'
  BY <1>11 DEF W_Load
<1>12. ASSUME NEW c \in Clients, W_Store(c) PROVE Inv'
  BY <1>12 DEF W_Store
<1>13. CASE UNCHANGED vars
  BY <1>13 DEF vars
<1> QED
  BY <1>1, <1>2, <1>3, <1>4, <1>5, <1>6, <1>7, <1>8, <1>9, <1>10, <1>11, <1>12,
     <1>13 DEF Next, MainStep, WorkerStep

(* A slot holds the fd of a connection or FREE, a worker's slot and main's *)
(* index are in the table (server_thread.c:16, 58-66, 113-140).            *)
THEOREM TypeCorrect == Spec => []TypeOK
<1>1. Inv => TypeOK
  BY DEF Inv
<1> QED  BY InitInv, NextInv, <1>1, PTL DEF Spec

(* Each worker keeps the slot of its own connection (server_thread.c:36-65,*)
(* 122-134), for any table and any race on user.                           *)
THEOREM WorkersOwnSlots == Spec => []OwnsSlot
<1>1. Inv => OwnsSlot
  BY DEF Inv
<1> QED  BY InitInv, NextInv, <1>1, PTL DEF Spec

(* user never passes MAX_USER, so that the test with == sees it            *)
(* (server_thread.c:116).                                                  *)
THEOREM UserNeverPastMax == Spec => []NeverPastMax
<1>1. Inv => NeverPastMax
  BY DEF Inv
<1> QED  BY InitInv, NextInv, <1>1, PTL DEF Spec

(* Every slot in use has a worker that frees it (server_thread.c:64-66).   *)
THEOREM SlotsHaveWorkers == Spec => []SlotHasWorker
<1>1. Inv => SlotHasWorker
  BY DEF Inv
<1> QED  BY InitInv, NextInv, <1>1, PTL DEF Spec
=============================================================================
