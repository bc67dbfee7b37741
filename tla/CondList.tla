------------------------------ MODULE CondList ------------------------------
(***************************************************************************)
(* src/thread_code/cond_thread.c: a producer pushes nodes on a linked      *)
(* list, consumers wait on a condition variable for the list to have a     *)
(* node and then take all of it, holding the mutex.                        *)
(***************************************************************************)
EXTENDS Naturals, Sequences

CONSTANTS Consumers,
          NULL,          \* the null pointer, and no owner of the mutex
          First, Limit   \* the first val made, and how many are made

Nodes == First .. First + Limit - 1     \* a node is known by its val

ASSUME ListAssumption ==
  /\ First \in Nat /\ Limit \in Nat
  /\ Consumers # {}
  /\ NULL \notin Nodes \cup Consumers

VARIABLES
  head, next,            \* the list: next is defined for every node pushed
  mutex,                 \* the consumer that holds it
  beginnum, ppc,         \* the producer; its temp is the last node it made
  cpc, temp,             \* per consumer
  printed, freed         \* history: vals printed, in order; nodes freed

producer == <<beginnum, ppc>>
consumer == <<cpc, temp>>
vars == <<head, next, mutex, producer, consumer, printed, freed>>

Init ==
  /\ head = NULL /\ next = [n \in Nodes |-> NULL]
  /\ mutex = NULL
  /\ beginnum = First /\ ppc = "make"
  /\ cpc = [c \in Consumers |-> "lock"]
  /\ temp = [c \in Consumers |-> NULL]
  /\ printed = <<>> /\ freed = {}
-----------------------------------------------------------------------------
\* malloc, val = beginnum++: nobody else touches either.
P_Make ==
  /\ ppc = "make" /\ beginnum < First + Limit
  /\ beginnum' = beginnum + 1
  /\ ppc' = "push"
  /\ UNCHANGED <<head, next, mutex, consumer, printed, freed>>

\* Mutant of P_Push: the push takes no lock.
P_PushUnlocked ==
  /\ ppc = "push"
  /\ next' = [next EXCEPT ![beginnum - 1] = head]
  /\ head' = beginnum - 1
  /\ ppc' = "signal"
  /\ UNCHANGED <<mutex, beginnum, consumer, printed, freed>>

\* Mutant of P_Push: the node pushed is the one beginnum now stands for.
P_PushNext ==
  /\ ppc = "push" /\ mutex = NULL
  /\ next' = [next EXCEPT ![beginnum - 1] = head]
  /\ head' = beginnum
  /\ ppc' = "signal"
  /\ UNCHANGED <<mutex, beginnum, consumer, printed, freed>>

\* lock, push in front, unlock.
P_Push ==
  /\ ppc = "push" /\ mutex = NULL
  /\ next' = [next EXCEPT ![beginnum - 1] = head]
  /\ head' = beginnum - 1
  /\ ppc' = "signal"
  /\ UNCHANGED <<mutex, beginnum, consumer, printed, freed>>

\* Mutant of P_Signal: the signal is forgotten.
P_SignalLost ==
  /\ ppc = "signal" /\ ppc' = "make"
  /\ UNCHANGED <<head, next, mutex, beginnum, consumer, printed, freed>>

\* The signal is sent after the unlock, and wakes one waiting consumer.
P_Signal ==
  /\ ppc = "signal" /\ ppc' = "make"
  /\ \/ \E c \in Consumers : /\ cpc[c] = "waiting"
                             /\ cpc' = [cpc EXCEPT ![c] = "lock"]
     \/ (\A c \in Consumers : cpc[c] # "waiting") /\ cpc' = cpc
  /\ UNCHANGED <<head, next, mutex, beginnum, temp, printed, freed>>
-----------------------------------------------------------------------------
\* Mutant of C_Lock: the consumer does not take the mutex.
C_LockNot(c) ==
  /\ cpc[c] = "lock"
  /\ cpc' = [cpc EXCEPT ![c] = IF head = NULL THEN "waiting" ELSE "read"]
  /\ UNCHANGED <<head, next, mutex, producer, temp, printed, freed>>

\* At the lock, or back from the wait with the mutex: test, then wait, which
\* gives the mutex back, or go on with it.
C_Lock(c) ==
  /\ cpc[c] = "lock" /\ mutex = NULL
  /\ \/ head = NULL /\ cpc' = [cpc EXCEPT ![c] = "waiting"] /\ mutex' = NULL
     \/ head # NULL /\ cpc' = [cpc EXCEPT ![c] = "read"] /\ mutex' = c
  /\ UNCHANGED <<head, next, producer, temp, printed, freed>>

\* A wait may end for no reason.
C_Spurious(c) ==
  /\ cpc[c] = "waiting" /\ cpc' = [cpc EXCEPT ![c] = "lock"]
  /\ UNCHANGED <<head, next, mutex, producer, temp, printed, freed>>

\* temp = head, and head->val is printed.
C_Read(c) ==
  /\ cpc[c] = "read" /\ head # NULL
  /\ temp' = [temp EXCEPT ![c] = head]
  /\ printed' = Append(printed, head)
  /\ cpc' = [cpc EXCEPT ![c] = "free"]
  /\ UNCHANGED <<head, next, mutex, producer, freed>>

\* head = head->next, free(temp).
C_Free(c) ==
  /\ cpc[c] = "free"
  /\ head' = IF head = NULL THEN NULL ELSE next[head]
  /\ freed' = freed \cup {temp[c]}
  /\ cpc' = [cpc EXCEPT ![c] = "read"]
  /\ UNCHANGED <<next, mutex, producer, temp, printed>>

C_Unlock(c) ==
  /\ cpc[c] = "read" /\ head = NULL
  /\ mutex' = NULL
  /\ cpc' = [cpc EXCEPT ![c] = "lock"]
  /\ UNCHANGED <<head, next, producer, temp, printed, freed>>
-----------------------------------------------------------------------------
Producer    == P_Make \/ P_Push \/ P_Signal
Consumer(c) == C_Lock(c) \/ C_Read(c) \/ C_Free(c) \/ C_Unlock(c)

Next == Producer \/ \E c \in Consumers : Consumer(c) \/ C_Spurious(c)

(* All threads are scheduled, and one that wants a mutex the others keep   *)
(* releasing gets it.  No wait need end without a signal.                  *)
Spec == /\ Init /\ [][Next]_vars
        /\ SF_vars(Producer)
        /\ \A c \in Consumers : SF_vars(Consumer(c))
-----------------------------------------------------------------------------
Pushed == {n \in Nodes : n < (IF ppc = "push" THEN beginnum - 1 ELSE beginnum)}

TypeOK ==
  /\ head \in Nodes \cup {NULL} /\ next \in [Nodes -> Nodes \cup {NULL}]
  /\ mutex \in Consumers \cup {NULL}
  /\ beginnum \in First .. First + Limit /\ ppc \in {"make", "push", "signal"}
  /\ cpc \in [Consumers -> {"lock", "waiting", "read", "free"}]
  /\ temp \in [Consumers -> Nodes \cup {NULL}]
  /\ printed \in Seq(Nodes) /\ freed \subseteq Nodes

(* Nothing on the list has been freed: not the head, not what a node still *)
(* on the list points to (cond_thread.c:25-26, 49-54).                     *)
NoDanglingNode ==
  /\ head \notin freed
  /\ \A n \in Pushed \ freed : next[n] \notin freed

(* Every node is printed once (no two consumers take the same node), and a *)
(* freed node has been printed.                                            *)
PrintedOnce ==
  /\ \A k, m \in 1 .. Len(printed) : printed[k] = printed[m] => k = m
  /\ \A n \in freed : \E k \in 1 .. Len(printed) : printed[k] = n

(* The consumers do not all sleep over a list with nodes, unless the       *)
(* producer is about to signal (cond_thread.c:29-31, 45-47).               *)
NobodySleepsOverWork ==
  head # NULL /\ ppc # "signal" => \E c \in Consumers : cpc[c] # "waiting"

(* Every node pushed is taken off the list and freed.                      *)
EveryNodeFreed == \A n \in Nodes : (head = n) ~> (n \in freed)
=============================================================================
