------------------------------- MODULE SemRing -------------------------------
(***************************************************************************)
(* src/thread_code/sem_thread.c: one producer and one consumer share a     *)
(* ring of slots guarded by two counting semaphores and by no lock.  Each  *)
(* thread walks the ring with an index of its own.                         *)
(***************************************************************************)
EXTENDS Naturals, Sequences

CONSTANTS Slots,     \* the size of value[], 6 in the code
          First,     \* the first number made, 100 in the code
          Limit      \* how many numbers are made before the model stops

ASSUME RingAssumption == Slots \in Nat \ {0} /\ First \in Nat /\ Limit \in Nat

VARIABLES value, s_full, s_empty, beginnum,
          ppc, pi,             \* the producer and its index
          cpc, ci,             \* the consumer and its index
          printed              \* history: the numbers the consumer printed

producer == <<ppc, pi>>
consumer == <<cpc, ci>>
vars == <<value, s_full, s_empty, beginnum, producer, consumer, printed>>

\* The element of value[] that index k stands for.
Slot(k) == k % Slots

\* Mutant of EmptyAtStart: one slot too many.
OneTooMany == Slots + 1

\* The value sem_init gives s_empty.
EmptyAtStart == Slots

Init ==
  /\ value = [s \in 0 .. Slots - 1 |-> 0]
  /\ s_full = 0 /\ s_empty = EmptyAtStart
  /\ beginnum = First
  /\ ppc = "wait" /\ pi = 0
  /\ cpc = "wait" /\ ci = 0
  /\ printed = <<>>
-----------------------------------------------------------------------------
(* producer: sem_wait(&s_empty); value[i%6] = beginnum++; i++;             *)
(* sem_post(&s_full).                                                      *)
P_Wait ==
  /\ ppc = "wait" /\ beginnum < First + Limit
  /\ s_empty > 0 /\ s_empty' = s_empty - 1
  /\ ppc' = "make"
  /\ UNCHANGED <<value, s_full, beginnum, pi, consumer, printed>>

P_Make ==
  /\ ppc = "make"
  /\ value' = [value EXCEPT ![Slot(pi)] = beginnum]
  /\ beginnum' = beginnum + 1 /\ pi' = pi + 1
  /\ ppc' = "post"
  /\ UNCHANGED <<s_full, s_empty, consumer, printed>>

P_Post ==
  /\ ppc = "post"
  /\ s_full' = s_full + 1
  /\ ppc' = "wait"
  /\ UNCHANGED <<value, s_empty, beginnum, pi, consumer, printed>>
-----------------------------------------------------------------------------
(* consumer: sem_wait(&s_full); print value[i%6]; i++; sem_post(&s_empty). *)

\* Mutant of C_Wait: the consumer does not wait for a full slot.
C_WaitNot ==
  /\ cpc = "wait"
  /\ cpc' = "get"
  /\ UNCHANGED <<value, s_full, s_empty, beginnum, producer, ci, printed>>

C_Wait ==
  /\ cpc = "wait"
  /\ s_full > 0 /\ s_full' = s_full - 1
  /\ cpc' = "get"
  /\ UNCHANGED <<value, s_empty, beginnum, producer, ci, printed>>

C_Get ==
  /\ cpc = "get"
  /\ printed' = Append(printed, value[Slot(ci)])
  /\ ci' = ci + 1
  /\ cpc' = "post"
  /\ UNCHANGED <<value, s_full, s_empty, beginnum, producer>>

\* Mutant of C_Post: the slot is not given back.
C_PostLost ==
  /\ cpc = "post"
  /\ cpc' = "wait"
  /\ UNCHANGED <<value, s_full, s_empty, beginnum, producer, ci, printed>>

C_Post ==
  /\ cpc = "post"
  /\ s_empty' = s_empty + 1
  /\ cpc' = "wait"
  /\ UNCHANGED <<value, s_full, beginnum, producer, ci, printed>>
-----------------------------------------------------------------------------
Producer == P_Wait \/ P_Make \/ P_Post
Consumer == C_Wait \/ C_Get \/ C_Post

Next == Producer \/ Consumer

\* Both threads loop for ever and are scheduled.
Spec == Init /\ [][Next]_vars /\ WF_vars(Producer) /\ WF_vars(Consumer)
-----------------------------------------------------------------------------
TypeOK ==
  /\ value \in [0 .. Slots - 1 -> Nat]
  /\ {s_full, s_empty} \subseteq 0 .. Slots /\ beginnum \in Nat
  /\ ppc \in {"wait", "make", "post"} /\ pi \in Nat
  /\ cpc \in {"wait", "get", "post"} /\ ci \in Nat
  /\ printed \in Seq(Nat)

(* The two threads are never at the same slot, although neither locks it   *)
(* and neither knows the other's index (sem_thread.c:14-15, 29).           *)
NeverSameSlot == ppc = "make" /\ cpc = "get" => Slot(pi) # Slot(ci)

(* The numbers come out as they went in: the ring is a bounded first-in    *)
(* first-out line (sem_thread.c:14-18, 28-31).                             *)
Line == INSTANCE TaskFifo
          WITH Tasks <- First .. First + Limit, Capacity <- Slots,
               fifo <- [k \in 1 .. pi - ci |-> value[Slot(ci + k - 1)]],
               taken <- {printed[k] : k \in 1 .. Len(printed)}
ImplementsLine == Line!Spec

(* The producer is never held up for good: all numbers are made and        *)
(* printed.                                                                *)
AllPrinted == <>(Len(printed) = Limit)
=============================================================================
