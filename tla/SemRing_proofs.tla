--------------------------- MODULE SemRing_proofs ---------------------------
(***************************************************************************)
(* Theorems about SemRing, for every size of the ring and every number of  *)
(* items.                                                                  *)
(***************************************************************************)
EXTENDS SemRing, RingLemmas, SequenceTheorems

\* A thread that has waited and not posted yet holds one.
P_Holds == IF ppc = "make" THEN 1 ELSE 0
P_Posts == IF ppc = "post" THEN 1 ELSE 0
C_Holds == IF cpc = "get" THEN 1 ELSE 0
C_Posts == IF cpc = "post" THEN 1 ELSE 0

(* Every slot is counted once: free, taken by the producer, filled, or     *)
(* printed and not given back; what s_full counts, and what is on its way, *)
(* is what was made and not printed.                                       *)
Tokens ==
  /\ s_empty + P_Holds + (pi - ci) + C_Posts = Slots
  /\ s_full + P_Posts + C_Holds = pi - ci

(* The numbers follow each other, through the ring and out of it.          *)
Contents ==
  /\ beginnum = First + pi
  /\ pi <= Limit /\ (ppc = "make" => pi < Limit)
  /\ \A k \in Nat : ci <= k /\ k < pi => value[Slot(k)] = First + k
  /\ Len(printed) = ci
  /\ \A k \in 1 .. ci : printed[k] = First + k - 1

Inv ==
  /\ TypeOK /\ s_full \in Nat /\ s_empty \in Nat
  /\ ci <= pi
  /\ Tokens /\ Contents

LEMMA SlotType ==
  ASSUME NEW k \in Nat
  PROVE  Slot(k) \in 0 .. Slots - 1
BY RingAssumption, DivMod DEF Slot

LEMMA InitInv == Init => Inv
<1> SUFFICES ASSUME Init PROVE Inv
  OBVIOUS
<1>1. TypeOK /\ s_full \in Nat /\ s_empty \in Nat /\ ci <= pi
  BY RingAssumption, EmptySeq DEF Init, TypeOK, EmptyAtStart
<1>2. Tokens
  BY RingAssumption DEF Init, Tokens, P_Holds, P_Posts, C_Holds, C_Posts, EmptyAtStart
<1>3. Contents
  BY RingAssumption, EmptySeq DEF Init, Contents
<1> QED  BY <1>1, <1>2, <1>3 DEF Inv

\* What the counts leave room for.
LEMMA TokensBound ==
  ASSUME Inv
  PROVE  /\ pi - ci \in 0 .. Slots
         /\ ppc = "make" => pi - ci < Slots
         /\ cpc = "get" => ci < pi
BY RingAssumption DEF Inv, TypeOK, Tokens, P_Holds, P_Posts, C_Holds, C_Posts

\* The counts, and with them the types of the integers, after a step.
Counts == /\ s_full \in Nat /\ s_empty \in Nat /\ pi \in Nat /\ ci \in Nat
          /\ ci <= pi /\ Tokens

LEMMA NextCounts == Inv /\ [Next]_vars => Counts'
<1> SUFFICES ASSUME Inv, [Next]_vars PROVE Counts'
  OBVIOUS
<1> USE DEF Inv, TypeOK, Counts, Tokens, P_Holds, P_Posts, C_Holds, C_Posts,
            producer, consumer
<1>1. CASE P_Wait
  BY <1>1 DEF P_Wait
<1>2. CASE P_Make
  BY <1>2 DEF P_Make
<1>3. CASE P_Post
  BY <1>3 DEF P_Post
<1>4. CASE C_Wait
  BY <1>4 DEF C_Wait
<1>5. CASE C_Get
  BY <1>5, TokensBound DEF C_Get
<1>6. CASE C_Post
  BY <1>6 DEF C_Post
<1>7. CASE UNCHANGED vars
  BY <1>7 DEF vars
<1> QED
  BY <1>1, <1>2, <1>3, <1>4, <1>5, <1>6, <1>7 DEF Next, Producer, Consumer

LEMMA NextInv == Inv /\ [Next]_vars => Inv'
<1> SUFFICES ASSUME Inv, [Next]_vars PROVE Inv'
  OBVIOUS
<1> USE DEF producer, consumer
<1>1. Counts' /\ s_full' \in 0 .. Slots /\ s_empty' \in 0 .. Slots
  BY NextCounts, RingAssumption DEF Counts, Tokens, P_Holds, P_Posts, C_Holds, C_Posts
<1>2. TypeOK' /\ Contents' => Inv'
  BY <1>1 DEF Inv, Counts
<1>3. CASE P_Make
  <2>1. TypeOK'
    <3>1. value' \in [0 .. Slots - 1 -> Nat]
      BY <1>3 DEF Inv, TypeOK, P_Make
    <3>2. beginnum' \in Nat
      BY <1>3 DEF Inv, TypeOK, P_Make
    <3> QED  BY <1>1, <1>3, <3>1, <3>2 DEF Counts, Inv, TypeOK, P_Make
  <2>2. ASSUME NEW k \in Nat, ci' <= k, k < pi'
        PROVE  value'[Slot(k)] = First + k
    <3>1. CASE k = pi
      BY <1>3, <3>1, SlotType DEF Inv, TypeOK, P_Make, Contents
    <3>2. CASE k < pi
      <4>1. pi \in Nat /\ pi - k < Slots
        BY <1>3, <2>2, TokensBound, RingAssumption DEF Inv, TypeOK, P_Make
      <4>2. Slot(pi) # Slot(k)
        BY <3>2, <4>1, RingAssumption, ModApart DEF Slot
      <4>3. value'[Slot(k)] = value[Slot(k)]
        BY <1>3, <4>2, SlotType DEF Inv, TypeOK, P_Make
      <4> QED  BY <1>3, <2>2, <3>2, <4>3 DEF Inv, P_Make, Contents
    <3> QED  BY <1>3, <2>2, <3>1, <3>2 DEF Inv, TypeOK, P_Make
  <2>3. Contents'
    BY <1>3, <2>2, RingAssumption DEF Inv, TypeOK, P_Make, Contents
  <2> QED  BY <1>2, <2>1, <2>3
<1>4. CASE C_Get
  <2>1. value[Slot(ci)] = First + ci /\ value[Slot(ci)] \in Nat
    BY <1>4, TokensBound, RingAssumption DEF Inv, TypeOK, C_Get, Contents
  <2>2. /\ printed' \in Seq(Nat) /\ Len(printed') = ci'
        /\ \A k \in 1 .. ci : printed'[k] = printed[k]
        /\ printed'[ci + 1] = First + ci
    BY <1>4, <2>1, AppendProperties DEF Inv, TypeOK, C_Get, Contents
  <2>3. TypeOK'
    BY <1>1, <1>4, <2>2 DEF Inv, TypeOK, C_Get
  <2>4. \A k \in 1 .. ci' : printed'[k] = First + k - 1
    <3>1. ci \in Nat /\ ci' = ci + 1 /\ First \in Nat
      BY <1>4, RingAssumption DEF Inv, TypeOK, C_Get
    <3>2. \A k \in 1 .. ci : printed'[k] = First + k - 1
      BY <2>2 DEF Inv, Contents
    <3> QED  BY <2>2, <3>1, <3>2
  <2>5. Contents'
    BY <1>4, <2>2, <2>4 DEF Inv, TypeOK, C_Get, Contents
  <2> QED  BY <1>2, <2>3, <2>5
<1>5. CASE P_Wait
  BY <1>1, <1>2, <1>5, RingAssumption DEF Inv, TypeOK, P_Wait, Contents
<1>6. CASE P_Post
  BY <1>1, <1>2, <1>6 DEF Inv, TypeOK, P_Post, Contents
<1>7. CASE C_Wait
  BY <1>1, <1>2, <1>7 DEF Inv, TypeOK, C_Wait, Contents
<1>8. CASE C_Post
  BY <1>1, <1>2, <1>8 DEF Inv, TypeOK, C_Post, Contents
<1>9. CASE UNCHANGED vars
  BY <1>1, <1>2, <1>9 DEF Inv, TypeOK, vars, Contents
<1> QED
  BY <1>3, <1>4, <1>5, <1>6, <1>7, <1>8, <1>9 DEF Next, Producer, Consumer

LEMMA InvAlways == Spec => []Inv
BY InitInv, NextInv, PTL DEF Spec

(* The semaphores never pass the size of the ring, and the threads stay on *)
(* its slots (sem_thread.c:11-36).                                         *)
THEOREM TypeCorrect == Spec => []TypeOK
<1>1. Inv => TypeOK
  BY DEF Inv
<1> QED  BY InvAlways, <1>1, PTL

(* Producer and consumer are never at the same slot, in a ring of any size *)
(* (sem_thread.c:14-15, 28-29).                                            *)
THEOREM SlotsApart == Spec => []NeverSameSlot
<1>1. Inv => NeverSameSlot
  <2> SUFFICES ASSUME Inv, ppc = "make", cpc = "get"
               PROVE  Slot(pi) # Slot(ci)
    BY DEF NeverSameSlot
  <2>1. ci < pi /\ pi - ci < Slots /\ pi \in Nat /\ ci \in Nat
    BY TokensBound DEF Inv, TypeOK
  <2> QED  BY <2>1, RingAssumption, ModApart DEF Slot
<1> QED  BY InvAlways, <1>1, PTL

(* The two threads never wait for each other: when the producer finds no   *)
(* free slot, the consumer finds a full one or is on its way to post one   *)
(* (sem_thread.c:13-17, 27-31).                                            *)
THEOREM NeverBothBlocked ==
  Spec => []~(ppc = "wait" /\ s_empty = 0 /\ cpc = "wait" /\ s_full = 0)
<1>1. Inv => ~(ppc = "wait" /\ s_empty = 0 /\ cpc = "wait" /\ s_full = 0)
  BY RingAssumption DEF Inv, TypeOK, Tokens, P_Holds, P_Posts, C_Holds, C_Posts
<1> QED  BY InvAlways, <1>1, PTL

(* However often the slots are reused, the numbers are printed in the      *)
(* order they were made, none twice and none left out                      *)
(* (sem_thread.c:15, 28).                                                  *)
THEOREM PrintedInOrder ==
  Spec => [](\A k \in 1 .. Len(printed) : printed[k] = First + k - 1)
<1>1. Inv => \A k \in 1 .. Len(printed) : printed[k] = First + k - 1
  BY DEF Inv, Contents
<1> QED  BY InvAlways, <1>1, PTL
-----------------------------------------------------------------------------
(* The ring implements the line of TaskFifo.                               *)
Waiting == [k \in 1 .. pi - ci |-> value[Slot(ci + k - 1)]]
Printed == {printed[k] : k \in 1 .. Len(printed)}

\* What is in the ring and what came out of it, by the indices alone.
ByIndex ==
  /\ Waiting = [k \in 1 .. pi - ci |-> First + ci + k - 1]
  /\ Waiting \in Seq(Nat) /\ Len(Waiting) = pi - ci
  /\ Printed = First .. First + ci - 1

LEMMA LineByIndex == Inv => ByIndex
<1> SUFFICES ASSUME Inv PROVE ByIndex
  OBVIOUS
<1>1. pi \in Nat /\ ci \in Nat /\ pi - ci \in Nat /\ First \in Nat
  BY RingAssumption DEF Inv, TypeOK
<1>2. \A k \in 1 .. pi - ci : value[Slot(ci + k - 1)] = First + ci + k - 1
  <2> SUFFICES ASSUME NEW k \in 1 .. pi - ci
               PROVE  value[Slot(ci + k - 1)] = First + ci + k - 1
    OBVIOUS
  <2> DEFINE n == ci + k - 1
  <2>1. n \in Nat /\ ci <= n /\ n < pi /\ First + ci + k - 1 = First + n
    BY <1>1
  <2> HIDE DEF n
  <2>2. value[Slot(n)] = First + n
    BY <2>1 DEF Inv, Contents
  <2> QED  BY <2>1, <2>2 DEF n
<1>3. Waiting = [k \in 1 .. pi - ci |-> First + ci + k - 1]
  BY <1>2 DEF Waiting
<1>4. Waiting \in Seq(Nat) /\ Len(Waiting) = pi - ci
  BY <1>1, <1>3
<1>5. Printed = First .. First + ci - 1
  <2>1. \A k \in 1 .. ci : printed[k] = First + k - 1
    BY DEF Inv, Contents
  <2>2. Printed = {First + k - 1 : k \in 1 .. ci}
    BY <2>1 DEF Printed, Inv, Contents
  <2>3. \A n \in First .. First + ci - 1 : n \in Printed
    <3> SUFFICES ASSUME NEW n \in First .. First + ci - 1 PROVE n \in Printed
      OBVIOUS
    <3>1. n - First + 1 \in 1 .. ci /\ First + (n - First + 1) - 1 = n
      BY <1>1
    <3> QED  BY <2>2, <3>1
  <2>4. \A n \in Printed : n \in First .. First + ci - 1
    BY <1>1, <2>2
  <2> QED  BY <2>3, <2>4
<1> QED  BY <1>3, <1>4, <1>5 DEF ByIndex

LEMMA InitLine == Init => Line!Init
<1> SUFFICES ASSUME Init PROVE Line!Init
  OBVIOUS
<1>1. Waiting = <<>>
  BY InitInv, LineByIndex, EmptySeq DEF Init, ByIndex
<1>2. Printed = {}
  BY DEF Init, Printed
<1> QED  BY <1>1, <1>2 DEF Line!Init, Waiting, Printed

\* A number joins the line when the producer stores it ...
LEMMA MakePuts ==
  ASSUME Inv, Inv', P_Make
  PROVE  \E t \in First .. First + Limit : Line!Put(t)
<1> DEFINE t == beginnum
<1>1. /\ pi \in Nat /\ ci \in Nat /\ First \in Nat /\ Limit \in Nat
      /\ ci <= pi /\ pi <= Limit /\ pi - ci < Slots
      /\ pi' = pi + 1 /\ ci' = ci /\ t = First + pi
  BY RingAssumption, TokensBound DEF P_Make, consumer, Inv, TypeOK, Contents
<1>2. ByIndex /\ ByIndex'
  BY LineByIndex, PTL
<1>3. Waiting' = Append(Waiting, t)
  <2>1. Waiting \in Seq(Nat) /\ Waiting' \in Seq(Nat) /\ t \in Nat
    BY <1>1, <1>2 DEF ByIndex
  <2>2. /\ Append(Waiting, t) \in Seq(Nat)
        /\ Len(Append(Waiting, t)) = Len(Waiting) + 1
        /\ \A k \in 1 .. Len(Waiting) : Append(Waiting, t)[k] = Waiting[k]
        /\ Append(Waiting, t)[Len(Waiting) + 1] = t
    BY <2>1, AppendProperties
  <2>3. Len(Waiting) = pi - ci /\ Len(Waiting') = pi - ci + 1
    BY <1>1, <1>2 DEF ByIndex
  <2>4. \A k \in 1 .. pi - ci : Waiting[k] = First + ci + k - 1
    BY <1>2 DEF ByIndex
  <2>5. \A k \in 1 .. pi - ci + 1 : Waiting'[k] = First + ci + k - 1
    BY <1>1, <1>2 DEF ByIndex
  <2>6. \A k \in 1 .. pi - ci + 1 : Waiting'[k] = Append(Waiting, t)[k]
    BY <1>1, <2>2, <2>3, <2>4, <2>5
  <2> QED  BY <2>1, <2>2, <2>3, <2>6, SeqEqual
<1>4. ~ \E k \in 1 .. Len(Waiting) : Waiting[k] = t
  BY <1>1, <1>2 DEF ByIndex
<1>5. t \notin Printed /\ Printed' = Printed
  BY <1>1, <1>2 DEF ByIndex
<1>6. t \in First .. First + Limit /\ Len(Waiting) < Slots
  BY <1>1, <1>2 DEF ByIndex
<1> QED
  BY <1>3, <1>4, <1>5, <1>6 DEF Line!Put, Line!InLine, Waiting, Printed

\* ... and leaves it when the consumer prints it.
LEMMA GetTakes ==
  ASSUME Inv, Inv', C_Get
  PROVE  Line!Take
<1>1. /\ pi \in Nat /\ ci \in Nat /\ First \in Nat
      /\ ci < pi /\ pi' = pi /\ ci' = ci + 1
  BY RingAssumption, TokensBound DEF C_Get, producer, Inv, TypeOK
<1>2. ByIndex /\ ByIndex'
  BY LineByIndex, PTL
<1>3. Waiting \in Seq(Nat) /\ Waiting' \in Seq(Nat) /\ Waiting # <<>>
  BY <1>1, <1>2, EmptySeq DEF ByIndex
<1>4. Head(Waiting) = First + ci
  BY <1>1, <1>2, <1>3 DEF ByIndex
<1>5. Waiting' = Tail(Waiting)
  <2>1. /\ Tail(Waiting) \in Seq(Nat) /\ Len(Tail(Waiting)) = Len(Waiting) - 1
        /\ \A k \in 1 .. Len(Tail(Waiting)) : Tail(Waiting)[k] = Waiting[k + 1]
    BY <1>3, HeadTailProperties
  <2>2. Len(Tail(Waiting)) = pi - ci - 1 /\ Len(Waiting') = pi - ci - 1
    BY <1>1, <1>2, <2>1 DEF ByIndex
  <2>3. \A k \in 1 .. pi - ci - 1 : Waiting'[k] = First + ci + k
    BY <1>1, <1>2 DEF ByIndex
  <2>4. \A k \in 1 .. pi - ci - 1 : Waiting[k + 1] = First + ci + k
    BY <1>1, <1>2 DEF ByIndex
  <2>5. \A k \in 1 .. pi - ci - 1 : Waiting'[k] = Tail(Waiting)[k]
    BY <2>1, <2>2, <2>3, <2>4
  <2> QED  BY <1>3, <2>1, <2>2, <2>5, SeqEqual
<1>6. Printed' = Printed \cup {Head(Waiting)}
  BY <1>1, <1>2, <1>4 DEF ByIndex
<1> QED
  BY <1>3, <1>5, <1>6 DEF Line!Take, Waiting, Printed

LEMMA StepLine == Inv /\ Inv' /\ [Next]_vars => [Line!Next]_(Line!vars)
<1> SUFFICES ASSUME Inv, Inv', [Next]_vars PROVE [Line!Next]_(Line!vars)
  OBVIOUS
<1>1. CASE P_Make
  BY <1>1, MakePuts DEF Line!Next
<1>2. CASE C_Get
  BY <1>2, GetTakes DEF Line!Next
<1>3. CASE P_Wait \/ P_Post \/ C_Wait \/ C_Post \/ UNCHANGED vars
  <2>1. UNCHANGED <<value, pi, ci, printed>>
    BY <1>3 DEF P_Wait, P_Post, C_Wait, C_Post, vars, producer, consumer
  <2> QED  BY <2>1 DEF Line!vars
<1> QED  BY <1>1, <1>2, <1>3 DEF Next, Producer, Consumer

(* The ring is a bounded first-in first-out line, of any size and for any  *)
(* number of items (sem_thread.c:14-18, 28-31).                            *)
THEOREM RingIsALine == Spec => ImplementsLine
BY InvAlways, InitLine, StepLine, PTL DEF Spec, ImplementsLine, Line!Spec
=============================================================================
