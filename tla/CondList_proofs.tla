--------------------------- MODULE CondList_proofs ---------------------------
(***************************************************************************)
(* Theorems about CondList, for any number of consumers and of nodes.      *)
(***************************************************************************)
EXTENDS CondList, SequenceTheorems, TLAPS

\* The first node that is not on the list yet.
End == IF ppc = "push" THEN beginnum - 1 ELSE beginnum

(* The mutex is held where a consumer works on the list, and what it is    *)
(* about to free is the head.                                              *)
Locked ==
  \A c \in Consumers :
    /\ cpc[c] \in {"read", "free"} => mutex = c
    /\ cpc[c] = "free" => temp[c] = head /\ head # NULL

(* The list holds the nodes m .. h, the latest in front.  What was pushed  *)
(* before has been freed in earlier drains, what was pushed after in the   *)
(* drain that is under way.                                                *)
ListIs(m, h) ==
  /\ m \in First .. End /\ h \in m - 1 .. End - 1
  /\ head = IF h < m THEN NULL ELSE h
  /\ \A n \in Nodes : n \in freed <=> n < m \/ (h < n /\ n < End)
  /\ \A n \in m .. h : next[n] = IF n = m THEN NULL ELSE n - 1
  /\ mutex = NULL => h = End - 1

Shape == \E m, h \in Int : ListIs(m, h)

(* What has been printed is what has been freed, and the node that a       *)
(* consumer is about to free.                                              *)
Taken(n) == n \in freed \/ \E c \in Consumers : cpc[c] = "free" /\ n = head

PrintedIsTaken ==
  /\ \A n \in Nodes : Taken(n) <=> \E k \in 1 .. Len(printed) : printed[k] = n
  /\ \A k, m \in 1 .. Len(printed) : printed[k] = printed[m] => k = m

\* What is pushed or signalled has been made.
Made == ppc \in {"push", "signal"} => beginnum > First

Inv == /\ TypeOK /\ Made
       /\ Locked /\ Shape /\ PrintedIsTaken

LEMMA ConstantsType ==
  /\ First \in Nat /\ Limit \in Nat
  /\ NULL \notin Nodes /\ NULL \notin Consumers
  /\ Nodes \subseteq Nat
BY ListAssumption DEF Nodes

LEMMA InitInv == Init => Inv
<1> SUFFICES ASSUME Init PROVE Inv
  OBVIOUS
<1>1. TypeOK /\ Made /\ Locked
  BY ConstantsType, EmptySeq DEF Init, TypeOK, Made, Locked
<1>2. ListIs(First, First - 1)
  BY ConstantsType DEF Init, ListIs, End, Nodes
<1>3. Shape
  BY <1>2, ConstantsType DEF Shape
<1>4. PrintedIsTaken
  BY EmptySeq DEF Init, PrintedIsTaken, Taken
<1> QED  BY <1>1, <1>3, <1>4 DEF Inv

LEMMA NextType == Inv /\ [Next]_vars => TypeOK'
<1> SUFFICES ASSUME Inv, [Next]_vars PROVE TypeOK'
  OBVIOUS
<1> USE ConstantsType DEF Inv, TypeOK, Made, producer, consumer, Nodes
<1>1. CASE P_Make
  BY <1>1 DEF P_Make
<1>2. CASE P_Push
  BY <1>2 DEF P_Push
<1>3. CASE P_Signal
  BY <1>3 DEF P_Signal
<1>4. ASSUME NEW c \in Consumers, C_Lock(c) PROVE TypeOK'
  BY <1>4 DEF C_Lock
<1>5. ASSUME NEW c \in Consumers, C_Spurious(c) PROVE TypeOK'
  BY <1>5 DEF C_Spurious
<1>6. ASSUME NEW c \in Consumers, C_Read(c) PROVE TypeOK'
  <2>1. printed' \in Seq(Nodes)
    BY <1>6, AppendProperties DEF C_Read
  <2> QED  BY <1>6, <2>1 DEF C_Read
<1>7. ASSUME NEW c \in Consumers, C_Free(c) PROVE TypeOK'
  BY <1>7 DEF C_Free, Locked
<1>8. ASSUME NEW c \in Consumers, C_Unlock(c) PROVE TypeOK'
  BY <1>8 DEF C_Unlock
<1>9. CASE UNCHANGED vars
  BY <1>9 DEF vars
<1> QED
  BY <1>1, <1>2, <1>3, <1>4, <1>5, <1>6, <1>7, <1>8, <1>9
     DEF Next, Producer, Consumer

LEMMA NextLocked == Inv /\ [Next]_vars => Made' /\ Locked'
<1> SUFFICES ASSUME Inv, [Next]_vars PROVE Made' /\ Locked'
  OBVIOUS
<1> USE ConstantsType DEF Inv, TypeOK, Made, Locked, producer, consumer
<1>1. CASE P_Make
  BY <1>1 DEF P_Make
<1>2. CASE P_Push
  BY <1>2 DEF P_Push
<1>3. CASE P_Signal
  BY <1>3 DEF P_Signal
<1>4. ASSUME NEW c \in Consumers, C_Lock(c) PROVE Made' /\ Locked'
  BY <1>4 DEF C_Lock
<1>5. ASSUME NEW c \in Consumers, C_Spurious(c) PROVE Made' /\ Locked'
  BY <1>5 DEF C_Spurious
<1>6. ASSUME NEW c \in Consumers, C_Read(c) PROVE Made' /\ Locked'
  BY <1>6 DEF C_Read
<1>7. ASSUME NEW c \in Consumers, C_Free(c) PROVE Made' /\ Locked'
  BY <1>7 DEF C_Free
<1>8. ASSUME NEW c \in Consumers, C_Unlock(c) PROVE Made' /\ Locked'
  BY <1>8 DEF C_Unlock
<1>9. CASE UNCHANGED vars
  BY <1>9 DEF vars
<1> QED
  BY <1>1, <1>2, <1>3, <1>4, <1>5, <1>6, <1>7, <1>8, <1>9
     DEF Next, Producer, Consumer

\* Steps that leave the list and the mutex alone.
LEMMA SameShape ==
  ASSUME NEW m \in Int, NEW h \in Int, ListIs(m, h),
         UNCHANGED <<head, next, freed, End>>,
         mutex' = NULL => h = End - 1
  PROVE  ListIs(m, h)'
BY DEF ListIs

LEMMA NextShape == Inv /\ [Next]_vars => Shape'
<1> SUFFICES ASSUME Inv, [Next]_vars, NEW m \in Int, NEW h \in Int, ListIs(m, h)
             PROVE  \E n, g \in Int : ListIs(n, g)'
  BY DEF Inv, Shape
<1>0. First \in Nat /\ End \in Int
  BY ConstantsType DEF Inv, TypeOK, End
<1>e. PICK e \in Int : e = End
  BY <1>0
<1>1. CASE P_Make
  <2>1. UNCHANGED <<head, next, freed, mutex, End>>
    BY <1>1, ConstantsType DEF P_Make, Inv, TypeOK, End
  <2> QED  BY <2>1, SameShape DEF ListIs
<1>2. CASE P_Push
  <2>1. /\ e \in Nodes /\ End' = e + 1 /\ mutex = NULL /\ mutex' = NULL
        /\ next' = [next EXCEPT ![e] = head] /\ head' = e
        /\ freed' = freed
    BY <1>2, <1>e, ConstantsType DEF P_Push, Inv, TypeOK, Made, End, Nodes
  <2>2. h = e - 1
    BY <2>1, <1>e DEF ListIs
  <2>3. ListIs(m, e)'
    <3>1. \A n \in m .. e : next'[n] = IF n = m THEN NULL ELSE n - 1
      <4>1. CASE m = e
        BY <1>0, <1>e, <2>1, <2>2, <4>1 DEF ListIs, Inv, TypeOK
      <4>2. CASE m < e
        <5>1. \A n \in m .. e - 1 : n \in Nodes
          BY <1>0, <1>e, <2>1, ConstantsType DEF ListIs, Nodes
        <5> QED
          BY <1>0, <1>e, <2>1, <2>2, <4>2, <5>1 DEF ListIs, Inv, TypeOK
      <4> QED  BY <1>0, <1>e, <4>1, <4>2 DEF ListIs
    <3>2. m \in First .. End' /\ e \in m - 1 .. End' - 1
      BY <1>0, <1>e, <2>1 DEF ListIs
    <3>3. \A n \in Nodes : n \in freed' <=> n < m \/ (e < n /\ n < End')
      BY <1>0, <1>e, <2>1, <2>2, ConstantsType DEF ListIs
    <3>4. head' = IF e < m THEN NULL ELSE e
      BY <1>0, <1>e, <2>1 DEF ListIs
    <3> QED  BY <1>0, <1>e, <2>1, <3>1, <3>2, <3>3, <3>4 DEF ListIs
  <2> QED  BY <1>e, <2>3
<1>3. CASE P_Signal
  <2>1. UNCHANGED <<head, next, freed, mutex, End>>
    BY <1>3 DEF P_Signal, End
  <2> QED  BY <2>1, SameShape DEF ListIs
<1>4. ASSUME NEW c \in Consumers, C_Lock(c) PROVE ListIs(m, h)'
  <2>1. UNCHANGED <<head, next, freed, End>> /\ mutex = NULL
    BY <1>4 DEF C_Lock, End, producer
  <2> QED  BY <2>1, SameShape DEF ListIs
<1>5. ASSUME NEW c \in Consumers, C_Spurious(c) PROVE ListIs(m, h)'
  <2>1. UNCHANGED <<head, next, freed, mutex, End>>
    BY <1>5 DEF C_Spurious, End, producer
  <2> QED  BY <2>1, SameShape DEF ListIs
<1>6. ASSUME NEW c \in Consumers, C_Read(c) PROVE ListIs(m, h)'
  <2>1. UNCHANGED <<head, next, freed, mutex, End>>
    BY <1>6 DEF C_Read, End, producer
  <2> QED  BY <2>1, SameShape DEF ListIs
<1>7. ASSUME NEW c \in Consumers, C_Free(c) PROVE ListIs(m, h - 1)'
  <2>1. /\ head # NULL /\ freed' = freed \cup {head} /\ head' = next[head]
        /\ UNCHANGED <<next, mutex, End>> /\ mutex = c /\ c # NULL
    BY <1>7, ConstantsType DEF C_Free, Inv, Locked, End, producer
  <2>2. head = h /\ m <= h /\ h < End /\ h \in Nodes
    BY <1>0, <2>1 DEF ListIs, Inv, TypeOK
  <2>3. head' = IF h - 1 < m THEN NULL ELSE h - 1
    BY <1>0, <2>1, <2>2 DEF ListIs
  <2>4. \A n \in Nodes : n \in freed' <=> n < m \/ (h - 1 < n /\ n < End)
    BY <1>0, <2>1, <2>2, ConstantsType DEF ListIs
  <2>5. m \in First .. End /\ h - 1 \in m - 1 .. End - 1
    BY <1>0, <2>2 DEF ListIs
  <2>6. \A n \in m .. h - 1 : next[n] = IF n = m THEN NULL ELSE n - 1
    BY DEF ListIs
  <2> QED  BY <2>1, <2>3, <2>4, <2>5, <2>6 DEF ListIs
<1>8. ASSUME NEW c \in Consumers, C_Unlock(c) PROVE ListIs(e, e - 1)'
  <2>1. UNCHANGED <<head, next, freed, End>> /\ head = NULL
    BY <1>8 DEF C_Unlock, End, producer
  <2>2. h = m - 1
    <3>1. CASE h < m
      BY <1>0, <3>1 DEF ListIs
    <3>2. CASE ~(h < m)
      BY <1>0, <2>1, <3>2, ConstantsType DEF ListIs, Inv, TypeOK, Nodes, End
    <3> QED  BY <3>1, <3>2
  <2>3. \A n \in Nodes : n \in freed <=> n < e
    BY <1>0, <1>e, <2>2, ConstantsType DEF ListIs
  <2> QED  BY <1>0, <1>e, <2>1, <2>2, <2>3, ConstantsType DEF ListIs
<1>9. CASE UNCHANGED vars
  <2>1. UNCHANGED <<head, next, freed, mutex, End>>
    BY <1>9 DEF vars, End, producer
  <2> QED  BY <2>1, SameShape DEF ListIs
<1> QED
  BY <1>e, <1>1, <1>2, <1>3, <1>4, <1>5, <1>6, <1>7, <1>8, <1>9
     DEF Next, Producer, Consumer

\* One owner: who frees a node holds the mutex, and is the only one to.
LEMMA OneFrees ==
  ASSUME Inv
  PROVE  /\ mutex = NULL => \A c \in Consumers : cpc[c] # "free"
         /\ \A c, d \in Consumers :
              cpc[c] \in {"read", "free"} /\ cpc[d] \in {"read", "free"} => c = d
BY ConstantsType DEF Inv, Locked

\* The head is not freed: not a node of ListIs.
LEMMA HeadIsLive == Inv => head \notin freed
<1> SUFFICES ASSUME Inv, NEW m \in Int, NEW h \in Int, ListIs(m, h)
             PROVE  head \notin freed
  BY DEF Inv, Shape
<1>1. CASE h < m
  BY <1>1, ConstantsType DEF ListIs, Inv, TypeOK
<1>2. CASE ~(h < m)
  BY <1>2, ConstantsType DEF ListIs, Inv, TypeOK
<1> QED  BY <1>1, <1>2

\* Steps that print nothing, free nothing and begin no free.
LEMMA SamePrinted ==
  ASSUME PrintedIsTaken, UNCHANGED <<printed, freed>>,
         \A n : Taken(n)' <=> Taken(n)
  PROVE  PrintedIsTaken'
BY DEF PrintedIsTaken

LEMMA NextPrinted == Inv /\ [Next]_vars => PrintedIsTaken'
<1> SUFFICES ASSUME Inv, [Next]_vars PROVE PrintedIsTaken'
  OBVIOUS
<1> USE DEF producer, consumer
<1>0. PrintedIsTaken /\ cpc \in [Consumers -> {"lock", "waiting", "read", "free"}]
  BY DEF Inv, TypeOK
<1>1. CASE P_Make
  BY <1>0, <1>1, SamePrinted DEF P_Make, Taken
<1>2. CASE P_Push
  <2>1. \A c \in Consumers : cpc[c] # "free"
    BY <1>2, OneFrees DEF P_Push
  <2> QED
    BY <1>0, <1>2, <2>1, SamePrinted DEF P_Push, Taken
<1>3. CASE P_Signal
  <2>1. \A c \in Consumers : cpc'[c] = "free" <=> cpc[c] = "free"
    BY <1>0, <1>3 DEF P_Signal
  <2> QED
    BY <1>0, <1>3, <2>1, SamePrinted DEF P_Signal, Taken
<1>4. ASSUME NEW c \in Consumers, C_Lock(c) \/ C_Spurious(c) \/ C_Unlock(c)
      PROVE  PrintedIsTaken'
  <2>1. \A d \in Consumers : cpc'[d] = "free" <=> cpc[d] = "free"
    BY <1>0, <1>4 DEF C_Lock, C_Spurious, C_Unlock
  <2>2. UNCHANGED <<head, printed, freed>>
    BY <1>4 DEF C_Lock, C_Spurious, C_Unlock
  <2> QED
    BY <1>0, <2>1, <2>2, SamePrinted DEF Taken
<1>5. ASSUME NEW c \in Consumers, C_Read(c) PROVE PrintedIsTaken'
  <2>1. /\ head \in Nodes /\ printed \in Seq(Nodes)
        /\ printed' = Append(printed, head) /\ head' = head /\ freed' = freed
    BY <1>5 DEF C_Read, Inv, TypeOK
  <2>2. ~Taken(head)
    BY <1>0, <1>5, HeadIsLive, OneFrees DEF C_Read, Taken
  <2>3. \A n : Taken(n)' <=> Taken(n) \/ n = head
    BY <1>0, <1>5, <2>1 DEF C_Read, Taken
  <2>4. /\ Len(printed) \in Nat /\ Len(printed') = Len(printed) + 1
        /\ \A k \in 1 .. Len(printed) : printed'[k] = printed[k]
        /\ printed'[Len(printed) + 1] = head
    BY <2>1, AppendProperties, LenProperties
  <2>5. \A k \in 1 .. Len(printed) : printed[k] # head
    BY <1>0, <2>1, <2>2 DEF PrintedIsTaken
  <2>6. \A n \in Nodes : Taken(n)' <=> \E k \in 1 .. Len(printed)' : printed'[k] = n
    BY <1>0, <2>3, <2>4 DEF PrintedIsTaken
  <2>7. \A k, m \in 1 .. Len(printed)' : printed'[k] = printed'[m] => k = m
    BY <1>0, <2>4, <2>5 DEF PrintedIsTaken
  <2> QED
    BY <2>6, <2>7 DEF PrintedIsTaken
<1>6. ASSUME NEW c \in Consumers, C_Free(c) PROVE PrintedIsTaken'
  <2>1. /\ printed' = printed /\ freed' = freed \cup {head}
    BY <1>6 DEF C_Free, Inv, Locked
  <2>2. \A d \in Consumers : cpc'[d] # "free"
    BY <1>0, <1>6, OneFrees DEF C_Free
  <2>3. \A n : Taken(n)' <=> Taken(n)
    BY <1>6, <2>1, <2>2 DEF Taken, C_Free, Inv, Locked
  <2> QED
    BY <1>0, <2>1, <2>3 DEF PrintedIsTaken
<1>7. CASE UNCHANGED vars
  BY <1>0, <1>7, SamePrinted DEF vars, Taken
<1> QED
  BY <1>1, <1>2, <1>3, <1>4, <1>5, <1>6, <1>7 DEF Next, Producer, Consumer

LEMMA NextInv == Inv /\ [Next]_vars => Inv'
BY NextType, NextLocked, NextShape, NextPrinted DEF Inv

LEMMA InvAlways == Spec => []Inv
BY InitInv, NextInv, PTL DEF Spec
-----------------------------------------------------------------------------
\* The list links nodes, the mutex names its holder (cond_thread.c:13-57).
THEOREM TypeCorrect == Spec => []TypeOK
<1>1. Inv => TypeOK
  BY DEF Inv
<1> QED  BY InvAlways, <1>1, PTL

(* Nothing on the list has been freed, the head or what a node links to    *)
(* (push at cond_thread.c:25-26, take and free at 49-54).                  *)
THEOREM ListIsLive == Spec => []NoDanglingNode
<1>1. Inv => NoDanglingNode
  <2> SUFFICES ASSUME Inv, NEW m \in Int, NEW h \in Int, ListIs(m, h)
               PROVE  NoDanglingNode
    BY DEF Inv, Shape
  <2>0. First \in Nat /\ End \in Int
    BY ConstantsType DEF Inv, TypeOK, End
  <2>1. ASSUME NEW n \in Pushed \ freed PROVE next[n] \notin freed
    <3>1. n \in Nodes /\ n < End /\ ~(n < m \/ (h < n /\ n < End))
      BY <2>1 DEF Pushed, End, ListIs
    <3>2. n \in Int /\ n \in m .. h
      BY <3>1, <2>0, ConstantsType DEF ListIs
    <3>3. CASE n = m
      BY <3>2, <3>3, ConstantsType DEF ListIs, Inv, TypeOK
    <3>4. CASE n # m
      <4>1. next[n] = n - 1 /\ n - 1 \in m .. h
        BY <3>2, <3>4 DEF ListIs
      <4> QED
        BY <4>1, <2>0, <3>1, <3>2, ConstantsType DEF ListIs, Inv, TypeOK, Nodes
    <3> QED  BY <3>3, <3>4
  <2> QED  BY <2>1, HeadIsLive DEF NoDanglingNode
<1> QED  BY InvAlways, <1>1, PTL

(* No two consumers take the same node, and a node is printed before it is *)
(* freed (cond_thread.c:49-54).                                            *)
THEOREM EachNodeOnce == Spec => []PrintedOnce
<1>1. Inv => PrintedOnce
  BY DEF Inv, TypeOK, PrintedIsTaken, Taken, PrintedOnce
<1> QED  BY InvAlways, <1>1, PTL

(* The consumers never all sleep over a list with nodes, but for the       *)
(* moment before the signal (cond_thread.c:29-31, 45-47).                  *)
THEOREM SomebodyAwake == Spec => []NobodySleepsOverWork
<1>1. Init => NobodySleepsOverWork
  BY DEF Init, NobodySleepsOverWork
<1>2. Inv /\ NobodySleepsOverWork /\ [Next]_vars => NobodySleepsOverWork'
  <2> SUFFICES ASSUME Inv, NobodySleepsOverWork, [Next]_vars
               PROVE  NobodySleepsOverWork'
    OBVIOUS
  <2> USE DEF NobodySleepsOverWork, producer, consumer
  <2>0. cpc \in [Consumers -> {"lock", "waiting", "read", "free"}]
    BY DEF Inv, TypeOK
  <2>1. CASE P_Make
    BY <2>1 DEF P_Make
  <2>2. CASE P_Push
    BY <2>2 DEF P_Push
  <2>3. CASE P_Signal
    BY <2>0, <2>3, ListAssumption DEF P_Signal
  <2>4. ASSUME NEW c \in Consumers, C_Lock(c) PROVE NobodySleepsOverWork'
    BY <2>0, <2>4 DEF C_Lock
  <2>5. ASSUME NEW c \in Consumers,
               C_Spurious(c) \/ C_Read(c) \/ C_Free(c) \/ C_Unlock(c)
        PROVE  NobodySleepsOverWork'
    <3>1. cpc'[c] # "waiting"
      BY <2>0, <2>5 DEF C_Spurious, C_Read, C_Free, C_Unlock
    <3> QED  BY <3>1
  <2>6. CASE UNCHANGED vars
    BY <2>6 DEF vars
  <2> QED
    BY <2>1, <2>2, <2>3, <2>4, <2>5, <2>6 DEF Next, Producer, Consumer
<1> QED  BY InvAlways, <1>1, <1>2, PTL DEF Spec
=============================================================================
