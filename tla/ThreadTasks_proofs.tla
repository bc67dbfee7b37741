-------------------------- MODULE ThreadTasks_proofs --------------------------
(***************************************************************************)
(* Theorems about the tasks of ThreadPool, which callers put on the ring   *)
(* and workers take: none is lost, doubled or handed over with a freed     *)
(* arg, and they leave in the order they came.  This holds while the pool  *)
(* is open, and to the end if, as in the program's main, all calls of      *)
(* threadpool_add have returned before threadpool_destroy.                 *)
(***************************************************************************)
EXTENDS ThreadPool_proofs, RingLemmas, SequenceTheorems

-----------------------------------------------------------------------------
(* The ring.                                                               *)

\* The place of the k-th task when the head is at f.
Place(f, k) == (f + k - 1) % queue_max_size

LEMMA PlaceFacts ==
  ASSUME NEW f \in Positions
  PROVE  /\ \A k \in Nat \ {0} : Place(f, k) \in Positions
         /\ \A l, k \in 1 .. queue_max_size : Place(f, l) = Place(f, k) => l = k
         /\ \A k \in Nat \ {0} : Place(RingNext(f), k) = Place(f, k + 1)
         /\ \A k \in Nat : RingNext((f + k) % queue_max_size)
                             = (f + k + 1) % queue_max_size
         /\ \A k \in Nat : Place(f, k + 1) = (f + k) % queue_max_size
         /\ Place(f, 1) = f
<1>0. /\ queue_max_size \in Nat \ {0} /\ f \in Nat /\ f < queue_max_size
      /\ Positions = 0 .. queue_max_size - 1
  BY ConstantsType DEF Positions
<1>1. ASSUME NEW k \in Nat \ {0} PROVE Place(f, k) \in Positions
  <2>1. f + k - 1 \in Nat
    BY <1>0
  <2> QED  BY <1>0, <2>1, DivMod DEF Place
<1>2. ASSUME NEW l \in 1 .. queue_max_size, NEW k \in 1 .. queue_max_size,
             Place(f, l) = Place(f, k)
      PROVE  l = k
  <2>1. f + l - 1 \in Nat /\ f + k - 1 \in Nat /\ k \in Nat /\ l \in Nat
    BY <1>0
  <2>2. ~(k < l)
    <3>1. k < l => (f + k - 1) < (f + l - 1)
                   /\ (f + l - 1) - (f + k - 1) < queue_max_size
      BY <1>0, <2>1
    <3> QED  BY <1>0, <1>2, <2>1, <3>1, ModApart DEF Place
  <2>3. ~(l < k)
    <3>1. l < k => (f + l - 1) < (f + k - 1)
                   /\ (f + k - 1) - (f + l - 1) < queue_max_size
      BY <1>0, <2>1
    <3> QED  BY <1>0, <1>2, <2>1, <3>1, ModApart DEF Place
  <2> QED  BY <2>1, <2>2, <2>3
<1>3. ASSUME NEW k \in Nat \ {0}
      PROVE  Place(RingNext(f), k) = Place(f, k + 1)
  <2>1. f + 1 \in Nat /\ k - 1 \in Nat
    BY <1>0
  <2>2. (((f + 1) % queue_max_size) + (k - 1)) % queue_max_size
          = ((f + 1) + (k - 1)) % queue_max_size
    BY <1>0, <2>1, ModAdd
  <2>3. (f + 1) % queue_max_size \in Int
    BY <1>0, <2>1, DivMod
  <2>4. /\ ((f + 1) % queue_max_size) + (k - 1) = ((f + 1) % queue_max_size) + k - 1
        /\ (f + 1) + (k - 1) = f + (k + 1) - 1
    BY <1>0, <2>3
  <2> QED  BY <2>2, <2>4 DEF Place, RingNext
<1>4. ASSUME NEW k \in Nat
      PROVE  /\ RingNext((f + k) % queue_max_size) = (f + k + 1) % queue_max_size
             /\ Place(f, k + 1) = (f + k) % queue_max_size
  <2>1. (((f + k) % queue_max_size) + 1) % queue_max_size
          = ((f + k) + 1) % queue_max_size
    <3>1. f + k \in Nat /\ 1 \in Nat
      BY <1>0
    <3> QED  BY <1>0, <3>1, ModAdd
  <2>2. f + (k + 1) - 1 = f + k
    BY <1>0
  <2> QED  BY <2>1, <2>2 DEF Place, RingNext
<1>5. Place(f, 1) = f
  <2>1. f + 1 - 1 = f /\ f % queue_max_size = f
    BY <1>0
  <2> QED  BY <2>1 DEF Place
<1> QED  BY <1>1, <1>2, <1>3, <1>4, <1>5
-----------------------------------------------------------------------------
(* Where the tasks are.                                                    *)
InHand(t) == \E w \in Workers : task[w] = t
Waits(t)  == \E c \in Callers : pending[c] = t
OnRing(t) == \E k \in 1 .. queue_size : task_queue[Place(queue_front, k)] = t

\* No call of threadpool_add goes on after the shutdown.
InTime == SharedPool => ~shutdown

\* Nobody is in threadpool_add once threadpool_destroy runs.
Quiet ==
  /\ shutdown <=> dpc # "idle"
  /\ \A c \in Callers : /\ cpc[c] \in {"idle", "blocked", "woken"}
                        /\ dpc # "idle" => cpc[c] = "idle"

RingShape ==
  /\ queue_size <= queue_max_size
  /\ queue_rear = (queue_front + queue_size) % queue_max_size

\* A slot keeps its task after a worker took it, until add frees the arg and
\* fills it again.
SlotsHold ==
  /\ \A p, q \in Positions :
       task_queue[p] \in Tasks /\ task_queue[p] = task_queue[q] => p = q
  /\ \A p \in Positions : task_queue[p] \in Tasks =>
       task_queue[p] \in submitted /\ task_queue[p] \notin freed
  /\ freed \subseteq submitted \cup {Junk}

\* On the ring are tasks that no worker has taken.
RingHolds ==
  \A k \in 1 .. queue_size : \A t : t = task_queue[Place(queue_front, k)] =>
    t \in Tasks /\ t \notin ran /\ ~InHand(t)

\* With the callers that wait are tasks that were in no slot yet.
CallersHold ==
  /\ \A c \in Callers : pending[c] # NULL <=> cpc[c] \in {"blocked", "woken"}
  /\ \A c \in Callers : \A t : t = pending[c] /\ t # NULL =>
       /\ t \in submitted /\ t \notin freed /\ t \notin ran /\ ~InHand(t)
       /\ \A p \in Positions : task_queue[p] # t
  /\ \A c, d \in Callers : pending[c] # NULL /\ pending[c] = pending[d] => c = d

\* A worker between its removal of a task and the end of the callback has
\* that task, alone.
WorkersHold ==
  /\ \A w \in Workers : task[w] # NULL <=> wpc[w] \in {"start", "run"}
  /\ \A w \in Workers : task[w] # NULL => task[w] \in submitted /\ task[w] \notin ran
  /\ \A v, w \in Workers : task[v] # NULL /\ task[v] = task[w] => v = w

NoneLost ==
  /\ ran \subseteq submitted
  /\ \A t \in submitted : Waits(t) \/ OnRing(t) \/ InHand(t) \/ t \in ran

TasksInv == /\ Quiet /\ RingShape /\ SlotsHold /\ RingHolds
            /\ CallersHold /\ WorkersHold /\ NoneLost

LEMMA TaskNames ==
  NULL \notin Tasks /\ Junk \notin Tasks /\ NULL # Junk
BY PoolAssumption

\* What TypeOK says of the variables the tasks are in.
LEMMA TaskTypes ==
  ASSUME TypeOK
  PROVE  /\ task_queue \in [Positions -> Tasks \cup {NULL, Junk}]
         /\ queue_front \in Positions /\ queue_rear \in Positions /\ queue_size \in Nat
         /\ task \in [Workers -> Tasks \cup {NULL, Junk}]
         /\ pending \in [Callers -> Tasks \cup {NULL}]
         /\ wpc \in [Workers -> WorkerPC] /\ cpc \in [Callers -> CallerPC]
         /\ submitted \subseteq Tasks
BY DEF TypeOK

LEMMA InitTasks == Init => TasksInv
<1> SUFFICES ASSUME Init PROVE TasksInv
  OBVIOUS
<1>1. /\ ~shutdown /\ dpc = "idle" /\ queue_size = 0 /\ queue_front = 0 /\ queue_rear = 0
      /\ submitted = {} /\ ran = {} /\ freed = {}
      /\ \A c \in Callers : cpc[c] = "idle" /\ pending[c] = NULL
      /\ \A w \in Workers : task[w] = NULL /\ wpc[w] \notin {"start", "run"}
      /\ \A p \in Positions : task_queue[p] \notin Tasks
  BY TaskNames DEF Init
<1>2. RingShape
  <2>1. queue_max_size \in Nat \ {0}
    BY ConstantsType
  <2>2. (0 + 0) % queue_max_size = 0
    BY <2>1
  <2> QED  BY <1>1, <2>1, <2>2 DEF RingShape
<1>3. Quiet /\ SlotsHold /\ CallersHold /\ WorkersHold /\ NoneLost
  BY <1>1 DEF Quiet, SlotsHold, CallersHold, WorkersHold, NoneLost
<1>4. RingHolds
  BY <1>1 DEF RingHolds
<1> QED  BY <1>2, <1>3, <1>4 DEF TasksInv
-----------------------------------------------------------------------------
(* The steps that move no task.                                            *)
LEMMA OthersTasks ==
  ASSUME TasksInv, Quiet',
         UNCHANGED <<task_queue, queue_front, queue_rear, queue_size, task, pending,
                     submitted, ran, freed>>,
         \A w \in Workers : wpc'[w] \in {"start", "run"} <=> wpc[w] \in {"start", "run"},
         \A c \in Callers : cpc'[c] \in {"blocked", "woken"}
                              <=> cpc[c] \in {"blocked", "woken"}
  PROVE  TasksInv'
<1> USE DEF TasksInv
<1>1. RingShape' /\ SlotsHold'
  BY DEF RingShape, SlotsHold
<1>2. \A t : /\ InHand(t)' <=> InHand(t)
             /\ Waits(t)' <=> Waits(t)
             /\ OnRing(t)' <=> OnRing(t)
  BY DEF InHand, Waits, OnRing
<1>3. RingHolds'
  BY <1>2 DEF RingHolds
<1>4. CallersHold'
  BY <1>2 DEF CallersHold
<1>5. WorkersHold'
  BY DEF WorkersHold
<1>6. NoneLost'
  BY <1>2 DEF NoneLost
<1> QED  BY <1>1, <1>3, <1>4, <1>5, <1>6

\* A task that add may wait with, or put on the ring: a new one, or the one
\* of a caller that has waited.
InAdd(c, t) ==
  /\ t \in Tasks /\ submitted' = submitted \cup {t}
  /\ \/ cpc[c] = "idle" /\ t \notin submitted
     \/ cpc[c] = "woken" /\ t = pending[c]

LEMMA InAddFacts ==
  ASSUME Safe, TasksInv, NEW c \in Callers, NEW t, InAdd(c, t)
  PROVE  /\ t \notin freed /\ t \notin ran /\ ~InHand(t)
         /\ \A p \in Positions : task_queue[p] # t
         /\ \A d \in Callers : pending[d] = t => d = c
         /\ pending[c] \in {NULL, t}
         /\ ~shutdown => dpc = "idle"
<1> USE DEF TasksInv
<1>1. t \in Tasks /\ t # NULL /\ t # Junk
  BY TaskNames DEF InAdd
<1>2. CASE cpc[c] = "idle" /\ t \notin submitted
  <2>1. pending[c] = NULL
    BY <1>2 DEF CallersHold
  <2>2. t \notin freed /\ t \notin ran /\ \A p \in Positions : task_queue[p] # t
    BY <1>1, <1>2 DEF SlotsHold, NoneLost
  <2>3. ~InHand(t) /\ \A d \in Callers : pending[d] # t
    BY <1>1, <1>2 DEF InHand, WorkersHold, CallersHold
  <2> QED  BY <2>1, <2>2, <2>3 DEF Quiet
<1>3. CASE cpc[c] = "woken" /\ t = pending[c]
  BY <1>1, <1>3 DEF CallersHold, Quiet
<1> QED  BY <1>2, <1>3 DEF InAdd

\* The ring is full: the caller waits with its task.
LEMMA WaitTasks ==
  ASSUME Safe, TasksInv, NEW c \in Callers, NEW t, InAdd(c, t),
         WaitForRoom(c, t), UNCHANGED <<shutdown, dpc, task, ran>>
  PROVE  TasksInv'
<1> USE DEF TasksInv
<1>0. /\ ~shutdown /\ cpc' = [cpc EXCEPT ![c] = "blocked"]
      /\ pending' = [pending EXCEPT ![c] = t]
      /\ UNCHANGED <<task_queue, queue_front, queue_rear, queue_size, wpc, freed>>
      /\ submitted' = submitted \cup {t} /\ t \in Tasks /\ t # NULL
  BY TaskNames DEF WaitForRoom, ring, InAdd
<1>1. /\ cpc \in [Callers -> CallerPC] /\ pending \in [Callers -> Tasks \cup {NULL}]
  BY TaskTypes DEF Safe
<1>2. Quiet'
  BY <1>0, <1>1, InAddFacts DEF Quiet
<1>3. RingShape' /\ SlotsHold'
  BY <1>0 DEF RingShape, SlotsHold
<1>4. \A u : /\ InHand(u)' <=> InHand(u)
             /\ OnRing(u)' <=> OnRing(u)
             /\ u # NULL /\ Waits(u) => Waits(u)'
  <2>1. pending[c] = NULL \/ pending[c] = t
    BY InAddFacts
  <2>2. ASSUME NEW u, Waits(u), u # NULL PROVE Waits(u)'
    BY <1>0, <1>1, <2>1, <2>2 DEF Waits
  <2>3. \A u : InHand(u)' <=> InHand(u)
    BY <1>0 DEF InHand
  <2>4. \A u : OnRing(u)' <=> OnRing(u)
    BY <1>0 DEF OnRing
  <2> QED  BY <2>2, <2>3, <2>4
<1>5. RingHolds'
  BY <1>0, <1>4 DEF RingHolds
<1>6. WorkersHold'
  BY <1>0 DEF WorkersHold
<1>7. CallersHold'
  <2>1. \A d \in Callers : pending'[d] = IF d = c THEN t ELSE pending[d]
    BY <1>0, <1>1
  <2>2. \A d \in Callers : cpc'[d] = IF d = c THEN "blocked" ELSE cpc[d]
    BY <1>0, <1>1
  <2>3. \A d \in Callers : pending'[d] # NULL <=> cpc'[d] \in {"blocked", "woken"}
    BY <1>0, <2>1, <2>2 DEF CallersHold
  <2>4. /\ t \notin freed /\ t \notin ran /\ ~InHand(t)
        /\ \A p \in Positions : task_queue[p] # t
        /\ \A d \in Callers : pending[d] = t => d = c
    BY InAddFacts
  <2>5. ASSUME NEW d \in Callers, NEW u, u = pending'[d], u # NULL
        PROVE  /\ u \in submitted' /\ u \notin freed' /\ u \notin ran' /\ ~InHand(u)'
               /\ \A p \in Positions : task_queue'[p] # u
    <3>1. CASE d = c
      BY <1>0, <1>4, <2>1, <2>4, <2>5, <3>1
    <3>2. CASE d # c
      <4>1. u = pending[d]
        BY <2>1, <2>5, <3>2
      <4> QED  BY <1>0, <1>4, <2>5, <4>1 DEF CallersHold
    <3> QED  BY <3>1, <3>2
  <2>6. ASSUME NEW d \in Callers, NEW e \in Callers, pending'[d] # NULL,
               pending'[d] = pending'[e]
        PROVE  d = e
    BY <2>1, <2>4, <2>6 DEF CallersHold
  <2> QED  BY <2>3, <2>5, <2>6 DEF CallersHold
<1>8. NoneLost'
  <2>1. Waits(t)'
    BY <1>0, <1>1 DEF Waits
  <2>2. NULL \notin submitted
    BY TaskNames, TaskTypes DEF Safe
  <2>3. ran' \subseteq submitted'
    BY <1>0 DEF NoneLost
  <2>4. ASSUME NEW u \in submitted'
        PROVE  Waits(u)' \/ OnRing(u)' \/ InHand(u)' \/ u \in ran'
    <3>1. CASE u = t
      BY <2>1, <3>1
    <3>2. CASE u \in submitted
      <4>1. Waits(u) \/ OnRing(u) \/ InHand(u) \/ u \in ran
        BY <3>2 DEF NoneLost
      <4> QED  BY <1>4, <2>2, <3>2, <4>1
    <3> QED  BY <1>0, <3>1, <3>2
  <2> QED  BY <2>3, <2>4 DEF NoneLost
<1> QED  BY <1>2, <1>3, <1>5, <1>6, <1>7, <1>8

\* There is room: the task goes into the slot behind the last one.
LEMMA PutTasks ==
  ASSUME Safe, TasksInv, NEW c \in Callers, NEW t, InAdd(c, t),
         PutTask(c, t), UNCHANGED <<shutdown, dpc, task, ran>>
  PROVE  TasksInv'
<1> USE DEF TasksInv
<1>0. /\ ~shutdown /\ cpc' = [cpc EXCEPT ![c] = "idle"]
      /\ pending' = [pending EXCEPT ![c] = NULL]
      /\ queue_front' = queue_front /\ queue_size' = queue_size + 1
      /\ queue_rear' = RingNext(queue_rear)
      /\ task_queue' = [task_queue EXCEPT ![queue_rear] = t]
      /\ freed' = IF task_queue[queue_rear] = NULL THEN freed
                  ELSE freed \cup {task_queue[queue_rear]}
      /\ submitted' = submitted \cup {t} /\ t \in Tasks /\ t # NULL /\ t # Junk
  BY TaskNames DEF PutTask, FillSlot, InAdd
<1>1. /\ cpc \in [Callers -> CallerPC] /\ pending \in [Callers -> Tasks \cup {NULL}]
      /\ task_queue \in [Positions -> Tasks \cup {NULL, Junk}]
      /\ queue_front \in Positions /\ queue_rear \in Positions /\ queue_size \in Nat
      /\ submitted \subseteq Tasks /\ NULL \notin Tasks
  BY TaskTypes, TaskNames DEF Safe
<1>2. /\ t \notin freed /\ t \notin ran /\ ~InHand(t)
      /\ \A p \in Positions : task_queue[p] # t
      /\ \A d \in Callers : pending[d] = t => d = c
      /\ pending[c] \in {NULL, t} /\ dpc = "idle"
  BY <1>0, InAddFacts
<1>3. /\ queue_size + 1 \in 1 .. queue_max_size
      /\ queue_rear = Place(queue_front, queue_size + 1)
      /\ \A k \in 1 .. queue_size :
           /\ Place(queue_front, k) \in Positions
           /\ Place(queue_front, k) # queue_rear
      /\ queue_rear' = (queue_front + (queue_size + 1)) % queue_max_size
  <2>1. queue_size + 1 \in 1 .. queue_max_size
    BY <1>1, ConstantsType DEF RingShape, PutTask, Full
  <2>2. queue_rear = Place(queue_front, queue_size + 1)
    BY <1>1, PlaceFacts DEF RingShape
  <2>3. \A k \in 1 .. queue_size : k \in Nat \ {0} /\ k \in 1 .. queue_max_size
                                   /\ k # queue_size + 1
    BY <1>1, ConstantsType DEF RingShape
  <2>4. \A k \in 1 .. queue_size : Place(queue_front, k) \in Positions
    BY <1>1, <2>3, PlaceFacts
  <2>5. \A k \in 1 .. queue_size : Place(queue_front, k) # queue_rear
    BY <1>1, <2>1, <2>2, <2>3, PlaceFacts
  <2>6. queue_rear' = (queue_front + queue_size + 1) % queue_max_size
    BY <1>0, <1>1, PlaceFacts DEF RingShape
  <2>7. queue_front + queue_size + 1 = queue_front + (queue_size + 1)
    BY <1>1 DEF Positions
  <2> QED  BY <2>1, <2>2, <2>4, <2>5, <2>6, <2>7
<1>4. \A p \in Positions : task_queue'[p] = IF p = queue_rear THEN t ELSE task_queue[p]
  BY <1>0, <1>1
<1>5. \A d \in Callers : /\ pending'[d] = IF d = c THEN NULL ELSE pending[d]
                         /\ cpc'[d] = IF d = c THEN "idle" ELSE cpc[d]
  BY <1>0, <1>1
<1>6. \A u : u \in freed' => u \in freed \/ u = task_queue[queue_rear]
  BY <1>0
<1>7. WakesOnly
  BY SignalWakes DEF PutTask, Safe, TypeOK
<1>8. Quiet'
  BY <1>0, <1>2, <1>5 DEF Quiet
<1>9. RingShape'
  BY <1>0, <1>1, <1>3 DEF RingShape
<1>10. SlotsHold'
  <2>1. ASSUME NEW p \in Positions, NEW q \in Positions, task_queue'[p] \in Tasks,
               task_queue'[p] = task_queue'[q]
        PROVE  p = q
    BY <1>2, <1>4, <2>1 DEF SlotsHold
  <2>2. ASSUME NEW p \in Positions, task_queue'[p] \in Tasks
        PROVE  task_queue'[p] \in submitted' /\ task_queue'[p] \notin freed'
    <3>1. CASE p = queue_rear
      BY <1>0, <1>1, <1>2, <1>4, <1>6, <3>1
    <3>2. CASE p # queue_rear
      <4>1. task_queue'[p] = task_queue[p]
        BY <1>4, <3>2
      <4>2. task_queue[p] # task_queue[queue_rear]
        BY <1>1, <2>2, <3>2, <4>1 DEF SlotsHold
      <4>3. task_queue[p] \in submitted /\ task_queue[p] \notin freed
        BY <2>2, <4>1 DEF SlotsHold
      <4> QED  BY <1>0, <1>6, <4>1, <4>2, <4>3
    <3> QED  BY <3>1, <3>2
  <2>3. freed' \subseteq submitted' \cup {Junk}
    <3>1. task_queue[queue_rear] # NULL
            => task_queue[queue_rear] \in submitted \cup {Junk}
      BY <1>1 DEF SlotsHold
    <3> QED  BY <1>0, <3>1 DEF SlotsHold
  <2> QED  BY <2>1, <2>2, <2>3 DEF SlotsHold
<1>11. \A u : InHand(u)' <=> InHand(u)
  BY DEF InHand
<1>12. /\ \A k \in 1 .. queue_size :
            task_queue'[Place(queue_front', k)] = task_queue[Place(queue_front, k)]
       /\ task_queue'[Place(queue_front', queue_size + 1)] = t
  BY <1>0, <1>1, <1>3, <1>4
<1>13. 1 .. queue_size' = (1 .. queue_size) \cup {queue_size + 1}
  BY <1>0, <1>1
<1>14. RingHolds'
  <2>1. ASSUME NEW k \in 1 .. queue_size', NEW u, u = task_queue'[Place(queue_front', k)]
        PROVE  u \in Tasks /\ u \notin ran' /\ ~InHand(u)'
    <3>1. CASE k = queue_size + 1
      BY <1>0, <1>2, <1>11, <1>12, <2>1, <3>1
    <3>2. CASE k \in 1 .. queue_size
      <4>1. u = task_queue[Place(queue_front, k)]
        BY <1>12, <2>1, <3>2
      <4> QED  BY <1>11, <3>2, <4>1 DEF RingHolds
    <3> QED  BY <1>13, <3>1, <3>2
  <2> QED  BY <2>1 DEF RingHolds, Place
<1>15. CallersHold'
  <2>1. \A d \in Callers : pending'[d] # NULL <=> cpc'[d] \in {"blocked", "woken"}
    BY <1>5 DEF CallersHold
  <2>2. ASSUME NEW d \in Callers, NEW u, u = pending'[d], u # NULL
        PROVE  /\ u \in submitted' /\ u \notin freed' /\ u \notin ran' /\ ~InHand(u)'
               /\ \A p \in Positions : task_queue'[p] # u
    <3>1. u = pending[d] /\ d # c
      BY <1>5, <2>2
    <3>2. /\ u \in submitted /\ u \notin freed /\ u \notin ran /\ ~InHand(u)
          /\ \A p \in Positions : task_queue[p] # u
      BY <2>2, <3>1 DEF CallersHold
    <3>3. u # t
      BY <1>2, <3>1
    <3> QED  BY <1>0, <1>1, <1>4, <1>6, <1>11, <3>2, <3>3
  <2>3. ASSUME NEW d \in Callers, NEW e \in Callers, pending'[d] # NULL,
               pending'[d] = pending'[e]
        PROVE  d = e
    BY <1>5, <2>3 DEF CallersHold
  <2> QED  BY <2>1, <2>2, <2>3 DEF CallersHold
<1>16. WorkersHold'
  BY <1>0, <1>7 DEF WorkersHold, WakesOnly
<1>17. NoneLost'
  <2>1. ran' \subseteq submitted'
    BY <1>0 DEF NoneLost
  <2>2. OnRing(t)'
    <3>1. queue_size + 1 \in 1 .. queue_size'
      BY <1>13
    <3> QED  BY <1>12, <3>1 DEF OnRing, Place
  <2>3. ASSUME NEW u \in submitted, u # t
        PROVE  Waits(u)' \/ OnRing(u)' \/ InHand(u)' \/ u \in ran'
    <3>1. Waits(u) => Waits(u)'
      BY <1>1, <1>2, <1>5, <2>3 DEF Waits
    <3>2. OnRing(u) => OnRing(u)'
      <4>1. ASSUME OnRing(u) PROVE OnRing(u)'
        <5>1. PICK k \in 1 .. queue_size : task_queue[Place(queue_front, k)] = u
          BY <4>1 DEF OnRing
        <5>2. k \in 1 .. queue_size' /\ task_queue'[Place(queue_front', k)] = u
          BY <1>12, <1>13, <5>1
        <5> QED  BY <5>2 DEF OnRing, Place
      <4> QED  BY <4>1
    <3> QED  BY <1>11, <2>3, <3>1, <3>2 DEF NoneLost
  <2> QED  BY <1>0, <2>1, <2>2, <2>3 DEF NoneLost
<1> QED  BY <1>8, <1>9, <1>10, <1>14, <1>15, <1>16, <1>17

\* The task at the head goes into the hands of a worker.
LEMMA TakeTasks ==
  ASSUME Safe, TasksInv, NEW w \in Workers, W_Take(w)
  PROVE  /\ TasksInv'
         /\ task_queue[queue_front] \in Tasks /\ queue_size > 0
<1> USE DEF TasksInv
<1> DEFINE t == task_queue[queue_front]
<1>0. /\ wpc[w] = "take" /\ wpc' = [wpc EXCEPT ![w] = "start"]
      /\ task' = [task EXCEPT ![w] = t]
      /\ queue_front' = RingNext(queue_front) /\ queue_size' = queue_size - 1
      /\ cpc' = [d \in Callers |-> IF cpc[d] = "blocked" THEN "woken" ELSE cpc[d]]
      /\ UNCHANGED <<shutdown, dpc, task_queue, queue_rear, pending, submitted, ran, freed>>
  BY DEF W_Take, Dequeue, BroadcastNotFull, destroy, history
<1>1. /\ task_queue \in [Positions -> Tasks \cup {NULL, Junk}]
      /\ task \in [Workers -> Tasks \cup {NULL, Junk}] /\ wpc \in [Workers -> WorkerPC]
      /\ queue_front \in Positions /\ queue_rear \in Positions /\ queue_size \in Nat
      /\ submitted \subseteq Tasks /\ NULL \notin Tasks
  BY TaskTypes, TaskNames DEF Safe
<1>2. queue_size > 0 /\ 1 \in 1 .. queue_size
  <2>1. queue_size > 0
    BY <1>0 DEF Safe, Exclusion
  <2> QED  BY <1>1, <2>1
<1>3. t = task_queue[Place(queue_front, 1)]
  BY <1>1, PlaceFacts
<1>4. t \in Tasks /\ t \notin ran /\ ~InHand(t) /\ t \in submitted
  <2>1. t \in Tasks /\ t \notin ran /\ ~InHand(t)
    BY <1>2, <1>3 DEF RingHolds
  <2> QED  BY <1>1, <2>1 DEF SlotsHold
<1>5. \A v \in Workers : /\ task'[v] = IF v = w THEN t ELSE task[v]
                         /\ wpc'[v] = IF v = w THEN "start" ELSE wpc[v]
  BY <1>0, <1>1
<1>6. /\ \A k \in 1 .. queue_size' :
           /\ k + 1 \in 1 .. queue_size
           /\ Place(queue_front', k) = Place(queue_front, k + 1)
      /\ \A k \in 1 .. queue_size : k = 1 \/ k - 1 \in 1 .. queue_size'
      /\ \A k \in 1 .. queue_size : Place(queue_front, k) \in Positions
      /\ \A k \in 1 .. queue_size : k # 1 => Place(queue_front, k) # queue_front
  <2>1. \A k \in 1 .. queue_size' : k + 1 \in 1 .. queue_size /\ k \in Nat \ {0}
    BY <1>0, <1>1, <1>2
  <2>2. \A k \in 1 .. queue_size' : Place(queue_front', k) = Place(queue_front, k + 1)
    BY <1>0, <1>1, <2>1, PlaceFacts
  <2>3. \A k \in 1 .. queue_size : k = 1 \/ k - 1 \in 1 .. queue_size'
    BY <1>0, <1>1, <1>2
  <2>4. \A k \in 1 .. queue_size : k \in Nat \ {0} /\ k \in 1 .. queue_max_size
    BY <1>1, ConstantsType DEF RingShape
  <2>5. \A k \in 1 .. queue_size : Place(queue_front, k) \in Positions
    BY <1>1, <2>4, PlaceFacts
  <2>6. \A k \in 1 .. queue_size : k # 1 => Place(queue_front, k) # queue_front
    BY <1>1, <1>2, <2>4, PlaceFacts
  <2> QED  BY <2>1, <2>2, <2>3, <2>5, <2>6
<1>7. Quiet'
  BY <1>0 DEF Quiet
<1>8. RingShape'
  <2>1. queue_size' <= queue_max_size
    BY <1>0, <1>1, ConstantsType DEF RingShape
  <2>2. (queue_front' + queue_size') % queue_max_size = queue_rear
    <3>1. queue_front + 1 \in Nat /\ queue_size - 1 \in Nat /\ queue_max_size \in Nat \ {0}
      BY <1>1, <1>2, ConstantsType DEF Positions
    <3>2. (((queue_front + 1) % queue_max_size) + (queue_size - 1)) % queue_max_size
            = ((queue_front + 1) + (queue_size - 1)) % queue_max_size
      BY <3>1, ModAdd
    <3>3. (queue_front + 1) + (queue_size - 1) = queue_front + queue_size
      BY <1>1 DEF Positions
    <3> QED  BY <1>0, <3>2, <3>3 DEF RingShape, RingNext
  <2> QED  BY <1>0, <2>1, <2>2 DEF RingShape
<1>9. SlotsHold'
  BY <1>0 DEF SlotsHold
<1>10. \A u : InHand(u)' => InHand(u) \/ u = t
  BY <1>5 DEF InHand
<1>11. \A u : u # NULL /\ (InHand(u) \/ u = t) => InHand(u)'
  <2>1. task[w] = NULL
    BY <1>0 DEF WorkersHold
  <2> QED  BY <1>5, <2>1 DEF InHand
<1>12. RingHolds'
  <2>1. ASSUME NEW k \in 1 .. queue_size', NEW u, u = task_queue'[Place(queue_front', k)]
        PROVE  u \in Tasks /\ u \notin ran' /\ ~InHand(u)'
    <3>1. k + 1 \in 1 .. queue_size /\ u = task_queue[Place(queue_front, k + 1)]
      BY <1>0, <1>6, <2>1
    <3>2. u \in Tasks /\ u \notin ran /\ ~InHand(u)
      BY <3>1 DEF RingHolds
    <3>3. k + 1 # 1
      BY <1>0, <1>1
    <3>4. u # t
      BY <1>1, <1>6, <3>1, <3>2, <3>3 DEF SlotsHold
    <3> QED  BY <1>0, <1>10, <3>2, <3>4
  <2> QED  BY <2>1 DEF RingHolds, Place
<1>13. CallersHold'
  <2>1. \A d \in Callers : pending'[d] # NULL <=> cpc'[d] \in {"blocked", "woken"}
    BY <1>0 DEF CallersHold
  <2>2. ASSUME NEW d \in Callers, NEW u, u = pending'[d], u # NULL
        PROVE  /\ u \in submitted' /\ u \notin freed' /\ u \notin ran' /\ ~InHand(u)'
               /\ \A p \in Positions : task_queue'[p] # u
    <3>1. /\ u \in submitted /\ u \notin freed /\ u \notin ran /\ ~InHand(u)
          /\ \A p \in Positions : task_queue[p] # u
      BY <1>0, <2>2 DEF CallersHold
    <3>2. u # t
      BY <1>1, <3>1
    <3> QED  BY <1>0, <1>10, <3>1, <3>2
  <2>3. ASSUME NEW d \in Callers, NEW e \in Callers, pending'[d] # NULL,
               pending'[d] = pending'[e]
        PROVE  d = e
    BY <1>0, <2>3 DEF CallersHold
  <2> QED  BY <2>1, <2>2, <2>3 DEF CallersHold
<1>14. WorkersHold'
  <2>1. \A v \in Workers : task'[v] # NULL <=> wpc'[v] \in {"start", "run"}
    BY <1>1, <1>4, <1>5 DEF WorkersHold
  <2>2. \A v \in Workers : task'[v] # NULL => task'[v] \in submitted' /\ task'[v] \notin ran'
    BY <1>0, <1>4, <1>5 DEF WorkersHold
  <2>3. ASSUME NEW v \in Workers, NEW x \in Workers, task'[v] # NULL, task'[v] = task'[x]
        PROVE  v = x
    BY <1>4, <1>5, <2>3 DEF WorkersHold, InHand
  <2> QED  BY <2>1, <2>2, <2>3 DEF WorkersHold
<1>15. NoneLost'
  <2>1. ran' \subseteq submitted'
    BY <1>0 DEF NoneLost
  <2>2. ASSUME NEW u \in submitted
        PROVE  Waits(u)' \/ OnRing(u)' \/ InHand(u)' \/ u \in ran'
    <3>1. Waits(u) => Waits(u)'
      BY <1>0 DEF Waits
    <3>2. OnRing(u) => OnRing(u)' \/ u = t
      <4>1. ASSUME OnRing(u) PROVE OnRing(u)' \/ u = t
        <5>1. PICK k \in 1 .. queue_size : task_queue[Place(queue_front, k)] = u
          BY <4>1 DEF OnRing
        <5>2. CASE k = 1
          BY <1>3, <5>1, <5>2
        <5>3. CASE k # 1
          <6>1. k - 1 \in 1 .. queue_size' /\ k - 1 + 1 = k
            BY <1>1, <1>6, <5>3
          <6>2. task_queue'[Place(queue_front', k - 1)] = u
            BY <1>0, <1>6, <5>1, <6>1
          <6> QED  BY <6>1, <6>2 DEF OnRing, Place
        <5> QED  BY <5>2, <5>3
      <4> QED  BY <4>1
    <3>3. u # NULL
      BY <1>1
    <3> QED  BY <1>0, <1>11, <2>2, <3>1, <3>2, <3>3 DEF NoneLost
  <2> QED  BY <1>0, <2>1, <2>2 DEF NoneLost
<1> QED  BY <1>2, <1>4, <1>7, <1>8, <1>9, <1>12, <1>13, <1>14, <1>15

\* The callback returns.
LEMMA EndTasks ==
  ASSUME Safe, TasksInv, NEW w \in Workers, W_End(w)
  PROVE  TasksInv'
<1> USE DEF TasksInv
<1>0. /\ wpc[w] = "run" /\ wpc' = [wpc EXCEPT ![w] = "lock"]
      /\ task' = [task EXCEPT ![w] = NULL] /\ ran' = ran \cup {task[w]}
      /\ UNCHANGED <<shutdown, dpc, task_queue, queue_front, queue_rear, queue_size,
                     cpc, pending, submitted, freed>>
  BY DEF W_End, ring, caller, destroy
<1>1. /\ task \in [Workers -> Tasks \cup {NULL, Junk}] /\ wpc \in [Workers -> WorkerPC]
      /\ submitted \subseteq Tasks /\ NULL \notin Tasks
  BY TaskTypes, TaskNames DEF Safe
<1>2. task[w] # NULL /\ task[w] \in submitted
  BY <1>0 DEF WorkersHold
<1>3. \A v \in Workers : /\ task'[v] = IF v = w THEN NULL ELSE task[v]
                         /\ wpc'[v] = IF v = w THEN "lock" ELSE wpc[v]
  BY <1>0, <1>1
<1>4. /\ \A u : u # NULL /\ ~InHand(u) => ~InHand(u)' /\ u # task[w]
      /\ \A u : u # NULL /\ InHand(u) => InHand(u)' \/ u = task[w]
  BY <1>3 DEF InHand
<1>5. Quiet' /\ RingShape' /\ SlotsHold'
  BY <1>0 DEF Quiet, RingShape, SlotsHold
<1>6. RingHolds'
  <2>1. ASSUME NEW k \in 1 .. queue_size, NEW u, u = task_queue[Place(queue_front, k)]
        PROVE  u \in Tasks /\ u \notin ran' /\ ~InHand(u)'
    <3>1. u \in Tasks /\ u \notin ran /\ ~InHand(u)
      BY <2>1 DEF RingHolds
    <3> QED  BY <1>0, <1>1, <1>4, <3>1
  <2> QED  BY <1>0, <2>1 DEF RingHolds, Place
<1>7. CallersHold'
  <2>1. ASSUME NEW d \in Callers, NEW u, u = pending[d], u # NULL
        PROVE  /\ u \in submitted /\ u \notin freed /\ u \notin ran' /\ ~InHand(u)'
               /\ \A p \in Positions : task_queue[p] # u
    <3>1. /\ u \in submitted /\ u \notin freed /\ u \notin ran /\ ~InHand(u)
          /\ \A p \in Positions : task_queue[p] # u
      BY <2>1 DEF CallersHold
    <3> QED  BY <1>0, <1>4, <2>1, <3>1
  <2> QED  BY <1>0, <2>1 DEF CallersHold
<1>8. WorkersHold'
  <2>1. \A v \in Workers : task'[v] # NULL <=> wpc'[v] \in {"start", "run"}
    BY <1>3 DEF WorkersHold
  <2>2. \A v \in Workers : task'[v] # NULL => task'[v] \in submitted' /\ task'[v] \notin ran'
    BY <1>0, <1>2, <1>3 DEF WorkersHold
  <2>3. ASSUME NEW v \in Workers, NEW x \in Workers, task'[v] # NULL, task'[v] = task'[x]
        PROVE  v = x
    BY <1>3, <2>3 DEF WorkersHold
  <2> QED  BY <2>1, <2>2, <2>3 DEF WorkersHold
<1>9. NoneLost'
  <2>1. ran' \subseteq submitted'
    BY <1>0, <1>2 DEF NoneLost
  <2>2. ASSUME NEW u \in submitted
        PROVE  Waits(u)' \/ OnRing(u)' \/ InHand(u)' \/ u \in ran'
    <3>1. (Waits(u) => Waits(u)') /\ (OnRing(u) => OnRing(u)')
      BY <1>0 DEF Waits, OnRing
    <3>2. u # NULL
      BY <1>1
    <3> QED  BY <1>0, <1>4, <2>2, <3>1, <3>2 DEF NoneLost
  <2> QED  BY <1>0, <2>1, <2>2 DEF NoneLost
<1> QED  BY <1>5, <1>6, <1>7, <1>8, <1>9

-----------------------------------------------------------------------------
(* Every step.                                                             *)
LEMMA WakesTasks ==
  ASSUME TasksInv, Quiet', WakesOnly,
         UNCHANGED <<task_queue, queue_front, queue_rear, queue_size, task, pending,
                     submitted, ran, freed, cpc>>
  PROVE  TasksInv'
BY OthersTasks DEF WakesOnly

LEMMA WorkerTasks ==
  ASSUME Safe, TasksInv, NEW w \in Workers, WorkerStep(w) \/ SpuriousWorker(w)
  PROVE  TasksInv'
<1>1. CASE W_Take(w)
  BY <1>1, TakeTasks
<1>2. CASE W_End(w)
  BY <1>2, EndTasks
<1>3. CASE ~W_Take(w) /\ ~W_End(w)
  <2>1. UNCHANGED <<shutdown, dpc, cpc, task_queue, queue_front, queue_rear, queue_size,
                    task, pending, submitted, ran, freed>>
    BY <1>3 DEF WorkerStep, SpuriousWorker, W_Lock, W_Wait, W_Retire, W_Wake, W_Begin,
       W_Exit, ring, caller, destroy, history
  <2>2. wpc \in [Workers -> WorkerPC]
    BY TaskTypes DEF Safe
  <2>3. \A v \in Workers : wpc'[v] \in {"start", "run"} <=> wpc[v] \in {"start", "run"}
    BY <1>3, <2>2 DEF WorkerStep, SpuriousWorker, W_Lock, W_Wait, W_Retire, W_Wake,
       W_Begin, W_Exit, Decide
  <2>4. Quiet'
    BY <2>1 DEF TasksInv, Quiet
  <2> QED  BY <2>1, <2>3, <2>4, OthersTasks
<1> QED  BY <1>1, <1>2, <1>3

\* No call goes through after the shutdown, as none is under way by then.
LEMMA NoLateCall ==
  ASSUME TasksInv, NEW c \in Callers
  PROVE  /\ cpc[c] \notin {"late", "commit"}
         /\ shutdown => cpc[c] = "idle" /\ dpc # "idle"
BY DEF TasksInv, Quiet

LEMMA CallerTasks ==
  ASSUME InTime', Safe, TasksInv, NEW c \in Callers,
         AddStep(c) \/ SpuriousCaller(c)
  PROVE  TasksInv'
<1>1. ASSUME NEW t, InAdd(c, t), AddSection(c, t), ~shutdown PROVE TasksInv'
  <2>1. UNCHANGED <<shutdown, dpc, task, ran>>
    BY <1>1 DEF AddSection, destroy
  <2>2. CASE WaitForRoom(c, t)
    BY <1>1, <2>1, <2>2, WaitTasks
  <2>3. CASE PutTask(c, t)
    BY <1>1, <2>1, <2>3, PutTasks
  <2> QED  BY <1>1, <2>2, <2>3 DEF AddSection, FallThrough
<1>2. ASSUME NEW t \in Tasks, Add(c, t) PROVE TasksInv'
  <2>1. ~shutdown
    <3>1. shutdown' = shutdown
      BY <1>2 DEF Add, AddSection
    <3> QED  BY <1>2, <3>1, NoLateCall DEF Add, InTime
  <2> QED  BY <1>1, <1>2, <2>1 DEF Add, InAdd
<1>3. CASE AddRetry(c)
  <2>1. pending[c] \in Tasks /\ pending[c] \in submitted
    <3>1. pending[c] # NULL
      BY <1>3 DEF AddRetry, TasksInv, CallersHold
    <3>2. pending[c] \in submitted
      BY <3>1 DEF TasksInv, CallersHold
    <3> QED  BY <3>2, TaskTypes DEF Safe
  <2>2. InAdd(c, pending[c])
    BY <1>3, <2>1 DEF AddRetry, InAdd
  <2>3. ~shutdown
    BY <1>3, NoLateCall DEF AddRetry
  <2> QED  BY <1>1, <1>3, <2>2, <2>3 DEF AddRetry
<1>4. CASE LateFill(c) \/ LateCommit(c)
  BY <1>4, NoLateCall DEF LateFill, LateCommit
<1>5. CASE SpuriousCaller(c)
  <2>1. cpc[c] = "blocked" /\ cpc' = [cpc EXCEPT ![c] = "woken"]
    BY <1>5 DEF SpuriousCaller
  <2>2. UNCHANGED <<shutdown, dpc, wpc, task_queue, queue_front, queue_rear, queue_size,
                    task, pending, submitted, ran, freed>>
    BY <1>5 DEF SpuriousCaller, ring, worker, destroy, history
  <2>3. cpc \in [Callers -> CallerPC]
    BY TaskTypes DEF Safe
  <2>4. Quiet'
    BY <2>1, <2>2, <2>3 DEF TasksInv, Quiet
  <2>5. \A d \in Callers : cpc'[d] \in {"blocked", "woken"}
                             <=> cpc[d] \in {"blocked", "woken"}
    BY <2>1, <2>3
  <2> QED  BY <2>2, <2>4, <2>5, OthersTasks
<1> QED  BY <1>2, <1>3, <1>4, <1>5 DEF AddStep

LEMMA ManagerTasks ==
  ASSUME Safe, TasksInv, ManagerStep
  PROVE  TasksInv'
<1>1. UNCHANGED <<shutdown, dpc, cpc, task_queue, queue_front, queue_rear, queue_size,
                  task, pending, submitted, ran, freed>>
  BY DEF ManagerStep, M_Test, M_Snapshot, M_Busy, M_Grow, M_GrowSlot, M_GrowEnd,
     M_Shrink, M_Signal, ring, worker, caller, destroy, history
<1>2. Quiet'
  BY <1>1 DEF TasksInv, Quiet
<1>3. wpc \in [Workers -> WorkerPC]
  BY TaskTypes DEF Safe
<1>4. CASE SignalNotEmpty
  BY <1>1, <1>2, <1>3, <1>4, SignalWakes, WakesTasks
<1>5. CASE wpc' = wpc
  BY <1>1, <1>2, <1>5, OthersTasks
<1>6. CASE M_GrowSlot /\ StartWorker(i)
  <2>1. PICK w \in Fresh(i) : wpc' = [wpc EXCEPT ![w] = "lock"]
    BY <1>6 DEF StartWorker
  <2>2. \A v \in Workers : wpc'[v] \in {"start", "run"} <=> wpc[v] \in {"start", "run"}
    BY <1>3, <2>1 DEF Fresh, Exited
  <2> QED  BY <1>1, <1>2, <2>2, OthersTasks
<1> QED
  BY <1>4, <1>5, <1>6 DEF ManagerStep, M_Test, M_Snapshot, M_Busy, M_Grow, M_GrowSlot,
     M_GrowEnd, M_Shrink, M_Signal, worker

LEMMA DestroyTasks ==
  ASSUME InTime', Safe, TasksInv, DestroyStep
  PROVE  TasksInv'
<1>1. UNCHANGED <<cpc, task_queue, queue_front, queue_rear, queue_size, task, pending,
                  submitted, ran, freed>>
  BY DEF DestroyStep, D_Shutdown, D_JoinManager, D_Broadcast, D_Join, D_Free,
     ring, worker, caller, history
<1>2. Quiet'
  <2>1. CASE D_Shutdown
    BY <1>1, <2>1 DEF D_Shutdown, InTime, TasksInv, Quiet
  <2>2. CASE ~D_Shutdown
    <3>1. shutdown' = shutdown /\ dpc # "idle" /\ dpc' # "idle"
      BY <2>2 DEF DestroyStep, D_JoinManager, D_Broadcast, D_Join, D_Free
    <3> QED  BY <1>1, <3>1 DEF TasksInv, Quiet
  <2> QED  BY <2>1, <2>2
<1>3. WakesOnly
  <2>1. wpc \in [Workers -> WorkerPC]
    BY TaskTypes DEF Safe
  <2>2. CASE BroadcastNotEmpty
    BY <2>1, <2>2, SignalWakes
  <2>3. CASE wpc' = wpc
    BY <2>1, <2>3 DEF WakesOnly
  <2> QED
    BY <2>2, <2>3 DEF DestroyStep, D_Shutdown, D_JoinManager, D_Broadcast, D_Join,
       D_Free, worker
<1> QED  BY <1>1, <1>2, <1>3, WakesTasks

LEMMA NextTasks ==
  ASSUME InTime', Safe, TasksInv, [Next]_vars
  PROVE  TasksInv'
<1>1. CASE Next
  BY <1>1, WorkerTasks, CallerTasks, ManagerTasks, DestroyTasks DEF Next
<1>2. CASE UNCHANGED vars
  <2>1. UNCHANGED <<shutdown, dpc, cpc, wpc, task_queue, queue_front, queue_rear,
                    queue_size, task, pending, submitted, ran, freed>>
    BY <1>2 DEF vars, ring, worker, caller, destroy, history
  <2>2. Quiet'
    BY <2>1 DEF TasksInv, Quiet
  <2> QED  BY <2>1, <2>2, OthersTasks
<1> QED  BY <1>1, <1>2

LEMMA TasksAlways == Spec => [](Safe /\ (InTime => TasksInv))
<1>1. Safe /\ (InTime => TasksInv) /\ [Next]_vars => (InTime => TasksInv)'
  <2> SUFFICES ASSUME Safe, InTime => TasksInv, [Next]_vars, InTime' PROVE TasksInv'
    OBVIOUS
  <2>1. InTime
    BY ShutdownForGood DEF InTime
  <2> QED  BY <2>1, NextTasks
<1> QED  BY InitSafe, NextSafe, InitTasks, <1>1, PTL DEF Spec

\* Main adds before it destroys.
LEMMA AlwaysInTime ==
  ASSUME ~SharedPool
  PROVE  InTime
BY DEF InTime

(* threadpool_add frees the arg of the slot it is about to fill, and no    *)
(* other slot holds that arg: no slot ever holds a freed one               *)
(* (threadpool.c:142-148), while main adds before it destroys.             *)
THEOREM NoFreedArg ==
  ASSUME ~SharedPool
  PROVE  Spec => []NoDanglingSlot
<1>1. Safe /\ (InTime => TasksInv) => NoDanglingSlot
  BY AlwaysInTime DEF TasksInv, SlotsHold, NoDanglingSlot
<1> QED  BY TasksAlways, <1>1, PTL
-----------------------------------------------------------------------------
(* One place for each task.                                                *)
LEMMA WindowPlace ==
  \A k \in 1 .. queue_size : Window[k] = task_queue[Place(queue_front, k)]
BY DEF Window, Place

\* At most one element of S satisfies a predicate: its set of those has the
\* size 1 or 0.
LEMMA OneOrNone ==
  ASSUME NEW A, \A x, y \in A : x = y
  PROVE  /\ A = {} => Cardinality(A) = 0
         /\ A # {} => Cardinality(A) = 1
<1>1. CASE A = {}
  BY <1>1, FS_EmptySet
<1>2. CASE A # {}
  <2>1. PICK x \in A : TRUE
    BY <1>2
  <2>2. A = {x}
    BY <2>1
  <2> QED  BY <1>2, <2>2, FS_Singleton
<1> QED  BY <1>1, <1>2

LEMMA TasksPlaced ==
  ASSUME Safe, TasksInv
  PROVE  OnePlace
<1> USE DEF TasksInv
<1> SUFFICES ASSUME NEW t \in Tasks
             PROVE  Cardinality({c \in Callers : pending[c] = t})
                      + Cardinality({k \in 1 .. queue_size : Window[k] = t})
                      + Cardinality({w \in Workers : task[w] = t})
                      + Cardinality({t} \cap ran) = Cardinality({t} \cap submitted)
  BY DEF OnePlace
<1> DEFINE A == {c \in Callers : pending[c] = t}
           B == {k \in 1 .. queue_size : Window[k] = t}
           C == {w \in Workers : task[w] = t}
           D == {t} \cap ran
           E == {t} \cap submitted
<1>1. t # NULL
  BY TaskNames
<1>2. /\ A # {} <=> Waits(t)
      /\ B # {} <=> OnRing(t)
      /\ C # {} <=> InHand(t)
      /\ D # {} <=> t \in ran
      /\ E # {} <=> t \in submitted
  BY WindowPlace DEF Waits, OnRing, InHand
<1>3. \A x, y \in A : x = y
  BY <1>1 DEF CallersHold
<1>4. \A x, y \in B : x = y
  <2> SUFFICES ASSUME NEW x \in B, NEW y \in B PROVE x = y
    OBVIOUS
  <2>1. \A k \in 1 .. queue_size : k \in 1 .. queue_max_size /\ k \in Nat \ {0}
    BY ConstantsType, TaskTypes DEF RingShape, Safe
  <2>2. /\ x \in 1 .. queue_max_size /\ y \in 1 .. queue_max_size
        /\ Place(queue_front, x) \in Positions /\ Place(queue_front, y) \in Positions
    BY <2>1, PlaceFacts, TaskTypes DEF Safe
  <2>3. /\ task_queue[Place(queue_front, x)] = t
        /\ task_queue[Place(queue_front, y)] = t
    BY WindowPlace
  <2>4. Place(queue_front, x) = Place(queue_front, y)
    BY <2>2, <2>3 DEF SlotsHold
  <2> QED  BY <2>2, <2>4, PlaceFacts, TaskTypes DEF Safe
<1>5. \A x, y \in C : x = y
  BY <1>1 DEF WorkersHold
<1>6. Waits(t) => t \in submitted /\ t \notin ran /\ ~InHand(t) /\ ~OnRing(t)
  <2>1. ASSUME Waits(t) PROVE t \in submitted /\ t \notin ran /\ ~InHand(t)
                              /\ \A p \in Positions : task_queue[p] # t
    BY <1>1, <2>1 DEF CallersHold, Waits
  <2>2. \A k \in 1 .. queue_size : Place(queue_front, k) \in Positions
    <3>1. \A k \in 1 .. queue_size : k \in Nat \ {0}
      BY TaskTypes DEF Safe
    <3> QED  BY <3>1, PlaceFacts, TaskTypes DEF Safe
  <2>3. OnRing(t) => \E p \in Positions : task_queue[p] = t
    BY <2>2 DEF OnRing
  <2> QED  BY <2>1, <2>3
<1>7. OnRing(t) => t \in submitted /\ t \notin ran /\ ~InHand(t)
  <2>1. OnRing(t) => t \notin ran /\ ~InHand(t)
    BY DEF OnRing, RingHolds
  <2>2. \A k \in 1 .. queue_size : Place(queue_front, k) \in Positions
    <3>1. \A k \in 1 .. queue_size : k \in Nat \ {0}
      BY TaskTypes DEF Safe
    <3> QED  BY <3>1, PlaceFacts, TaskTypes DEF Safe
  <2>3. OnRing(t) => t \in submitted
    BY <2>2 DEF OnRing, SlotsHold
  <2> QED  BY <2>1, <2>3
<1>8. InHand(t) => t \in submitted /\ t \notin ran
  BY <1>1 DEF InHand, WorkersHold
<1>9. t \in ran => t \in submitted
  BY DEF NoneLost
<1>10. t \in submitted => Waits(t) \/ OnRing(t) \/ InHand(t) \/ t \in ran
  BY DEF NoneLost
<1> HIDE DEF A, B, C, D, E
<1>11. /\ Cardinality(A) = IF Waits(t) THEN 1 ELSE 0
       /\ Cardinality(B) = IF OnRing(t) THEN 1 ELSE 0
       /\ Cardinality(C) = IF InHand(t) THEN 1 ELSE 0
  BY <1>2, <1>3, <1>4, <1>5, OneOrNone
<1>12. /\ Cardinality(D) = IF t \in ran THEN 1 ELSE 0
       /\ Cardinality(E) = IF t \in submitted THEN 1 ELSE 0
  <2>1. (\A x, y \in D : x = y) /\ (\A x, y \in E : x = y)
    BY DEF D, E
  <2> QED  BY <1>2, <2>1, OneOrNone
<1>13. Cardinality(A) + Cardinality(B) + Cardinality(C) + Cardinality(D) = Cardinality(E)
  <2>1. CASE Waits(t)
    BY <1>6, <1>11, <1>12, <2>1
  <2>2. CASE ~Waits(t) /\ OnRing(t)
    BY <1>7, <1>11, <1>12, <2>2
  <2>3. CASE ~Waits(t) /\ ~OnRing(t) /\ InHand(t)
    BY <1>8, <1>11, <1>12, <2>3
  <2>4. CASE ~Waits(t) /\ ~OnRing(t) /\ ~InHand(t)
    BY <1>9, <1>10, <1>11, <1>12, <2>4
  <2> QED  BY <2>1, <2>2, <2>3, <2>4
<1> QED  BY <1>13 DEF A, B, C, D, E

(* No task handed to threadpool_add is lost or doubled: it waits with its  *)
(* caller, or is once on the ring, or in the hands of one worker, or has   *)
(* run (threadpool.c:125-155, 196-221), while main adds before it destroys.*)
THEOREM NoTaskLost ==
  ASSUME ~SharedPool
  PROVE  Spec => []OnePlace
<1>1. Safe /\ (InTime => TasksInv) => OnePlace
  BY TasksPlaced, AlwaysInTime
<1> QED  BY TasksAlways, <1>1, PTL

(* The same of every pool until threadpool_destroy sets the flag, however  *)
(* many threads add: no task is lost or doubled, and no slot holds a freed *)
(* arg (threadpool.c:115-155, 196-221).                                    *)
THEOREM OpenPoolKeepsTasks == Spec => [](~shutdown => OnePlace /\ NoDanglingSlot)
<1>1. Safe /\ (InTime => TasksInv) => (~shutdown => OnePlace /\ NoDanglingSlot)
  BY TasksPlaced DEF InTime, TasksInv, SlotsHold, NoDanglingSlot
<1> QED  BY TasksAlways, <1>1, PTL
-----------------------------------------------------------------------------
(* The ring implements the line of TaskFifo.                               *)

\* The steps that put a task on the ring, take it off, or end a callback.
PutStep == \E c \in Callers, t \in Tasks :
             InAdd(c, t) /\ PutTask(c, t) /\ UNCHANGED <<task, ran>>

Still == UNCHANGED <<task_queue, queue_front, queue_size, task, ran>>

LEMMA WhichStep ==
  ASSUME Safe, TasksInv, [Next]_vars
  PROVE  Still \/ PutStep \/ \E w \in Workers : W_Take(w) \/ W_End(w)
<1>1. ASSUME NEW c \in Callers, AddStep(c) \/ SpuriousCaller(c) PROVE Still \/ PutStep
  <2>1. ASSUME NEW t, InAdd(c, t), AddSection(c, t) PROVE Still \/ PutStep
    <3>1. t \in Tasks
      BY <2>1 DEF InAdd
    <3>2. CASE PutTask(c, t)
      BY <2>1, <3>1, <3>2 DEF AddSection, PutStep
    <3>3. CASE ~PutTask(c, t)
      BY <2>1, <3>3 DEF AddSection, WaitForRoom, FallThrough, ring, Still
    <3> QED  BY <3>2, <3>3
  <2>2. ASSUME NEW t \in Tasks, Add(c, t) PROVE Still \/ PutStep
    BY <2>1, <2>2 DEF Add, InAdd
  <2>3. CASE AddRetry(c)
    <3>1. pending[c] \in Tasks /\ pending[c] \in submitted
      <4>1. pending[c] # NULL
        BY <2>3 DEF AddRetry, TasksInv, CallersHold
      <4>2. pending[c] \in submitted
        BY <4>1 DEF TasksInv, CallersHold
      <4> QED  BY <4>2, TaskTypes DEF Safe
    <3>2. InAdd(c, pending[c])
      BY <2>3, <3>1 DEF AddRetry, InAdd
    <3> QED  BY <2>1, <2>3, <3>2 DEF AddRetry
  <2>4. CASE LateFill(c) \/ LateCommit(c)
    BY <2>4, NoLateCall DEF LateFill, LateCommit
  <2>5. CASE SpuriousCaller(c)
    BY <2>5 DEF SpuriousCaller, ring, worker, history, Still
  <2> QED  BY <1>1, <2>2, <2>3, <2>4, <2>5 DEF AddStep
<1>2. ASSUME NEW w \in Workers, WorkerStep(w) \/ SpuriousWorker(w)
      PROVE  Still \/ W_Take(w) \/ W_End(w)
  BY <1>2 DEF WorkerStep, SpuriousWorker, W_Lock, W_Wait, W_Retire, W_Wake, W_Begin,
     W_Exit, ring, history, Still
<1>3. ManagerStep => Still
  BY DEF ManagerStep, M_Test, M_Snapshot, M_Busy, M_Grow, M_GrowSlot, M_GrowEnd,
     M_Shrink, M_Signal, ring, worker, history, Still
<1>4. DestroyStep => Still
  BY DEF DestroyStep, D_Shutdown, D_JoinManager, D_Broadcast, D_Join, D_Free,
     ring, worker, history, Still
<1>5. UNCHANGED vars => Still
  BY DEF vars, ring, worker, history, Still
<1> QED  BY <1>1, <1>2, <1>3, <1>4, <1>5 DEF Next

\* The tasks a worker has taken.
LEMMA TakenByHand ==
  ASSUME WorkersHold
  PROVE  \A u : u \in ran \cup Held <=> u \in ran \/ (u # NULL /\ InHand(u))
BY DEF WorkersHold, Held, InHand

LEMMA TakenByHandNext ==
  ASSUME WorkersHold'
  PROVE  \A u : u \in ran' \cup Held' <=> u \in ran' \/ (u # NULL /\ InHand(u)')
BY DEF WorkersHold, Held, InHand

LEMMA WindowSeq ==
  ASSUME Safe, TasksInv
  PROVE  Window \in Seq(Tasks) /\ Len(Window) = queue_size
<1>1. queue_size \in Nat
  BY TaskTypes DEF Safe
<1>2. \A k \in 1 .. queue_size : Window[k] \in Tasks
  BY WindowPlace DEF TasksInv, RingHolds
<1>3. Window \in [1 .. queue_size -> Tasks]
  BY <1>2 DEF Window
<1> QED  BY <1>1, <1>3

LEMMA PutFifo ==
  ASSUME Safe, TasksInv, Safe', TasksInv', PutStep
  PROVE  \E t \in Tasks : Fifo!Put(t)
<1>1. PICK c \in Callers, t \in Tasks :
        InAdd(c, t) /\ PutTask(c, t) /\ UNCHANGED <<task, ran>>
  BY DEF PutStep
<1>2. /\ t \notin ran /\ ~InHand(t) /\ \A p \in Positions : task_queue[p] # t
  BY <1>1, InAddFacts
<1>3. /\ queue_size \in Nat /\ queue_size < queue_max_size
      /\ queue_rear = Place(queue_front, queue_size + 1)
      /\ queue_size + 1 \in 1 .. queue_max_size
      /\ queue_front \in Positions /\ queue_rear \in Positions
      /\ task_queue \in [Positions -> Tasks \cup {NULL, Junk}]
  <2>1. queue_size \in Nat /\ queue_size < queue_max_size
    BY <1>1, TaskTypes, ConstantsType DEF Safe, TasksInv, RingShape, PutTask, Full
  <2>2. queue_rear = Place(queue_front, queue_size + 1)
    BY <2>1, PlaceFacts, TaskTypes DEF Safe, TasksInv, RingShape
  <2>3. queue_size + 1 \in 1 .. queue_max_size
    BY <2>1, ConstantsType
  <2> QED  BY <2>1, <2>2, <2>3, TaskTypes DEF Safe
<1>4. \A k \in 1 .. queue_size :
        /\ k \in 1 .. queue_max_size /\ k # queue_size + 1
        /\ Place(queue_front, k) \in Positions /\ Place(queue_front, k) # queue_rear
  <2>1. \A k \in 1 .. queue_size : k \in 1 .. queue_max_size /\ k # queue_size + 1
                                   /\ k \in Nat \ {0}
    BY <1>3, ConstantsType
  <2>2. \A k \in 1 .. queue_size : Place(queue_front, k) \in Positions
    BY <1>3, <2>1, PlaceFacts
  <2>3. \A k \in 1 .. queue_size : Place(queue_front, k) # queue_rear
    BY <1>3, <2>1, PlaceFacts
  <2> QED  BY <2>1, <2>2, <2>3
<1>5. ~Fifo!InLine(t)
  <2>1. \A k \in 1 .. queue_size : Window[k] # t
    BY <1>2, <1>4, WindowPlace
  <2> QED  BY <2>1, WindowSeq DEF Fifo!InLine
<1>6. t \notin ran \cup Held
  BY <1>2, TakenByHand DEF TasksInv
<1>7. Len(Window) < queue_max_size
  BY <1>3, WindowSeq
<1>8. Window' = Append(Window, t)
  <2>1. /\ queue_front' = queue_front /\ queue_size' = queue_size + 1
        /\ task_queue' = [task_queue EXCEPT ![queue_rear] = t]
    BY <1>1 DEF PutTask, FillSlot
  <2>2. Window' = [k \in 1 .. queue_size + 1 |->
                     task_queue'[(queue_front + k - 1) % queue_max_size]]
    BY <2>1 DEF Window
  <2>3. ASSUME NEW k \in 1 .. queue_size + 1
        PROVE  task_queue'[(queue_front + k - 1) % queue_max_size]
                 = IF k = queue_size + 1 THEN t ELSE Window[k]
    <3>1. CASE k = queue_size + 1
      BY <1>3, <2>1, <3>1 DEF Place
    <3>2. CASE k # queue_size + 1
      <4>1. k \in 1 .. queue_size
        BY <1>3, <3>2
      <4>2. task_queue'[Place(queue_front, k)] = task_queue[Place(queue_front, k)]
        BY <1>3, <1>4, <2>1, <4>1
      <4> QED  BY <3>2, <4>1, <4>2, WindowPlace DEF Place
    <3> QED  BY <3>1, <3>2
  <2>4. Window' = [k \in 1 .. queue_size + 1 |->
                     IF k = queue_size + 1 THEN t ELSE Window[k]]
    BY <2>2, <2>3
  <2> DEFINE W == [k \in 1 .. queue_size + 1 |->
                     IF k = queue_size + 1 THEN t ELSE Window[k]]
             A == Append(Window, t)
  <2>5. Window \in Seq(Tasks) /\ Len(Window) = queue_size
    BY WindowSeq
  <2>6. /\ A \in Seq(Tasks) /\ Len(A) = queue_size + 1 /\ A[queue_size + 1] = t
        /\ \A k \in 1 .. queue_size : A[k] = Window[k]
    BY <2>5, AppendProperties
  <2>7. \A k \in 1 .. queue_size + 1 : k = queue_size + 1 \/ k \in 1 .. queue_size
    BY <1>3
  <2>8. \A k \in 1 .. queue_size : Window[k] \in Tasks
    BY <2>5
  <2>9. W \in Seq(Tasks) /\ Len(W) = queue_size + 1
    <3>1. \A k \in 1 .. queue_size + 1 : W[k] \in Tasks
      BY <2>7, <2>8
    <3>2. W \in [1 .. queue_size + 1 -> Tasks]
      BY <3>1
    <3> HIDE DEF W
    <3> QED  BY <1>3, <3>2
  <2>10. \A k \in 1 .. queue_size + 1 : W[k] = A[k]
    BY <2>6, <2>7
  <2>11. W = A
    <3> HIDE DEF W, A
    <3> QED  BY <2>6, <2>9, <2>10, SeqEqual
  <2> QED  BY <2>4, <2>11
<1>9. (ran \cup Held)' = ran \cup Held
  <2>1. \A u : InHand(u)' <=> InHand(u)
    BY <1>1 DEF InHand
  <2> QED  BY <1>1, <2>1, TakenByHand, TakenByHandNext DEF TasksInv
<1> QED  BY <1>5, <1>6, <1>7, <1>8, <1>9 DEF Fifo!Put

LEMMA TakeFifo ==
  ASSUME Safe, TasksInv, TasksInv', NEW w \in Workers, W_Take(w)
  PROVE  Fifo!Take
<1>1. /\ task' = [task EXCEPT ![w] = task_queue[queue_front]]
      /\ queue_front' = RingNext(queue_front) /\ queue_size' = queue_size - 1
      /\ wpc[w] = "take" /\ UNCHANGED <<task_queue, ran>>
  BY DEF W_Take, Dequeue, history
<1>2. /\ queue_front \in Positions /\ queue_size \in Nat \ {0}
      /\ task \in [Workers -> Tasks \cup {NULL, Junk}]
      /\ task_queue[queue_front] \in Tasks
  BY TaskTypes, TakeTasks DEF Safe
<1>3. Window \in Seq(Tasks) /\ Len(Window) = queue_size
  BY WindowSeq
<1>4. Window # <<>> /\ Head(Window) = task_queue[queue_front]
  <2>1. Head(Window) = Window[1] /\ Window # <<>>
    BY <1>2, <1>3
  <2>2. 1 \in 1 .. queue_size
    BY <1>2
  <2> QED  BY <1>2, <2>1, <2>2, WindowPlace, PlaceFacts
<1>5. Window' = Tail(Window)
  <2>1. Window' = [k \in 1 .. queue_size - 1 |->
                     task_queue[(RingNext(queue_front) + k - 1) % queue_max_size]]
    BY <1>1 DEF Window
  <2>2. ASSUME NEW k \in 1 .. queue_size - 1
        PROVE  task_queue[(RingNext(queue_front) + k - 1) % queue_max_size] = Window[k + 1]
    <3>1. k \in Nat \ {0} /\ k + 1 \in 1 .. queue_size
      BY <1>2
    <3> QED  BY <1>2, <3>1, PlaceFacts, WindowPlace DEF Place
  <2>3. Window' = [k \in 1 .. queue_size - 1 |-> Window[k + 1]]
    BY <2>1, <2>2
  <2> DEFINE W == [k \in 1 .. queue_size - 1 |-> Window[k + 1]]
             T == Tail(Window)
  <2>4. /\ T \in Seq(Tasks) /\ Len(T) = queue_size - 1
        /\ \A k \in 1 .. queue_size - 1 : T[k] = Window[k + 1]
    BY <1>2, <1>3, <1>4, HeadTailProperties
  <2>5. \A k \in 1 .. queue_size - 1 : W[k] \in Tasks
    BY <1>2, <1>3
  <2>6. W \in Seq(Tasks) /\ Len(W) = queue_size - 1
    <3>1. W \in [1 .. queue_size - 1 -> Tasks]
      BY <2>5
    <3> HIDE DEF W
    <3> QED  BY <1>2, <3>1
  <2>7. \A k \in 1 .. queue_size - 1 : W[k] = T[k]
    BY <2>4
  <2>8. W = T
    <3> HIDE DEF W, T
    <3> QED  BY <2>4, <2>6, <2>7, SeqEqual
  <2> QED  BY <2>3, <2>8
<1>6. (ran \cup Held)' = (ran \cup Held) \cup {Head(Window)}
  <2>1. task[w] = NULL
    BY <1>1 DEF TasksInv, WorkersHold
  <2>2. \A u : u # NULL => (InHand(u)' <=> InHand(u) \/ u = task_queue[queue_front])
    BY <1>1, <1>2, <2>1 DEF InHand
  <2>3. task_queue[queue_front] # NULL
    BY <1>2, TaskNames
  <2> QED  BY <1>1, <1>4, <2>2, <2>3, TakenByHand, TakenByHandNext DEF TasksInv
<1> QED  BY <1>4, <1>5, <1>6 DEF Fifo!Take

LEMMA EndFifo ==
  ASSUME Safe, TasksInv, TasksInv', NEW w \in Workers, W_End(w)
  PROVE  UNCHANGED Fifo!vars
<1>1. /\ wpc[w] = "run" /\ task' = [task EXCEPT ![w] = NULL] /\ ran' = ran \cup {task[w]}
      /\ UNCHANGED <<task_queue, queue_front, queue_size>>
  BY DEF W_End, ring
<1>2. task \in [Workers -> Tasks \cup {NULL, Junk}] /\ task[w] # NULL
  BY <1>1, TaskTypes DEF Safe, TasksInv, WorkersHold
<1>3. Window' = Window
  BY <1>1 DEF Window
<1>4. (ran \cup Held)' = ran \cup Held
  <2>1. \A u : u # NULL => (InHand(u) <=> InHand(u)' \/ u = task[w])
    BY <1>1, <1>2 DEF InHand, TasksInv, WorkersHold
  <2> QED  BY <1>1, <1>2, <2>1, TakenByHand, TakenByHandNext DEF TasksInv
<1> QED  BY <1>3, <1>4 DEF Fifo!vars

LEMMA StillFifo ==
  ASSUME TasksInv, TasksInv', Still
  PROVE  UNCHANGED Fifo!vars
<1>1. Window' = Window
  BY DEF Window, Still
<1>2. (ran \cup Held)' = ran \cup Held
  <2>1. \A u : InHand(u)' <=> InHand(u)
    BY DEF InHand, Still
  <2> QED  BY <2>1, TakenByHand, TakenByHandNext DEF TasksInv, Still
<1> QED  BY <1>1, <1>2 DEF Fifo!vars

LEMMA InitFifo == Init => Fifo!Init
<1> SUFFICES ASSUME Init PROVE Fifo!Init
  OBVIOUS
<1>1. Window = <<>>
  BY WindowSeq, InitSafe, InitTasks DEF Init, Window
<1>2. ran \cup Held = {}
  BY DEF Init, Held
<1> QED  BY <1>1, <1>2 DEF Fifo!Init

LEMMA StepFifo ==
  ASSUME InTime', Safe, TasksInv, [Next]_vars
  PROVE  [Fifo!Next]_(Fifo!vars)
<1>1. Safe' /\ TasksInv'
  BY NextSafe, NextTasks
<1>2. CASE Still
  BY <1>1, <1>2, StillFifo
<1>3. CASE PutStep
  BY <1>1, <1>3, PutFifo DEF Fifo!Next
<1>4. ASSUME NEW w \in Workers, W_Take(w) PROVE Fifo!Next
  BY <1>1, <1>4, TakeFifo DEF Fifo!Next
<1>5. ASSUME NEW w \in Workers, W_End(w) PROVE UNCHANGED Fifo!vars
  BY <1>1, <1>5, EndFifo
<1> QED  BY <1>2, <1>3, <1>4, <1>5, WhichStep

(* The workers take the tasks in the order in which threadpool_add put     *)
(* them on the ring, each at most once, and never more than the ring holds *)
(* are on it (threadpool.c:125-155, 196-205), while main adds before it    *)
(* destroys.                                                               *)
THEOREM RingIsFirstInFirstOut ==
  ASSUME ~SharedPool
  PROVE  Spec => ImplementsFifo
<1>1. Safe /\ (InTime => TasksInv) /\ [Next]_vars => [Fifo!Next]_(Fifo!vars)
  BY StepFifo, AlwaysInTime DEF InTime
<1> QED  BY TasksAlways, InitFifo, <1>1, PTL DEF Spec, ImplementsFifo, Fifo!Spec

(* Of every pool: until the shutdown each step puts a task at the end of   *)
(* the line, takes the first one, or does neither (threadpool.c:125-155,   *)
(* 196-205).                                                               *)
THEOREM OpenPoolIsFirstInFirstOut ==
  Spec => [][~shutdown' => [Fifo!Next]_(Fifo!vars)]_vars
<1>1. Safe /\ (InTime => TasksInv) /\ [Next]_vars
        => [~shutdown' => [Fifo!Next]_(Fifo!vars)]_vars
  <2> SUFFICES ASSUME Safe, InTime => TasksInv, [Next]_vars, ~shutdown'
               PROVE  [Fifo!Next]_(Fifo!vars)
    OBVIOUS
  <2>1. InTime /\ InTime'
    BY ShutdownForGood DEF InTime
  <2> QED  BY <2>1, StepFifo
<1> QED  BY TasksAlways, <1>1, PTL DEF Spec
-----------------------------------------------------------------------------
(* Callers that wait for room.                                             *)
RoomForNone == ~shutdown => \A c \in Callers : cpc[c] = "blocked" => Full

\* A step that leaves the ring alone, and blocks nobody, leaves this true.
LEMMA SameRoom ==
  ASSUME RoomForNone, queue_size' = queue_size, shutdown => shutdown',
         \A c \in Callers : cpc'[c] = "blocked" => cpc[c] = "blocked"
  PROVE  RoomForNone'
BY DEF RoomForNone, Full

LEMMA NextRoom ==
  ASSUME Safe, RoomForNone, [Next]_vars
  PROVE  RoomForNone'
<1>1. cpc \in [Callers -> CallerPC]
  BY TaskTypes DEF Safe
<1>2. shutdown => shutdown'
  BY ShutdownForGood
<1>3. ASSUME NEW c \in Callers, AddStep(c) \/ SpuriousCaller(c) PROVE RoomForNone'
  <2>1. ASSUME NEW t, AddSection(c, t) PROVE RoomForNone'
    <3>1. CASE WaitForRoom(c, t)
      BY <2>1, <3>1 DEF WaitForRoom, RoomForNone, Full, ring, AddSection
    <3>2. CASE PutTask(c, t)
      <4>1. \A d \in Callers : cpc'[d] # "blocked"
        BY <1>1, <3>2 DEF PutTask, RoomForNone
      <4> QED  BY <4>1 DEF RoomForNone
    <3>3. CASE FallThrough(c, t)
      BY <2>1, <3>3 DEF FallThrough, RoomForNone, AddSection
    <3> QED  BY <2>1, <3>1, <3>2, <3>3 DEF AddSection
  <2>2. CASE LateFill(c) \/ LateCommit(c)
    <3>1. shutdown
      BY <2>2 DEF LateFill, LateCommit, Safe, Exclusion
    <3> QED  BY <1>2, <3>1 DEF RoomForNone
  <2>3. CASE SpuriousCaller(c)
    BY <1>1, <1>2, <2>3, SameRoom DEF SpuriousCaller, ring
  <2> QED  BY <1>3, <2>1, <2>2, <2>3 DEF AddStep, Add, AddRetry
<1>4. ASSUME NEW w \in Workers, WorkerStep(w) \/ SpuriousWorker(w) PROVE RoomForNone'
  <2>1. CASE W_Take(w)
    <3>1. \A d \in Callers : cpc'[d] # "blocked"
      BY <1>1, <2>1 DEF W_Take, BroadcastNotFull
    <3> QED  BY <3>1 DEF RoomForNone
  <2>2. CASE ~W_Take(w)
    <3>1. cpc' = cpc /\ queue_size' = queue_size
      BY <1>4, <2>2 DEF WorkerStep, SpuriousWorker, W_Lock, W_Wait, W_Retire, W_Wake,
         W_Begin, W_End, W_Exit, ring, caller
    <3> QED  BY <1>2, <3>1, SameRoom
  <2> QED  BY <2>1, <2>2
<1>5. CASE ManagerStep
  <2>1. cpc' = cpc /\ queue_size' = queue_size
    BY <1>5 DEF ManagerStep, M_Test, M_Snapshot, M_Busy, M_Grow, M_GrowSlot, M_GrowEnd,
       M_Shrink, M_Signal, ring, caller
  <2> QED  BY <1>2, <2>1, SameRoom
<1>6. CASE DestroyStep
  <2>1. cpc' = cpc /\ queue_size' = queue_size
    BY <1>6 DEF DestroyStep, D_Shutdown, D_JoinManager, D_Broadcast, D_Join, D_Free,
       ring, caller
  <2> QED  BY <1>2, <2>1, SameRoom
<1>7. CASE UNCHANGED vars
  <2>1. cpc' = cpc /\ queue_size' = queue_size
    BY <1>7 DEF vars, ring, caller
  <2> QED  BY <1>2, <2>1, SameRoom
<1> QED  BY <1>3, <1>4, <1>5, <1>6, <1>7 DEF Next

(* No broadcast of queue_not_full is lost: while the pool is open a caller *)
(* waits only as long as the ring is full (threadpool.c:125-128, 196-205). *)
THEOREM NoCallerStranded ==
  Spec => [](~shutdown => \A c \in Callers : cpc[c] = "blocked" => Full)
<1>1. Init => RoomForNone
  BY DEF Init, RoomForNone
<1>2. Safe /\ RoomForNone /\ [Next]_vars => RoomForNone'
  BY NextRoom
<1>3. RoomForNone => (~shutdown => \A c \in Callers : cpc[c] = "blocked" => Full)
  BY DEF RoomForNone
<1> QED  BY InitSafe, NextSafe, <1>1, <1>2, <1>3, PTL DEF Spec

(* A pool of fixed size does not leave a caller blocked with all its       *)
(* workers asleep: one of them is on its way to the full ring, and will    *)
(* broadcast when it takes a task (threadpool.c:166-205).                  *)
THEOREM NoMutualWait ==
  ASSUME min_thr_num = max_thr_num
  PROVE  Spec => [](~shutdown /\ (\E c \in Callers : cpc[c] = "blocked")
                      => \E w \in Counted : wpc[w] # "waiting")
<1>1. Full => queue_size > 0
  BY ConstantsType DEF Full
<1>2. NoStrandedTask
      /\ (~shutdown => \A c \in Callers : cpc[c] = "blocked" => Full)
      => (~shutdown /\ (\E c \in Callers : cpc[c] = "blocked")
            => \E w \in Counted : wpc[w] # "waiting")
  BY <1>1 DEF NoStrandedTask
<1> QED  BY NoTaskStranded, NoCallerStranded, <1>2, PTL
=============================================================================
