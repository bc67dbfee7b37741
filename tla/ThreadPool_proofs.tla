-------------------------- MODULE ThreadPool_proofs --------------------------
(***************************************************************************)
(* Theorems about ThreadPool, for every number of workers, callers, tasks  *)
(* and slots.                                                              *)
(***************************************************************************)
EXTENDS ThreadPool, FiniteSetTheorems, TLAPS

LEMMA ConstantsType ==
  /\ min_thr_num \in Nat \ {0} /\ max_thr_num \in Nat \ {0}
  /\ queue_max_size \in Nat \ {0}
  /\ MIN_WAIT_TASK_NUM \in Nat \ {0} /\ DEFAULT_THREAD_VARY \in Nat \ {0}
  /\ min_thr_num <= max_thr_num
BY PoolAssumption

(* The next index of the ring is an index of the ring.                     *)
LEMMA RingNextType ==
  ASSUME NEW p \in Positions
  PROVE  RingNext(p) \in Positions
<1>1. p \in Nat /\ queue_max_size \in Nat /\ queue_max_size > 0
  BY ConstantsType DEF Positions
<1>2. (p + 1) % queue_max_size \in 0 .. queue_max_size - 1
  BY <1>1
<1> QED  BY <1>2 DEF RingNext, Positions

-----------------------------------------------------------------------------
(* Types, and what pool->lock protects.                                    *)
Safe == TypeOK /\ Exclusion

LEMMA InitSafe == Init => Safe
<1> SUFFICES ASSUME Init PROVE Safe
  OBVIOUS
<1>1. TypeOK
  <2>1. {queue_front, queue_rear} \subseteq Positions
    BY ConstantsType DEF Init, Positions
  <2>2. <<0, 0>> \in Positions \X Nat
    BY ConstantsType DEF Positions
  <2>3. task_queue \in [Positions -> Tasks \cup {NULL, Junk}]
    BY DEF Init
  <2>4. /\ lock \in Workers \cup {"free", "manager"} /\ shutdown \in BOOLEAN
        /\ wpc \in [Workers -> WorkerPC] /\ cpc \in [Callers -> CallerPC]
        /\ mpc \in ManagerPC /\ dpc \in DestroyPC
    BY DEF Init, WorkerPC, CallerPC, ManagerPC, DestroyPC
  <2>5. /\ live_thr_num \in Int /\ busy_thr_num \in Int
        /\ wait_exit_thr_num \in Int /\ queue_size \in Nat
        /\ add \in Nat /\ i \in Nat /\ j \in Nat
        /\ snap \in [size : Nat, live : Int, busy : Int]
    BY PoolAssumption, ConstantsType DEF Init, NoSnap
  <2>6. /\ threads \in [Slots -> Workers \cup {NULL}]
        /\ task \in [Workers -> Tasks \cup {NULL, Junk}]
        /\ pending \in [Callers -> Tasks \cup {NULL}]
        /\ seen \in [Callers -> Positions \X Nat]
        /\ submitted \subseteq Tasks
        /\ ran \subseteq Tasks \cup {NULL, Junk}
        /\ freed \subseteq Tasks \cup {Junk}
    BY <2>2 DEF Init
  <2> QED  BY <2>1, <2>3, <2>4, <2>5, <2>6 DEF TypeOK
<1>2. Exclusion
  BY DEF Init, Exclusion
<1> QED  BY <1>1, <1>2 DEF Safe

(* A signal or a broadcast moves waiting workers on, and no one else.      *)
WakesOnly ==
  /\ wpc' \in [Workers -> WorkerPC]
  /\ \A w \in Workers :
       wpc'[w] = wpc[w] \/ (wpc[w] = "waiting" /\ wpc'[w] = "woken")

LEMMA SignalWakes ==
  ASSUME wpc \in [Workers -> WorkerPC],
         SignalNotEmpty \/ BroadcastNotEmpty
  PROVE  WakesOnly
BY DEF SignalNotEmpty, BroadcastNotEmpty, WakesOnly, WorkerPC

(* The lock is never held by a worker and free, or held by the manager.   *)
LEMMA LockNames ==
  /\ "free" # "manager"
  /\ \A w \in Workers : w # "free" /\ w # "manager"
BY PoolAssumption

LEMMA WorkerSafe ==
  ASSUME Safe, NEW w \in Workers, WorkerStep(w) \/ SpuriousWorker(w)
  PROVE  Safe'
<1> USE DEF Safe, ring, counts, worker, caller, manager, destroy, history
<1>1. CASE SpuriousWorker(w)
  <2>1. TypeOK'
    BY <1>1 DEF TypeOK, SpuriousWorker, WorkerPC, CallerPC, ManagerPC,
       DestroyPC
  <2>2. Exclusion'
    BY <1>1 DEF TypeOK, Exclusion, SpuriousWorker
  <2> QED  BY <2>1, <2>2
<1>2. CASE W_Lock(w)
  <2>1. TypeOK'
    BY <1>2 DEF TypeOK, W_Lock, Decide, WorkerPC, CallerPC, ManagerPC,
       DestroyPC
  <2>2. Exclusion'
    BY <1>2, LockNames DEF TypeOK, Exclusion, W_Lock, Decide
  <2> QED  BY <2>1, <2>2
<1>3. CASE W_Wait(w)
  <2>1. TypeOK'
    BY <1>3 DEF TypeOK, W_Wait, WorkerPC, CallerPC, ManagerPC, DestroyPC
  <2>2. Exclusion'
    BY <1>3, LockNames DEF TypeOK, Exclusion, W_Wait
  <2> QED  BY <2>1, <2>2
<1>4. CASE W_Retire(w)
  <2>1. TypeOK'
    BY <1>4 DEF TypeOK, W_Retire, WorkerPC, CallerPC, ManagerPC, DestroyPC
  <2>2. Exclusion'
    BY <1>4 DEF TypeOK, Exclusion, W_Retire
  <2> QED  BY <2>1, <2>2
<1>5. CASE W_Wake(w)
  <2>1. TypeOK'
    BY <1>5 DEF TypeOK, W_Wake, Decide, WorkerPC, CallerPC, ManagerPC,
       DestroyPC
  <2>2. Exclusion'
    BY <1>5, LockNames DEF TypeOK, Exclusion, W_Wake, Decide
  <2> QED  BY <2>1, <2>2
<1>6. CASE W_Take(w)
  <2>1. TypeOK'
    <3>1. queue_size' \in Nat
      BY <1>6 DEF TypeOK, Exclusion, W_Take, Dequeue
    <3>2. queue_front' \in Positions
      BY <1>6, RingNextType DEF TypeOK, W_Take, Dequeue
    <3>3. /\ task' \in [Workers -> Tasks \cup {NULL, Junk}]
          /\ wpc' \in [Workers -> WorkerPC] /\ cpc' \in [Callers -> CallerPC]
      BY <1>6 DEF TypeOK, W_Take, Dequeue, BroadcastNotFull, WorkerPC, CallerPC
    <3> QED
      BY <1>6, <3>1, <3>2, <3>3 DEF TypeOK, W_Take
  <2>2. Exclusion'
    BY <1>6, LockNames, RingNextType DEF TypeOK, Exclusion, W_Take,
       Dequeue, BroadcastNotFull
  <2> QED  BY <2>1, <2>2
<1>7. CASE W_Begin(w)
  <2>1. TypeOK'
    BY <1>7 DEF TypeOK, W_Begin, WorkerPC, CallerPC, ManagerPC, DestroyPC
  <2>2. Exclusion'
    BY <1>7 DEF TypeOK, Exclusion, W_Begin
  <2> QED  BY <2>1, <2>2
<1>8. CASE W_End(w)
  <2>1. TypeOK'
    BY <1>8 DEF TypeOK, W_End, WorkerPC, CallerPC, ManagerPC, DestroyPC
  <2>2. Exclusion'
    BY <1>8 DEF TypeOK, Exclusion, W_End
  <2> QED  BY <2>1, <2>2
<1>9. CASE W_Exit(w)
  <2>1. TypeOK'
    BY <1>9 DEF TypeOK, W_Exit, WorkerPC, CallerPC, ManagerPC, DestroyPC
  <2>2. Exclusion'
    BY <1>9 DEF TypeOK, Exclusion, W_Exit
  <2> QED  BY <2>1, <2>2
<1> QED  BY <1>1, <1>2, <1>3, <1>4, <1>5, <1>6, <1>7, <1>8, <1>9 DEF WorkerStep

\* One holding of the lock by add, whose three endings are taken in turn.
LEMMA AddSectionSafe ==
  ASSUME Safe, NEW c \in Callers, NEW t \in Tasks \cup {NULL}, AddSection(c, t),
         submitted' \subseteq Tasks
  PROVE  Safe'
<1> USE DEF ring, counts, worker, caller, manager, destroy, history
<1>1. /\ lock = "free"
      /\ UNCHANGED <<lock, shutdown, threads, live_thr_num, busy_thr_num,
                     wait_exit_thr_num, task, seen, mpc, snap, add, i, dpc, j, ran>>
  BY DEF AddSection
<1>2. /\ task_queue' \in [Positions -> Tasks \cup {NULL, Junk}]
      /\ {queue_front', queue_rear'} \subseteq Positions /\ queue_size' \in Nat
      /\ freed' \subseteq Tasks \cup {Junk} /\ WakesOnly
      /\ cpc' \in [Callers -> CallerPC] /\ pending' \in [Callers -> Tasks \cup {NULL}]
      /\ \A d \in Callers : cpc'[d] \in {"late", "commit"} =>
           cpc[d] \in {"late", "commit"} \/ shutdown
  <2>1. CASE WaitForRoom(c, t)
    BY <2>1 DEF Safe, TypeOK, WaitForRoom, CallerPC, WakesOnly
  <2>2. CASE PutTask(c, t)
    <3>1. task_queue' \in [Positions -> Tasks \cup {NULL, Junk}]
      BY <2>2 DEF Safe, TypeOK, PutTask, FillSlot
    <3>2. freed' \subseteq Tasks \cup {Junk}
      <4>1. task_queue[queue_rear] \in Tasks \cup {NULL, Junk}
        BY DEF Safe, TypeOK
      <4> QED  BY <2>2, <4>1 DEF Safe, TypeOK, PutTask, FillSlot
    <3>3. {queue_front', queue_rear'} \subseteq Positions /\ queue_size' \in Nat
      BY <2>2, RingNextType DEF Safe, TypeOK, PutTask
    <3>4. WakesOnly
      BY <2>2, SignalWakes DEF Safe, TypeOK, PutTask
    <3>5. /\ cpc' \in [Callers -> CallerPC] /\ pending' \in [Callers -> Tasks \cup {NULL}]
          /\ \A d \in Callers : cpc'[d] \in {"late", "commit"} =>
               cpc[d] \in {"late", "commit"}
      BY <2>2 DEF Safe, TypeOK, PutTask, CallerPC
    <3> QED  BY <3>1, <3>2, <3>3, <3>4, <3>5
  <2>3. CASE FallThrough(c, t)
    BY <2>3 DEF Safe, TypeOK, FallThrough, CallerPC, WakesOnly
  <2> QED  BY <2>1, <2>2, <2>3 DEF AddSection
<1>3. TypeOK'
  BY <1>1, <1>2 DEF Safe, TypeOK, WakesOnly
<1>4. Exclusion'
  <2>1. \A w \in Workers : wpc'[w] \notin {"wait", "take"}
    BY <1>1, <1>2, LockNames DEF Safe, Exclusion, WakesOnly
  <2> QED  BY <1>1, <1>2, <2>1, LockNames DEF Safe, Exclusion
<1> QED  BY <1>3, <1>4 DEF Safe

LEMMA CallerSafe ==
  ASSUME Safe, NEW c \in Callers, AddStep(c) \/ SpuriousCaller(c)
  PROVE  Safe'
<1> USE DEF Safe, ring, counts, worker, caller, manager, destroy, history
<1>1. CASE SpuriousCaller(c)
  <2>1. TypeOK'
    BY <1>1 DEF TypeOK, SpuriousCaller, WorkerPC, CallerPC, ManagerPC,
       DestroyPC
  <2>2. Exclusion'
    BY <1>1 DEF TypeOK, Exclusion, SpuriousCaller
  <2> QED  BY <2>1, <2>2
<1>2. ASSUME NEW t \in Tasks, Add(c, t) PROVE Safe'
  <2>1. AddSection(c, t) /\ submitted' \subseteq Tasks
    BY <1>2 DEF Add, TypeOK
  <2> QED  BY <2>1, AddSectionSafe
<1>3. CASE AddRetry(c)
  <2>1. AddSection(c, pending[c]) /\ submitted' \subseteq Tasks
    BY <1>3 DEF AddRetry, TypeOK
  <2>2. pending[c] \in Tasks \cup {NULL}
    BY DEF TypeOK
  <2> QED  BY <2>1, <2>2, AddSectionSafe
<1>4. CASE LateFill(c)
  <2>1. TypeOK'
    BY <1>4 DEF TypeOK, LateFill, FillSlot, WorkerPC, CallerPC, ManagerPC,
       DestroyPC
  <2>2. Exclusion'
    BY <1>4 DEF TypeOK, Exclusion, LateFill, FillSlot
  <2> QED  BY <2>1, <2>2
<1>5. CASE LateCommit(c)
  <2>1. TypeOK'
    <3>1. queue_rear' \in Positions /\ queue_size' \in Nat
      <4>1. PICK read \in {seen[c], <<queue_rear, queue_size>>} :
               queue_rear' = RingNext(read[1]) /\ queue_size' = read[2] + 1
        BY <1>5 DEF LateCommit
      <4>2. read[1] \in Positions /\ read[2] \in Nat
        BY <1>5 DEF TypeOK
      <4> QED  BY <4>1, <4>2, RingNextType
    <3>2. wpc' \in [Workers -> WorkerPC]
      BY <1>5, SignalWakes DEF TypeOK, LateCommit, WakesOnly
    <3>3. /\ cpc' \in [Callers -> CallerPC]
          /\ pending' \in [Callers -> Tasks \cup {NULL}]
          /\ seen' \in [Callers -> Positions \X Nat]
      <4>1. <<0, 0>> \in Positions \X Nat
        BY ConstantsType DEF Positions
      <4> QED  BY <1>5, <4>1 DEF TypeOK, LateCommit, CallerPC
    <3> QED
      BY <1>5, <3>1, <3>2, <3>3 DEF TypeOK, LateCommit
  <2>2. Exclusion'
    BY <1>5, LockNames, SignalWakes, RingNextType DEF TypeOK, Exclusion,
       LateCommit, WakesOnly
  <2> QED  BY <2>1, <2>2
<1> QED  BY <1>1, <1>2, <1>3, <1>4, <1>5 DEF AddStep

LEMMA ManagerSafe ==
  ASSUME Safe, ManagerStep
  PROVE  Safe'
<1> USE DEF Safe, ring, counts, worker, caller, manager, destroy, history
<1>1. CASE M_Test
  <2>1. TypeOK'
    BY <1>1 DEF TypeOK, M_Test, WorkerPC, CallerPC, ManagerPC, DestroyPC
  <2>2. Exclusion'
    BY <1>1 DEF TypeOK, Exclusion, M_Test
  <2> QED  BY <2>1, <2>2
<1>2. CASE M_Snapshot
  <2>1. TypeOK'
    BY <1>2 DEF TypeOK, M_Snapshot, WorkerPC, CallerPC, ManagerPC, DestroyPC
  <2>2. Exclusion'
    BY <1>2 DEF TypeOK, Exclusion, M_Snapshot
  <2> QED  BY <2>1, <2>2
<1>3. CASE M_Busy
  <2>1. TypeOK'
    BY <1>3 DEF TypeOK, M_Busy, ShrinkOrEnd, NoSnap, WorkerPC, CallerPC,
       ManagerPC, DestroyPC
  <2>2. Exclusion'
    BY <1>3 DEF TypeOK, Exclusion, M_Busy, ShrinkOrEnd, NoSnap
  <2> QED  BY <2>1, <2>2
<1>4. CASE M_Grow
  <2>1. TypeOK'
    BY <1>4 DEF TypeOK, M_Grow, WorkerPC, CallerPC, ManagerPC, DestroyPC
  <2>2. Exclusion'
    BY <1>4, LockNames DEF TypeOK, Exclusion, M_Grow
  <2> QED  BY <2>1, <2>2
<1>5. CASE M_GrowSlot
  <2>1. TypeOK'
    BY <1>5 DEF TypeOK, M_GrowSlot, MoreToGrow, StartWorker, Fresh,
       WorkerPC, CallerPC, ManagerPC, DestroyPC
  <2>2. Exclusion'
    BY <1>5 DEF TypeOK, Exclusion, M_GrowSlot, MoreToGrow, StartWorker, Fresh
  <2> QED  BY <2>1, <2>2
<1>6. CASE M_GrowEnd
  <2>1. TypeOK'
    BY <1>6 DEF TypeOK, M_GrowEnd, ShrinkOrEnd, NoSnap, WorkerPC,
       CallerPC, ManagerPC, DestroyPC
  <2>2. Exclusion'
    BY <1>6, LockNames DEF TypeOK, Exclusion, M_GrowEnd, ShrinkOrEnd, NoSnap
  <2> QED  BY <2>1, <2>2
<1>7. CASE M_Shrink
  <2>1. TypeOK'
    BY <1>7, ConstantsType DEF TypeOK, M_Shrink, WorkerPC, CallerPC,
       ManagerPC, DestroyPC
  <2>2. Exclusion'
    BY <1>7 DEF TypeOK, Exclusion, M_Shrink
  <2> QED  BY <2>1, <2>2
<1>8. CASE M_Signal
  <2>1. TypeOK'
    BY <1>8, SignalWakes, RingNextType DEF TypeOK, M_Signal, NoSnap,
       WakesOnly, WorkerPC, CallerPC, ManagerPC, DestroyPC
  <2>2. Exclusion'
    BY <1>8, SignalWakes, RingNextType DEF TypeOK, Exclusion, M_Signal,
       NoSnap, WakesOnly
  <2> QED  BY <2>1, <2>2
<1> QED  BY <1>1, <1>2, <1>3, <1>4, <1>5, <1>6, <1>7, <1>8 DEF ManagerStep

LEMMA DestroySafe ==
  ASSUME Safe, DestroyStep
  PROVE  Safe'
<1> USE DEF Safe, ring, counts, worker, caller, manager, destroy, history
<1>1. CASE D_Shutdown
  <2>1. TypeOK'
    BY <1>1 DEF TypeOK, D_Shutdown, WorkerPC, CallerPC, ManagerPC, DestroyPC
  <2>2. Exclusion'
    BY <1>1 DEF TypeOK, Exclusion, D_Shutdown
  <2> QED  BY <2>1, <2>2
<1>2. CASE D_JoinManager
  <2>1. TypeOK'
    BY <1>2 DEF TypeOK, D_JoinManager, WorkerPC, CallerPC, ManagerPC, DestroyPC
  <2>2. Exclusion'
    BY <1>2 DEF TypeOK, Exclusion, D_JoinManager
  <2> QED  BY <2>1, <2>2
<1>3. CASE D_Broadcast
  <2>1. TypeOK'
    BY <1>3, SignalWakes, RingNextType DEF TypeOK, D_Broadcast, WakesOnly,
       WorkerPC, CallerPC, ManagerPC, DestroyPC
  <2>2. Exclusion'
    BY <1>3, SignalWakes, RingNextType DEF TypeOK, Exclusion, D_Broadcast,
       WakesOnly
  <2> QED  BY <2>1, <2>2
<1>4. CASE D_Join
  <2>1. TypeOK'
    BY <1>4 DEF TypeOK, D_Join, WorkerPC, CallerPC, ManagerPC, DestroyPC
  <2>2. Exclusion'
    BY <1>4 DEF TypeOK, Exclusion, D_Join
  <2> QED  BY <2>1, <2>2
<1>5. CASE D_Free
  <2>1. TypeOK'
    BY <1>5 DEF TypeOK, D_Free, WorkerPC, CallerPC, ManagerPC, DestroyPC
  <2>2. Exclusion'
    BY <1>5 DEF TypeOK, Exclusion, D_Free
  <2> QED  BY <2>1, <2>2
<1> QED  BY <1>1, <1>2, <1>3, <1>4, <1>5 DEF DestroyStep

LEMMA NextSafe == Safe /\ [Next]_vars => Safe'
<1> SUFFICES ASSUME Safe, [Next]_vars PROVE Safe'
  OBVIOUS
<1>1. CASE Next
  BY <1>1, WorkerSafe, CallerSafe, ManagerSafe, DestroySafe DEF Next
<1>2. CASE UNCHANGED vars
  BY <1>2 DEF Safe, TypeOK, Exclusion, vars, ring, counts, worker, caller,
     manager, destroy, history
<1> QED  BY <1>1, <1>2

(* Every variable keeps its type (all of src/thread_pool/threadpool.c).    *)
THEOREM TypeCorrect == Spec => []TypeOK
<1>1. Safe => TypeOK
  BY DEF Safe
<1> QED  BY InitSafe, NextSafe, <1>1, PTL DEF Spec

(* What a worker tested under pool->lock holds until it waits or takes     *)
(* (threadpool.c:168-207), whoever sets shutdown or unlocks twice.         *)
THEOREM LockWorks == Spec => []Exclusion
<1>1. Safe => Exclusion
  BY DEF Safe
<1> QED  BY InitSafe, NextSafe, <1>1, PTL DEF Spec

-----------------------------------------------------------------------------
(* The two counters.                                                       *)

\* A worker stops only because the pool is shut down.
StopsAfterShutdown ==
  \A w \in Workers : wpc[w] \in {"stopping", "stopped"} => shutdown

Counters == StopsAfterShutdown /\ LiveCount /\ BusyCount

LEMMA CountedFinite == IsFiniteSet(Counted) /\ IsFiniteSet(Running)
BY PoolAssumption, FS_Subset DEF Counted, Running

LEMMA InitCounters == Init => Counters
<1> SUFFICES ASSUME Init PROVE Counters
  OBVIOUS
<1>1. Cardinality(Counted) = min_thr_num
  <2> DEFINE first == 0 .. min_thr_num - 1
             slot  == [s \in first |-> threads[s]]
  <2>1. first \subseteq Slots
    BY ConstantsType DEF Slots
  <2>2. \A s \in first : threads[s] \in Workers
    <3> SUFFICES ASSUME NEW s \in first PROVE threads[s] \in Workers
      OBVIOUS
    <3>1. s \in Slots /\ s < min_thr_num
      BY <2>1, ConstantsType
    <3> QED  BY <3>1 DEF Init, Started
  <2>3. \A w \in Workers : w \in Counted <=> \E s \in first : threads[s] = w
    <3>1. \A s \in Slots : s \in first <=> Started(s)
      BY ConstantsType DEF Init, Slots
    <3>2. \A w \in Workers, s \in Slots : threads[s] = w => Started(s)
      BY PoolAssumption DEF Started
    <3> QED  BY <2>1, <3>1, <3>2 DEF Init, Counted
  <2>4. slot \in Bijection(first, Counted)
    <3>1. \A s, r \in first : slot[s] = slot[r] => s = r
      <4>1. \A s \in first : Started(s)
        BY <2>1, <2>2, PoolAssumption DEF Started
      <4> QED  BY <2>1, <4>1 DEF Init
    <3>2. slot \in [first -> Counted]
      BY <2>2, <2>3
    <3>3. \A w \in Counted : \E s \in first : slot[s] = w
      BY <2>3 DEF Counted
    <3> QED  BY <3>1, <3>2, <3>3 DEF Bijection, Injection, Surjection, IsInjective
  <2>5. IsFiniteSet(first) /\ Cardinality(first) = min_thr_num
    BY ConstantsType, FS_Interval
  <2> HIDE DEF first, slot
  <2> QED  BY <2>4, <2>5, FS_Bijection DEF ExistsBijection
<1>2. LiveCount
  BY <1>1, ConstantsType DEF Init, LiveCount
<1>3. StopsAfterShutdown
  BY DEF Init, StopsAfterShutdown
<1>4. BusyCount
  <2>1. Running = {}
    BY DEF Init, Running
  <2> QED  BY <2>1, FS_EmptySet DEF Init, BusyCount
<1> QED  BY <1>2, <1>3, <1>4 DEF Counters

(* Most steps move workers only within the counted, the running and the    *)
(* other ones.                                                             *)
LEMMA SameCounters ==
  ASSUME Counters,
         UNCHANGED <<Counted, Running, live_thr_num, busy_thr_num>>,
         shutdown => shutdown', StopsAfterShutdown'
  PROVE  Counters'
BY DEF Counters, LiveCount, BusyCount

LEMMA WakesCounters ==
  ASSUME Counters, WakesOnly,
         UNCHANGED <<shutdown, live_thr_num, busy_thr_num>>
  PROVE  Counters'
<1>1. UNCHANGED <<Counted, Running>>
  BY DEF WakesOnly, Counted, Running
<1>2. StopsAfterShutdown'
  BY DEF Counters, StopsAfterShutdown, WakesOnly
<1> QED  BY <1>1, <1>2, SameCounters

LEMMA WorkerCounters ==
  ASSUME Safe, Counters, NEW w \in Workers, WorkerStep(w) \/ SpuriousWorker(w)
  PROVE  Counters'
<1> USE DEF Safe, counts
<1>1. CASE W_Retire(w)
  <2>1. Counted' = Counted \ {w} /\ w \in Counted
    BY <1>1 DEF TypeOK, W_Retire, Counted
  <2>2. Cardinality(Counted') = Cardinality(Counted) - 1
    BY <2>1, CountedFinite, FS_RemoveElement
  <2>3. LiveCount'
    BY <1>1, <2>2, ConstantsType
       DEF TypeOK, Counters, LiveCount, W_Retire, MayRetire
  <2>4. BusyCount'
    <3>1. Running' = Running
      BY <1>1 DEF TypeOK, W_Retire, Running
    <3> QED  BY <1>1, <3>1 DEF Counters, BusyCount, W_Retire
  <2>5. StopsAfterShutdown'
    BY <1>1 DEF TypeOK, Counters, StopsAfterShutdown, W_Retire
  <2> QED  BY <2>3, <2>4, <2>5 DEF Counters
<1>2. CASE W_Begin(w)
  <2>1. Running' = Running \cup {w} /\ w \notin Running
    BY <1>2 DEF TypeOK, W_Begin, Running
  <2>2. Cardinality(Running') = Cardinality(Running) + 1
    BY <2>1, CountedFinite, FS_AddElement
  <2>3. BusyCount'
    BY <1>2, <2>2 DEF Counters, BusyCount, W_Begin
  <2>4. Counted' = Counted
    BY <1>2 DEF TypeOK, W_Begin, Counted
  <2>5. StopsAfterShutdown'
    BY <1>2 DEF TypeOK, Counters, StopsAfterShutdown, W_Begin
  <2> QED  BY <1>2, <2>3, <2>4, <2>5 DEF Counters, LiveCount, W_Begin
<1>3. CASE W_End(w)
  <2>1. Running' = Running \ {w} /\ w \in Running
    BY <1>3 DEF TypeOK, W_End, Running
  <2>2. Cardinality(Running') = Cardinality(Running) - 1
    BY <2>1, CountedFinite, FS_RemoveElement
  <2>3. BusyCount'
    BY <1>3, <2>2 DEF Counters, BusyCount, W_End
  <2>4. Counted' = Counted
    BY <1>3 DEF TypeOK, W_End, Counted
  <2>5. StopsAfterShutdown'
    BY <1>3 DEF TypeOK, Counters, StopsAfterShutdown, W_End
  <2> QED  BY <1>3, <2>3, <2>4, <2>5 DEF Counters, LiveCount, W_End
<1>4. CASE W_Lock(w) \/ W_Wait(w) \/ W_Wake(w)
  <2>1. UNCHANGED <<Counted, Running, live_thr_num, busy_thr_num, shutdown>>
    BY <1>4 DEF TypeOK, W_Lock, W_Wait, W_Wake, Decide, Counted, Running
  <2>2. StopsAfterShutdown'
    BY <1>4 DEF TypeOK, Counters, StopsAfterShutdown, W_Lock, W_Wait, W_Wake, Decide
  <2> QED  BY <2>1, <2>2, SameCounters
<1>5. CASE W_Take(w) \/ W_Exit(w) \/ SpuriousWorker(w)
  <2>1. UNCHANGED <<Counted, Running, live_thr_num, busy_thr_num, shutdown>>
    BY <1>5 DEF TypeOK, W_Take, W_Exit, SpuriousWorker, Counted, Running
  <2>2. StopsAfterShutdown'
    BY <1>5 DEF TypeOK, Counters, StopsAfterShutdown, W_Take, W_Exit, SpuriousWorker
  <2> QED  BY <2>1, <2>2, SameCounters
<1> QED  BY <1>1, <1>2, <1>3, <1>4, <1>5 DEF WorkerStep

LEMMA CallerCounters ==
  ASSUME Safe, Counters, NEW c \in Callers, AddStep(c) \/ SpuriousCaller(c)
  PROVE  Counters'
<1>1. WakesOnly /\ UNCHANGED <<shutdown, live_thr_num, busy_thr_num>>
  <2>1. CASE SignalNotEmpty /\ UNCHANGED <<shutdown, counts>>
    BY <2>1, SignalWakes DEF Safe, TypeOK, counts
  <2>2. CASE UNCHANGED <<wpc, shutdown, counts>>
    BY <2>2 DEF Safe, TypeOK, counts, WakesOnly
  <2> QED
    BY <2>1, <2>2 DEF AddStep, SpuriousCaller, Add, AddRetry, AddSection,
       WaitForRoom, PutTask, FallThrough, LateFill, LateCommit, worker
<1> QED  BY <1>1, WakesCounters

LEMMA ManagerCounters ==
  ASSUME Safe, Counters, ManagerStep
  PROVE  Counters'
<1>1. CASE M_GrowSlot /\ SlotIsFree(i)
  <2>1. PICK w \in Fresh(i) : wpc' = [wpc EXCEPT ![w] = "lock"]
    BY <1>1 DEF M_GrowSlot, StartWorker
  <2>2. w \in Workers /\ wpc[w] \in {"none", "retired", "stopped"}
    BY <2>1 DEF Fresh, Exited
  <2>3. /\ live_thr_num' = live_thr_num + 1 /\ live_thr_num < max_thr_num
        /\ UNCHANGED <<shutdown, busy_thr_num>>
    BY <1>1 DEF M_GrowSlot, StartWorker, MoreToGrow
  <2>4. ~shutdown => Cardinality(Counted') = Cardinality(Counted) + 1
    <3> SUFFICES ASSUME ~shutdown
                 PROVE  Cardinality(Counted') = Cardinality(Counted) + 1
      OBVIOUS
    <3>1. w \notin Counted /\ Counted' = Counted \cup {w}
      BY <2>1, <2>2 DEF Safe, TypeOK, Counters, StopsAfterShutdown, Counted
    <3> QED  BY <3>1, CountedFinite, FS_AddElement
  <2>5. LiveCount'
    BY <2>3, <2>4, ConstantsType DEF Safe, TypeOK, Counters, LiveCount
  <2>6. Running' = Running
    BY <2>1, <2>2 DEF Safe, TypeOK, Running
  <2>7. StopsAfterShutdown'
    BY <2>1, <2>3 DEF Safe, TypeOK, Counters, StopsAfterShutdown
  <2> QED  BY <2>3, <2>5, <2>6, <2>7 DEF Counters, BusyCount
<1>2. CASE ~(M_GrowSlot /\ SlotIsFree(i))
  <2>1. WakesOnly /\ UNCHANGED <<shutdown, live_thr_num, busy_thr_num>>
    <3>1. CASE SignalNotEmpty /\ UNCHANGED <<shutdown, counts>>
      BY <3>1, SignalWakes DEF Safe, TypeOK, counts
    <3>2. CASE UNCHANGED <<wpc, shutdown, live_thr_num, busy_thr_num>>
      BY <3>2 DEF Safe, TypeOK, WakesOnly
    <3> QED
      BY <1>2, <3>1, <3>2 DEF ManagerStep, M_Test, M_Snapshot, M_Busy, M_Grow,
         M_GrowSlot, M_GrowEnd, M_Shrink, M_Signal, worker, counts
  <2> QED  BY <2>1, WakesCounters
<1> QED  BY <1>1, <1>2

LEMMA DestroyCounters ==
  ASSUME Safe, Counters, DestroyStep
  PROVE  Counters'
<1>1. CASE D_Shutdown
  <2>1. UNCHANGED <<Counted, Running, live_thr_num, busy_thr_num>> /\ shutdown'
    BY <1>1 DEF D_Shutdown, Counted, Running, worker, counts
  <2>2. StopsAfterShutdown'
    BY <2>1 DEF StopsAfterShutdown
  <2> QED  BY <2>1, <2>2, SameCounters
<1>2. CASE ~D_Shutdown
  <2>1. WakesOnly /\ UNCHANGED <<shutdown, live_thr_num, busy_thr_num>>
    <3>1. CASE BroadcastNotEmpty /\ UNCHANGED <<shutdown, counts>>
      BY <3>1, SignalWakes DEF Safe, TypeOK, counts
    <3>2. CASE UNCHANGED <<wpc, shutdown, counts>>
      BY <3>2 DEF Safe, TypeOK, WakesOnly, counts
    <3> QED
      BY <1>2, <3>1, <3>2 DEF DestroyStep, D_JoinManager, D_Broadcast, D_Join,
         D_Free, worker
  <2> QED  BY <2>1, WakesCounters
<1> QED  BY <1>1, <1>2

LEMMA NextCounters == Safe /\ Counters /\ [Next]_vars => Counters'
<1> SUFFICES ASSUME Safe, Counters, [Next]_vars PROVE Counters'
  OBVIOUS
<1>1. CASE Next
  BY <1>1, WorkerCounters, CallerCounters, ManagerCounters, DestroyCounters
     DEF Next
<1>2. CASE UNCHANGED vars
  <2>1. UNCHANGED <<Counted, Running, live_thr_num, busy_thr_num, shutdown>>
    BY <1>2 DEF vars, worker, counts, Counted, Running
  <2>2. StopsAfterShutdown'
    BY <1>2 DEF vars, worker, Counters, StopsAfterShutdown
  <2> QED  BY <2>1, <2>2, SameCounters
<1> QED  BY <1>1, <1>2

LEMMA CountersAlways == Spec => [](Safe /\ Counters)
BY InitSafe, NextSafe, InitCounters, NextCounters, PTL DEF Spec

(* live_thr_num counts the workers exactly as long as the pool is open,    *)
(* and never leaves its bounds (threadpool.c:180-183, 251-256).            *)
THEOREM LiveCountHolds == Spec => []LiveCount
<1>1. Counters => LiveCount
  BY DEF Counters
<1> QED  BY CountersAlways, <1>1, PTL

(* busy_thr_num counts the workers inside a callback (c:211-221).          *)
THEOREM BusyCountHolds == Spec => []BusyCount
<1>1. Counters => BusyCount
  BY DEF Counters
<1> QED  BY CountersAlways, <1>1, PTL

-----------------------------------------------------------------------------
(* In a pool of fixed size no worker retires, so that one is always there  *)
(* for a task: the signal of threadpool_add reaches it, or none waits.     *)
SomeAwake == \E w \in Counted : wpc[w] # "waiting"

LEMMA CountedNonempty ==
  ASSUME Safe, Counters, ~shutdown
  PROVE  Counted # {}
<1>1. Cardinality(Counted) > 0
  BY ConstantsType DEF Safe, TypeOK, Counters, LiveCount
<1> QED  BY <1>1, FS_EmptySet

LEMMA WakesStranded ==
  ASSUME SomeAwake, WakesOnly
  PROVE  SomeAwake'
BY DEF SomeAwake, WakesOnly, Counted

LEMMA PutStranded ==
  ASSUME Safe, Counters, SignalNotEmpty, ~shutdown
  PROVE  SomeAwake'
<1>1. CASE \E v \in Workers : wpc[v] = "waiting"
  <2>1. PICK v \in Workers : wpc[v] = "waiting" /\ wpc' = [wpc EXCEPT ![v] = "woken"]
    BY <1>1 DEF SignalNotEmpty
  <2> QED  BY <2>1 DEF SomeAwake, Counted, Safe, TypeOK
<1>2. CASE ~\E v \in Workers : wpc[v] = "waiting"
  <2>1. PICK w \in Counted : TRUE
    BY CountedNonempty
  <2>2. wpc' = wpc
    BY <1>2 DEF SignalNotEmpty
  <2> QED  BY <1>2, <2>1, <2>2 DEF SomeAwake, Counted
<1> QED  BY <1>1, <1>2

LEMMA WorkerStranded ==
  ASSUME min_thr_num = max_thr_num, Safe, Counters, NoStrandedTask, ~shutdown,
         NEW w \in Workers, WorkerStep(w) \/ SpuriousWorker(w), queue_size' > 0
  PROVE  SomeAwake'
<1> USE DEF Safe
<1>1. CASE W_Wait(w)
  BY <1>1 DEF W_Wait, Exclusion, ring
<1>2. CASE W_Retire(w)
  BY <1>2, ConstantsType
     DEF W_Retire, MayRetire, Counters, LiveCount, TypeOK
<1>3. CASE W_Lock(w) \/ W_Wake(w) \/ W_Take(w) \/ W_Begin(w) \/ W_End(w)
  <2>1. w \in Counted' /\ wpc'[w] # "waiting"
    BY <1>3 DEF W_Lock, W_Wake, W_Take, W_Begin, W_End, Decide, Counted, TypeOK
  <2> QED  BY <2>1 DEF SomeAwake
<1>4. CASE W_Exit(w)
  <2>1. PICK v \in Counted : wpc[v] # "waiting"
    BY <1>4 DEF NoStrandedTask, W_Exit, ring
  <2>2. v \in Counted' /\ wpc'[v] # "waiting"
    BY <1>4, <2>1 DEF W_Exit, Counted, TypeOK, Counters, StopsAfterShutdown
  <2> QED  BY <2>2 DEF SomeAwake
<1>5. CASE SpuriousWorker(w)
  <2>1. w \in Counted' /\ wpc'[w] # "waiting"
    BY <1>5 DEF SpuriousWorker, Counted, TypeOK
  <2> QED  BY <2>1 DEF SomeAwake
<1> QED  BY <1>1, <1>2, <1>3, <1>4, <1>5 DEF WorkerStep

LEMMA CallerStranded ==
  ASSUME Safe, Counters, NoStrandedTask, ~shutdown,
         NEW c \in Callers, AddStep(c) \/ SpuriousCaller(c), queue_size' > 0
  PROVE  SomeAwake'
<1>1. CASE SignalNotEmpty
  BY <1>1, PutStranded
<1>2. CASE UNCHANGED <<wpc, queue_size>>
  BY <1>2 DEF NoStrandedTask, SomeAwake, Counted
<1>3. CASE LateFill(c) \/ LateCommit(c)
  BY <1>3 DEF LateFill, LateCommit, Safe, Exclusion
<1> QED
  BY <1>1, <1>2, <1>3 DEF AddStep, SpuriousCaller, Add, AddRetry, AddSection,
     WaitForRoom, PutTask, FallThrough, ring, worker

LEMMA ManagerStranded ==
  ASSUME min_thr_num = max_thr_num, Safe, Counters, NoStrandedTask, ~shutdown,
         ManagerStep, queue_size' > 0
  PROVE  SomeAwake'
<1>1. queue_size' = queue_size
  BY DEF ManagerStep, M_Test, M_Snapshot, M_Busy, M_Grow, M_GrowSlot, M_GrowEnd,
     M_Shrink, M_Signal, ring
<1>2. SomeAwake
  BY <1>1 DEF NoStrandedTask, SomeAwake
<1>3. ~M_GrowSlot
  BY ConstantsType DEF M_GrowSlot, MoreToGrow, Counters, LiveCount, Safe, TypeOK
<1>4. WakesOnly
  <2>1. CASE SignalNotEmpty
    BY <2>1, SignalWakes DEF Safe, TypeOK
  <2>2. CASE UNCHANGED wpc
    BY <2>2 DEF Safe, TypeOK, WakesOnly
  <2> QED
    BY <1>3, <2>1, <2>2 DEF ManagerStep, M_Test, M_Snapshot, M_Busy, M_Grow,
       M_GrowEnd, M_Shrink, M_Signal, worker
<1> QED  BY <1>2, <1>4, WakesStranded

LEMMA DestroyStranded ==
  ASSUME Safe, NoStrandedTask, ~shutdown, DestroyStep, queue_size' > 0
  PROVE  SomeAwake'
<1>1. queue_size' = queue_size
  BY DEF DestroyStep, D_Shutdown, D_JoinManager, D_Broadcast, D_Join, D_Free, ring
<1>2. SomeAwake
  BY <1>1 DEF NoStrandedTask, SomeAwake
<1>3. WakesOnly
  <2>1. CASE BroadcastNotEmpty
    BY <2>1, SignalWakes DEF Safe, TypeOK
  <2>2. CASE UNCHANGED wpc
    BY <2>2 DEF Safe, TypeOK, WakesOnly
  <2> QED
    BY <2>1, <2>2 DEF DestroyStep, D_Shutdown, D_JoinManager, D_Broadcast,
       D_Join, D_Free, worker
<1> QED  BY <1>2, <1>3, WakesStranded

LEMMA ShutdownForGood == ASSUME [Next]_vars, shutdown PROVE shutdown'
BY DEF Next, vars, WorkerStep, AddStep, ManagerStep, DestroyStep,
   W_Lock, W_Wait, W_Retire, W_Wake, W_Take, W_Begin, W_End, W_Exit,
   SpuriousWorker, SpuriousCaller, Add, AddRetry, AddSection, LateFill,
   LateCommit, M_Test, M_Snapshot, M_Busy, M_Grow, M_GrowSlot, M_GrowEnd,
   M_Shrink, M_Signal, D_Shutdown, D_JoinManager, D_Broadcast, D_Join, D_Free

LEMMA NextStranded ==
  ASSUME min_thr_num = max_thr_num, Safe, Counters, NoStrandedTask, [Next]_vars
  PROVE  NoStrandedTask'
<1> SUFFICES ASSUME queue_size' > 0, ~shutdown' PROVE SomeAwake'
  BY DEF NoStrandedTask, SomeAwake
<1>1. ~shutdown
  BY ShutdownForGood
<1>2. CASE Next
  BY <1>1, <1>2, WorkerStranded, CallerStranded, ManagerStranded,
     DestroyStranded DEF Next
<1>3. CASE UNCHANGED vars
  BY <1>1, <1>3 DEF vars, ring, worker, NoStrandedTask, SomeAwake, Counted
<1> QED  BY <1>2, <1>3

(* In a pool of fixed size no wakeup is lost, whatever was left in         *)
(* wait_exit_thr_num, and with any number of callers and of spurious       *)
(* wakeups (threadpool.c:134-153, 171-187).                                *)
THEOREM NoTaskStranded ==
  ASSUME min_thr_num = max_thr_num
  PROVE  Spec => []NoStrandedTask
<1>1. Init => NoStrandedTask
  BY DEF Init, NoStrandedTask
<1>2. Safe /\ Counters /\ NoStrandedTask /\ [Next]_vars => NoStrandedTask'
  BY NextStranded
<1> QED  BY CountersAlways, <1>1, <1>2, PTL DEF Spec

-----------------------------------------------------------------------------
(* In a pool of fixed size every slot has its thread from the start and    *)
(* keeps it, so that the joins of threadpool_destroy wait for each worker. *)
SlotsKept ==
  /\ \A s \in Slots : threads[s] \in Workers
  /\ \A w \in Workers : wpc[w] # "none" => \E s \in Slots : threads[s] = w

Joined ==
  /\ dpc = "join" => \A s \in Slots : s < j => Exited(threads[s])
  /\ dpc \in {"free", "freed"} => \A s \in Slots : Exited(threads[s])

LEMMA InitJoined ==
  ASSUME min_thr_num = max_thr_num, Init
  PROVE  SlotsKept /\ Joined
<1>1. \A s \in Slots : s < min_thr_num
  BY ConstantsType DEF Slots
<1>2. \A s \in Slots : threads[s] \in Workers
  BY <1>1 DEF Init, Started
<1>3. \A w \in Workers : wpc[w] # "none" => \E s \in Slots : threads[s] = w
  BY DEF Init
<1>4. Joined
  BY DEF Init, Joined
<1> QED  BY <1>2, <1>3, <1>4 DEF SlotsKept

\* No worker is started, and one that has exited stays where it is.
ExitsLast ==
  /\ threads' = threads
  /\ \A w \in Workers : /\ wpc[w] = "none" => wpc'[w] = "none"
                        /\ Exited(w) => wpc'[w] = wpc[w]

LEMMA FixedExitsLast ==
  ASSUME min_thr_num = max_thr_num, Safe, Counters, [Next]_vars
  PROVE  ExitsLast
<1>1. wpc \in [Workers -> WorkerPC]
  BY DEF Safe, TypeOK
<1>2. ASSUME WakesOnly, threads' = threads PROVE ExitsLast
  BY <1>2 DEF WakesOnly, ExitsLast, Exited
<1>3. ASSUME NEW w \in Workers, WorkerStep(w) \/ SpuriousWorker(w) PROVE ExitsLast
  BY <1>1, <1>3 DEF WorkerStep, SpuriousWorker, W_Lock, W_Wait, W_Retire, W_Wake,
     W_Take, W_Begin, W_End, W_Exit, Decide, ExitsLast, Exited
<1>4. ASSUME NEW c \in Callers, AddStep(c) \/ SpuriousCaller(c) PROVE ExitsLast
  <2>1. threads' = threads /\ (SignalNotEmpty \/ wpc' = wpc)
    BY <1>4 DEF AddStep, SpuriousCaller, Add, AddRetry, AddSection, WaitForRoom,
       PutTask, FallThrough, LateFill, LateCommit, worker
  <2>2. WakesOnly
    BY <1>1, <2>1, SignalWakes DEF WakesOnly
  <2> QED  BY <1>2, <2>1, <2>2
<1>5. ASSUME ManagerStep PROVE ExitsLast
  <2>1. ~MoreToGrow
    BY ConstantsType DEF MoreToGrow, Counters, LiveCount, Safe, TypeOK
  <2>2. threads' = threads /\ (SignalNotEmpty \/ wpc' = wpc)
    BY <1>5, <2>1 DEF ManagerStep, M_Test, M_Snapshot, M_Busy, M_Grow, M_GrowSlot,
       M_GrowEnd, M_Shrink, M_Signal, worker
  <2>3. WakesOnly
    BY <1>1, <2>2, SignalWakes DEF WakesOnly
  <2> QED  BY <1>2, <2>2, <2>3
<1>6. ASSUME DestroyStep PROVE ExitsLast
  <2>1. threads' = threads /\ (BroadcastNotEmpty \/ wpc' = wpc)
    BY <1>6 DEF DestroyStep, D_Shutdown, D_JoinManager, D_Broadcast, D_Join, D_Free,
       worker
  <2>2. WakesOnly
    BY <1>1, <2>1, SignalWakes DEF WakesOnly
  <2> QED  BY <1>2, <2>1, <2>2
<1>7. CASE UNCHANGED vars
  BY <1>7 DEF vars, worker, ExitsLast
<1> QED  BY <1>3, <1>4, <1>5, <1>6, <1>7 DEF Next

LEMMA NextJoined ==
  ASSUME min_thr_num = max_thr_num, Safe, Counters, SlotsKept, Joined, [Next]_vars
  PROVE  SlotsKept' /\ Joined'
<1>1. ExitsLast
  BY FixedExitsLast
<1>2. SlotsKept'
  BY <1>1 DEF SlotsKept, ExitsLast
<1>3. \A s \in Slots : Exited(threads[s]) => Exited(threads[s])'
  BY <1>1 DEF SlotsKept, ExitsLast, Exited
<1>4. live_thr_num = max_thr_num /\ j \in Nat /\ max_thr_num \in Nat
  BY ConstantsType DEF Counters, LiveCount, Safe, TypeOK
<1>5. CASE D_Join /\ j < live_thr_num
  <2>1. /\ dpc' = dpc /\ j' = j + 1 /\ dpc = "join" /\ Exited(threads[j])
    BY <1>4, <1>5 DEF D_Join
  <2>2. \A s \in Slots : s < j + 1 => s < j \/ s = j
    BY <1>4 DEF Slots
  <2>3. \A s \in Slots : s < j' => Exited(threads[s])
    BY <2>1, <2>2 DEF Joined
  <2>4. \A s \in Slots : s < j' => Exited(threads[s])'
    BY <1>3, <2>3
  <2> QED  BY <1>2, <2>1, <2>4 DEF Joined
<1>6. CASE D_Join /\ j >= live_thr_num
  <2>1. dpc' = "free" /\ dpc = "join"
    BY <1>4, <1>6 DEF D_Join
  <2>2. \A s \in Slots : s < j
    BY <1>4, <1>6 DEF Slots
  <2>3. \A s \in Slots : Exited(threads[s])
    BY <2>1, <2>2 DEF Joined
  <2> QED  BY <1>2, <1>3, <2>1, <2>3 DEF Joined
<1>7. CASE dpc' = "join" /\ dpc # "join" /\ j' = 0
  <2>1. \A s \in Slots : ~(s < 0)
    BY ConstantsType DEF Slots
  <2> QED  BY <1>2, <1>7, <2>1 DEF Joined
<1>8. CASE dpc \in {"free", "freed"} /\ dpc' \in {"free", "freed"}
  BY <1>2, <1>3, <1>8 DEF Joined
<1>9. CASE dpc' \notin {"join", "free", "freed"}
  BY <1>2, <1>9 DEF Joined
<1>10. CASE dpc' = dpc /\ j' = j
  BY <1>2, <1>3, <1>10 DEF Joined
<1>11. CASE DestroyStep
  <2>1. j < live_thr_num \/ j >= live_thr_num
    BY <1>4
  <2>2. CASE D_Join
    BY <1>5, <1>6, <2>1, <2>2
  <2>3. CASE D_Shutdown \/ D_JoinManager
    BY <1>9, <2>3 DEF D_Shutdown, D_JoinManager
  <2>4. CASE D_Broadcast
    BY <1>7, <1>9, <2>4 DEF D_Broadcast
  <2>5. CASE D_Free
    BY <1>8, <2>5 DEF D_Free
  <2> QED  BY <1>11, <2>2, <2>3, <2>4, <2>5 DEF DestroyStep
<1>12. CASE ~DestroyStep
  <2>1. dpc' = dpc /\ j' = j
    BY <1>12 DEF Next, vars, WorkerStep, AddStep, ManagerStep, W_Lock, W_Wait, W_Retire,
       W_Wake, W_Take, W_Begin, W_End, W_Exit, SpuriousWorker, SpuriousCaller, Add,
       AddRetry, AddSection, LateFill, LateCommit, M_Test, M_Snapshot, M_Busy, M_Grow,
       M_GrowSlot, M_GrowEnd, M_Shrink, M_Signal, destroy
  <2> QED  BY <1>10, <2>1
<1> QED  BY <1>11, <1>12

(* The pool of fixed size is freed when all its workers have exited: the   *)
(* loop of joins over the first live_thr_num slots reaches each of them    *)
(* (threadpool.c:296-300), as no slot is left to a retired one.            *)
THEOREM FixedPoolFreedLast ==
  ASSUME min_thr_num = max_thr_num
  PROVE  Spec => []WorkersGoneAtFree
<1>1. Init => SlotsKept /\ Joined
  BY InitJoined
<1>2. Safe /\ Counters /\ SlotsKept /\ Joined /\ [Next]_vars => SlotsKept' /\ Joined'
  BY NextJoined
<1>3. SlotsKept /\ Joined => WorkersGoneAtFree
  BY DEF SlotsKept, Joined, WorkersGoneAtFree
<1> QED  BY CountersAlways, <1>1, <1>2, <1>3, PTL DEF Spec
=============================================================================
