----------------------------- MODULE ThreadPool -----------------------------
(***************************************************************************)
(* The thread pool of src/thread_pool/threadpool.c: callers put tasks on a *)
(* ring of slots, worker threads take and run them, a manager thread adds  *)
(* and retires workers, and threadpool_destroy stops them all.             *)
(*                                                                         *)
(* One action is one critical section of pool->lock or of                  *)
(* pool->thread_counter, or one access outside both.  A worker's section   *)
(* is cut where another thread can see or disturb it: between its test of  *)
(* the flag `shutdown', which threadpool_destroy sets without the lock,    *)
(* and its wait, or its removal of a task.                                 *)
(***************************************************************************)
EXTENDS Integers, FiniteSets, Sequences

CONSTANTS
  Workers,               \* identities of worker threads
  Callers,               \* threads that call threadpool_add
  Tasks,                 \* the (function, arg) pairs, each handed over once
  NULL,                  \* a null arg, an empty slot of threads[]
  Junk,                  \* what an uninitialised arg may hold
  min_thr_num, max_thr_num, queue_max_size,
  MIN_WAIT_TASK_NUM, DEFAULT_THREAD_VARY,
  InitialWaitExit,       \* what malloc may leave in wait_exit_thr_num
  ProbeSeesExit,         \* does pthread_kill report a thread that exited?
  SharedPool             \* may destroy run while other threads call add?

ASSUME PoolAssumption ==
  /\ IsFiniteSet(Workers)
  /\ {min_thr_num, max_thr_num, queue_max_size} \subseteq Nat \ {0}
  /\ min_thr_num <= max_thr_num /\ max_thr_num <= Cardinality(Workers)
  /\ {MIN_WAIT_TASK_NUM, DEFAULT_THREAD_VARY} \subseteq Nat \ {0}
  /\ InitialWaitExit \subseteq Int
  /\ {ProbeSeesExit, SharedPool} \subseteq BOOLEAN
  /\ {"free", "manager", NULL} \cap Workers = {}
  /\ {NULL, Junk} \cap Tasks = {} /\ NULL # Junk

Positions == 0 .. queue_max_size - 1     \* indices of task_queue
Slots     == 0 .. max_thr_num - 1        \* indices of threads

VARIABLES
  lock,                  \* who holds pool->lock
  shutdown,
  task_queue, queue_front, queue_rear, queue_size,
  threads, live_thr_num, busy_thr_num, wait_exit_thr_num,
  wpc, task,             \* per worker: where it is, and the task in its hands
  cpc, pending, seen,    \* per caller: where it is, its task, what it read
                         \* of the ring without the lock
  mpc, snap, add, i,     \* the manager and its local variables
  dpc, j,                \* threadpool_destroy and its loop index
  submitted, ran, freed  \* history: tasks handed over, tasks run to the end,
                         \* args passed to free()

ring    == <<task_queue, queue_front, queue_rear, queue_size>>
counts  == <<live_thr_num, busy_thr_num, wait_exit_thr_num>>
worker  == <<wpc, task>>
caller  == <<cpc, pending, seen>>
manager == <<mpc, snap, add, i>>
destroy == <<dpc, j>>
history == <<submitted, ran, freed>>
vars == <<lock, shutdown, ring, threads, counts, worker, caller, manager,
          destroy, history>>

WorkerPC == {"none", "lock", "wait", "waiting", "woken", "take", "start",
             "run", "retiring", "retired", "stopping", "stopped"}
CallerPC == {"idle", "blocked", "woken", "late", "commit"}
ManagerPC == {"test", "sleep", "busy", "grow", "growing", "shrink", "signal",
              "exited"}
DestroyPC == {"idle", "join_manager", "broadcast", "join", "free", "freed"}

\* pthread_exit has run: a join returns, and the probe may report it.
Exited(w) == wpc[w] \in {"retired", "stopped"}
\* threads[s] has been the target of a pthread_create.
Started(s) == threads[s] # NULL
\* The workers the pool counts as alive: created and not retired.
Counted == {w \in Workers : wpc[w] \notin {"none", "retiring", "retired"}}
\* The workers inside a task, between the two updates of busy_thr_num.
Running == {w \in Workers : wpc[w] = "run"}

\* What the manager holds between two rounds.
NoSnap == [size |-> 0, live |-> 0, busy |-> 0]

\* Mutant of RingNext: the index runs off the end of the ring.
RingNextNoWrap(p) == p + 1

RingNext(p) == (p + 1) % queue_max_size
-----------------------------------------------------------------------------
(* threadpool_create returns a pool whose first min_thr_num slots hold new *)
(* threads.  It zeroes threads[], and leaves task_queue[] and              *)
(* wait_exit_thr_num as malloc returned them.                              *)
Init ==
  /\ lock = "free" /\ shutdown = FALSE
  /\ \E a \in {NULL, Junk} : task_queue = [p \in Positions |-> a]
  /\ queue_front = 0 /\ queue_rear = 0 /\ queue_size = 0
  /\ threads \in [Slots -> Workers \cup {NULL}]
  /\ \A s \in Slots : Started(s) <=> s < min_thr_num
  /\ \A s, r \in Slots : Started(s) /\ threads[s] = threads[r] => s = r
  /\ live_thr_num = min_thr_num /\ busy_thr_num = 0
  /\ wait_exit_thr_num \in InitialWaitExit
  /\ wpc = [w \in Workers |->
              IF \E s \in Slots : threads[s] = w THEN "lock" ELSE "none"]
  /\ task = [w \in Workers |-> NULL]
  /\ cpc = [c \in Callers |-> "idle"]
  /\ pending = [c \in Callers |-> NULL]
  /\ seen = [c \in Callers |-> <<0, 0>>]
  /\ mpc = "test" /\ snap = NoSnap
  /\ add = 0 /\ i = 0
  /\ dpc = "idle" /\ j = 0
  /\ submitted = {} /\ ran = {} /\ freed = {}
-----------------------------------------------------------------------------
(* Condition variables.  A signal wakes one waiting thread, if there is    *)
(* one; a wait may also end for no reason.                                 *)

\* Mutant of SignalNotEmpty: the signal is forgotten.
SignalDropped == wpc' = wpc

SignalNotEmpty ==
  IF \E w \in Workers : wpc[w] = "waiting"
  THEN \E w \in Workers : /\ wpc[w] = "waiting"
                          /\ wpc' = [wpc EXCEPT ![w] = "woken"]
  ELSE wpc' = wpc

BroadcastNotEmpty ==
  wpc' = [w \in Workers |-> IF wpc[w] = "waiting" THEN "woken" ELSE wpc[w]]

\* Mutant of BroadcastNotFull: the broadcast is forgotten.
BroadcastDropped == cpc' = cpc

BroadcastNotFull ==
  cpc' = [c \in Callers |-> IF cpc[c] = "blocked" THEN "woken" ELSE cpc[c]]

SpuriousWorker(w) ==
  /\ wpc[w] = "waiting"
  /\ wpc' = [wpc EXCEPT ![w] = "woken"]
  /\ UNCHANGED <<lock, shutdown, ring, threads, counts, task, caller, manager,
                 destroy, history>>

SpuriousCaller(c) ==
  /\ cpc[c] = "blocked"
  /\ cpc' = [cpc EXCEPT ![c] = "woken"]
  /\ UNCHANGED <<lock, shutdown, ring, threads, counts, worker, pending, seen,
                 manager, destroy, history>>
-----------------------------------------------------------------------------
(* threadpool_add                                                          *)

\* Mutant of FillSlot: the slot is filled first, and its arg freed after.
FillThenFree(p, t) ==
  /\ task_queue' = [task_queue EXCEPT ![p] = t]
  /\ freed' = freed \cup {t}

\* The arg that the slot at queue_rear still holds is freed, then the slot
\* is filled.
FillSlot(p, t) ==
  /\ freed' = IF task_queue[p] = NULL THEN freed ELSE freed \cup {task_queue[p]}
  /\ task_queue' = [task_queue EXCEPT ![p] = t]

\* Mutant of Full: one task too many fits.
FullOffByOne == queue_size > queue_max_size

Full == queue_size = queue_max_size

\* The ring is full and the pool is open: wait on queue_not_full.
WaitForRoom(c, t) ==
  /\ Full /\ ~shutdown
  /\ cpc' = [cpc EXCEPT ![c] = "blocked"]
  /\ pending' = [pending EXCEPT ![c] = t]
  /\ UNCHANGED <<ring, wpc, freed>>

\* There is room and the pool is open: put the task and wake a worker.
PutTask(c, t) ==
  /\ ~Full /\ ~shutdown
  /\ FillSlot(queue_rear, t)
  /\ queue_rear' = RingNext(queue_rear)
  /\ queue_size' = queue_size + 1
  /\ SignalNotEmpty
  /\ cpc' = [cpc EXCEPT ![c] = "idle"]
  /\ pending' = [pending EXCEPT ![c] = NULL]
  /\ UNCHANGED queue_front

\* The pool is shut down: the lock is released, and the call goes on.
FallThrough(c, t) ==
  /\ shutdown
  /\ cpc' = [cpc EXCEPT ![c] = "late"]
  /\ pending' = [pending EXCEPT ![c] = t]
  /\ UNCHANGED <<ring, wpc, freed>>

\* Mutant of AddSection: the lock is not taken.
AddSectionUnlocked(c, t) ==
  /\ WaitForRoom(c, t) \/ PutTask(c, t) \/ FallThrough(c, t)
  /\ UNCHANGED <<lock, shutdown, threads, counts, task, seen, manager, destroy,
                 ran>>

\* One holding of the lock, from pthread_mutex_lock or from the end of a
\* wait to the next wait or unlock.
AddSection(c, t) ==
  /\ lock = "free"
  /\ WaitForRoom(c, t) \/ PutTask(c, t) \/ FallThrough(c, t)
  /\ UNCHANGED <<lock, shutdown, threads, counts, task, seen, manager, destroy,
                 ran>>

\* main calls destroy when every call of add has returned, and add no more.
Add(c, t) ==
  /\ cpc[c] = "idle" /\ t \notin submitted
  /\ SharedPool \/ dpc = "idle"
  /\ submitted' = submitted \cup {t}
  /\ AddSection(c, t)

AddRetry(c) ==
  /\ cpc[c] = "woken"
  /\ AddSection(c, pending[c])
  /\ UNCHANGED submitted

\* After the fall-through the slot is filled with no lock held ...
LateFill(c) ==
  /\ cpc[c] = "late"
  /\ seen' = [seen EXCEPT ![c] = <<queue_rear, queue_size>>]
  /\ FillSlot(queue_rear, pending[c])
  /\ cpc' = [cpc EXCEPT ![c] = "commit"]
  /\ UNCHANGED <<lock, shutdown, queue_front, queue_rear, queue_size, threads,
                 counts, worker, pending, manager, destroy, submitted, ran>>

\* ... and the indices are advanced, from what the call read then or reads
\* now; the second unlock frees the mutex whoever holds it.
LateCommit(c) ==
  /\ cpc[c] = "commit"
  /\ \E read \in {seen[c], <<queue_rear, queue_size>>} :
       queue_rear' = RingNext(read[1]) /\ queue_size' = read[2] + 1
  /\ SignalNotEmpty
  /\ lock' = "free"
  /\ cpc' = [cpc EXCEPT ![c] = "idle"]
  /\ pending' = [pending EXCEPT ![c] = NULL]
  /\ seen' = [seen EXCEPT ![c] = <<0, 0>>]
  /\ UNCHANGED <<shutdown, task_queue, queue_front, threads, counts, task,
                 manager, destroy, history>>
-----------------------------------------------------------------------------
(* threadpool_thread                                                       *)

\* The test of the while loop and of the flag, with the lock held.
Decide(w) ==
  \/ /\ queue_size = 0 /\ ~shutdown
     /\ wpc' = [wpc EXCEPT ![w] = "wait"] /\ lock' = w
  \/ /\ shutdown
     /\ wpc' = [wpc EXCEPT ![w] = "stopping"] /\ lock' = "free"
  \/ /\ queue_size # 0 /\ ~shutdown
     /\ wpc' = [wpc EXCEPT ![w] = "take"] /\ lock' = w

W_Lock(w) ==
  /\ wpc[w] = "lock" /\ lock = "free"
  /\ Decide(w)
  /\ UNCHANGED <<shutdown, ring, threads, counts, task, caller, manager,
                 destroy, history>>

\* pthread_cond_wait: the lock is released and the worker waits, in one step.
W_Wait(w) ==
  /\ wpc[w] = "wait"
  /\ wpc' = [wpc EXCEPT ![w] = "waiting"] /\ lock' = "free"
  /\ UNCHANGED <<shutdown, ring, threads, counts, task, caller, manager,
                 destroy, history>>

\* Mutant of MayRetire: the last worker the pool must keep may go too.
MayRetireAtMinimum == live_thr_num >= min_thr_num

\* The pool has more workers than it has to keep.
MayRetire == live_thr_num > min_thr_num

\* A woken worker answers a request to retire before it looks at the ring,
\* and the request is used up even when the worker stays.
W_Retire(w) ==
  /\ wpc[w] = "woken" /\ lock = "free"
  /\ wait_exit_thr_num > 0 /\ MayRetire
  /\ wait_exit_thr_num' = wait_exit_thr_num - 1
  /\ live_thr_num' = live_thr_num - 1
  /\ wpc' = [wpc EXCEPT ![w] = "retiring"]
  /\ UNCHANGED <<lock, shutdown, ring, threads, busy_thr_num, task, caller,
                 manager, destroy, history>>

W_Wake(w) ==
  /\ wpc[w] = "woken" /\ lock = "free"
  /\ ~(wait_exit_thr_num > 0 /\ MayRetire)
  /\ wait_exit_thr_num' = IF wait_exit_thr_num > 0 THEN wait_exit_thr_num - 1
                                                  ELSE wait_exit_thr_num
  /\ Decide(w)
  /\ UNCHANGED <<shutdown, ring, threads, live_thr_num, busy_thr_num, task,
                 caller, manager, destroy, history>>

\* Mutant of Dequeue: the head stays where it was.
DequeueInPlace(w) ==
  /\ task' = [task EXCEPT ![w] = task_queue[queue_front]]
  /\ queue_front' = queue_front
  /\ queue_size' = queue_size - 1

\* The task at the head of the ring leaves it.
Dequeue(w) ==
  /\ task' = [task EXCEPT ![w] = task_queue[queue_front]]
  /\ queue_front' = RingNext(queue_front)
  /\ queue_size' = queue_size - 1

W_Take(w) ==
  /\ wpc[w] = "take"
  /\ Dequeue(w)
  /\ BroadcastNotFull
  /\ wpc' = [wpc EXCEPT ![w] = "start"] /\ lock' = "free"
  /\ UNCHANGED <<shutdown, task_queue, queue_rear, threads, counts, pending,
                 seen, manager, destroy, history>>

W_Begin(w) ==
  /\ wpc[w] = "start"
  /\ busy_thr_num' = busy_thr_num + 1
  /\ wpc' = [wpc EXCEPT ![w] = "run"]
  /\ UNCHANGED <<lock, shutdown, ring, threads, live_thr_num, wait_exit_thr_num,
                 task, caller, manager, destroy, history>>

\* Mutant of W_End: the worker goes back for the next task still busy.
W_EndStillBusy(w) ==
  /\ wpc[w] = "run"
  /\ ran' = ran \cup {task[w]}
  /\ task' = [task EXCEPT ![w] = NULL]
  /\ wpc' = [wpc EXCEPT ![w] = "lock"]
  /\ UNCHANGED <<lock, shutdown, ring, threads, counts, caller, manager, destroy,
                 submitted, freed>>

W_End(w) ==
  /\ wpc[w] = "run"
  /\ busy_thr_num' = busy_thr_num - 1
  /\ ran' = ran \cup {task[w]}
  /\ task' = [task EXCEPT ![w] = NULL]
  /\ wpc' = [wpc EXCEPT ![w] = "lock"]
  /\ UNCHANGED <<lock, shutdown, ring, threads, live_thr_num, wait_exit_thr_num,
                 caller, manager, destroy, submitted, freed>>

\* pthread_exit, after the unlock.
W_Exit(w) ==
  /\ \/ wpc[w] = "retiring" /\ wpc' = [wpc EXCEPT ![w] = "retired"]
     \/ wpc[w] = "stopping" /\ wpc' = [wpc EXCEPT ![w] = "stopped"]
  /\ UNCHANGED <<lock, shutdown, ring, threads, counts, task, caller, manager,
                 destroy, history>>
-----------------------------------------------------------------------------
(* adjust_thread                                                           *)

\* The conditions on the counts the manager read some steps ago.
GrowDue   == snap.size >= MIN_WAIT_TASK_NUM /\ snap.live < max_thr_num
ShrinkDue(s) == s.busy * 2 < s.live /\ s.live > min_thr_num

\* The second half of a round.  What it read goes out of scope at the end.
ShrinkOrEnd(s) ==
  \/ ShrinkDue(s) /\ mpc' = "shrink" /\ snap' = s
  \/ ~ShrinkDue(s) /\ mpc' = "test" /\ snap' = NoSnap

\* Mutant of M_Test: the manager loops for ever.
M_TestForever ==
  /\ mpc = "test" /\ mpc' = "sleep"
  /\ UNCHANGED <<lock, shutdown, ring, threads, counts, worker, caller, snap,
                 add, i, destroy, history>>

M_Test ==
  /\ mpc = "test"
  /\ mpc' = IF shutdown THEN "exited" ELSE "sleep"
  /\ UNCHANGED <<lock, shutdown, ring, threads, counts, worker, caller, snap,
                 add, i, destroy, history>>

M_Snapshot ==
  /\ mpc = "sleep" /\ lock = "free"
  /\ snap' = [snap EXCEPT !.size = queue_size, !.live = live_thr_num]
  /\ mpc' = "busy"
  /\ UNCHANGED <<lock, shutdown, ring, threads, counts, worker, caller, add, i,
                 destroy, history>>

M_Busy ==
  /\ mpc = "busy"
  /\ LET s == [snap EXCEPT !.busy = busy_thr_num] IN
       \/ GrowDue /\ mpc' = "grow" /\ snap' = s
       \/ ~GrowDue /\ ShrinkOrEnd(s)
  /\ UNCHANGED <<lock, shutdown, ring, threads, counts, worker, caller, add, i,
                 destroy, history>>

M_Grow ==
  /\ mpc = "grow" /\ lock = "free"
  /\ lock' = "manager" /\ i' = 0 /\ add' = 0
  /\ mpc' = "growing"
  /\ UNCHANGED <<shutdown, ring, threads, counts, worker, caller, snap, destroy,
                 history>>

\* One turn of the loop needs a slot, a worker to add and room for it.
MoreToGrow == i < max_thr_num /\ add < DEFAULT_THREAD_VARY
                /\ live_thr_num < max_thr_num

\* The slot was never used, or the probe says that its thread is gone.
SlotIsFree(s) == \A w \in Workers : threads[s] = w => ProbeSeesExit /\ Exited(w)

\* Threads pthread_create may return for slot s: new ones, and the identity
\* of one that exited and that no other slot remembers.
Fresh(s) ==
  {w \in Workers : \/ wpc[w] = "none"
                   \/ Exited(w) /\ \A r \in Slots \ {s} : threads[r] # w}

StartWorker(s) ==
  /\ \E w \in Fresh(s) : /\ threads' = [threads EXCEPT ![s] = w]
                         /\ wpc' = [wpc EXCEPT ![w] = "lock"]
  /\ add' = add + 1
  /\ live_thr_num' = live_thr_num + 1

M_GrowSlot ==
  /\ mpc = "growing" /\ MoreToGrow
  /\ \/ SlotIsFree(i) /\ StartWorker(i)
     \/ ~SlotIsFree(i) /\ UNCHANGED <<threads, wpc, add, live_thr_num>>
  /\ i' = i + 1
  /\ UNCHANGED <<lock, shutdown, ring, busy_thr_num, wait_exit_thr_num, task,
                 caller, mpc, snap, destroy, history>>

M_GrowEnd ==
  /\ mpc = "growing" /\ ~MoreToGrow
  /\ lock' = "free"
  /\ ShrinkOrEnd(snap)
  /\ UNCHANGED <<shutdown, ring, threads, counts, worker, caller, add, i,
                 destroy, history>>

M_Shrink ==
  /\ mpc = "shrink" /\ lock = "free"
  /\ wait_exit_thr_num' = DEFAULT_THREAD_VARY
  /\ i' = 0
  /\ mpc' = "signal"
  /\ UNCHANGED <<lock, shutdown, ring, threads, live_thr_num, busy_thr_num,
                 worker, caller, snap, add, destroy, history>>

\* DEFAULT_THREAD_VARY signals, with no lock held.
M_Signal ==
  /\ mpc = "signal"
  /\ \/ /\ i < DEFAULT_THREAD_VARY
        /\ SignalNotEmpty /\ i' = i + 1
        /\ UNCHANGED <<mpc, snap>>
     \/ /\ i >= DEFAULT_THREAD_VARY
        /\ mpc' = "test" /\ snap' = NoSnap
        /\ UNCHANGED <<wpc, i>>
  /\ UNCHANGED <<lock, shutdown, ring, threads, counts, task, caller, add,
                 destroy, history>>
-----------------------------------------------------------------------------
(* threadpool_destroy and threadpool_free                                  *)

\* main has returned from every call of add when it calls destroy.
D_Shutdown ==
  /\ dpc = "idle"
  /\ SharedPool \/ \A c \in Callers : cpc[c] = "idle"
  /\ shutdown' = TRUE
  /\ dpc' = "join_manager"
  /\ UNCHANGED <<lock, ring, threads, counts, worker, caller, manager, j, history>>

D_JoinManager ==
  /\ dpc = "join_manager" /\ mpc = "exited"
  /\ dpc' = "broadcast" /\ j' = 0
  /\ UNCHANGED <<lock, shutdown, ring, threads, counts, worker, caller, manager,
                 history>>

D_Broadcast ==
  /\ dpc = "broadcast"
  /\ \/ j < live_thr_num /\ BroadcastNotEmpty /\ j' = j + 1 /\ dpc' = dpc
     \/ j >= live_thr_num /\ dpc' = "join" /\ j' = 0 /\ wpc' = wpc
  /\ UNCHANGED <<lock, shutdown, ring, threads, counts, task, caller, manager,
                 history>>

\* pthread_join returns when the thread of the slot has exited.
D_Join ==
  /\ dpc = "join"
  /\ \/ /\ j < live_thr_num /\ Started(j) /\ Exited(threads[j])
        /\ j' = j + 1 /\ dpc' = dpc
     \/ j >= live_thr_num /\ dpc' = "free" /\ j' = j
  /\ UNCHANGED <<lock, shutdown, ring, threads, counts, worker, caller, manager,
                 history>>

\* threadpool_free releases the arrays and takes both mutexes to destroy them.
D_Free ==
  /\ dpc = "free" /\ lock = "free"
  /\ dpc' = "freed"
  /\ UNCHANGED <<lock, shutdown, ring, threads, counts, worker, caller, manager,
                 j, history>>
-----------------------------------------------------------------------------
WorkerStep(w) == W_Lock(w) \/ W_Wait(w) \/ W_Retire(w) \/ W_Wake(w) \/ W_Take(w)
                   \/ W_Begin(w) \/ W_End(w) \/ W_Exit(w)
AddStep(c)    == (\E t \in Tasks : Add(c, t)) \/ AddRetry(c) \/ LateFill(c)
                   \/ LateCommit(c)
ManagerStep   == M_Test \/ M_Snapshot \/ M_Busy \/ M_Grow \/ M_GrowSlot
                   \/ M_GrowEnd \/ M_Shrink \/ M_Signal
DestroyStep   == D_Shutdown \/ D_JoinManager \/ D_Broadcast \/ D_Join \/ D_Free

(* The pool's memory is gone after threadpool_free: what a thread that is  *)
(* still there does next is undefined, and no step of it is described.     *)
Next ==
  /\ dpc # "freed"
  /\ \/ \E w \in Workers : WorkerStep(w) \/ SpuriousWorker(w)
     \/ \E c \in Callers : AddStep(c) \/ SpuriousCaller(c)
     \/ ManagerStep
     \/ DestroyStep

Spec == Init /\ [][Next]_vars

(* Threads are scheduled, callbacks return, and a thread that wants a lock *)
(* others keep releasing gets it.  Nobody has to call add or destroy.      *)
Fairness ==
  /\ \A w \in Workers : SF_vars(WorkerStep(w) /\ dpc # "freed")
  /\ \A c \in Callers : SF_vars((AddRetry(c) \/ LateFill(c) \/ LateCommit(c))
                                   /\ dpc # "freed")
  /\ SF_vars(ManagerStep /\ dpc # "freed")
  /\ SF_vars(D_JoinManager \/ D_Broadcast \/ D_Join \/ D_Free)

FairSpec == Spec /\ Fairness
-----------------------------------------------------------------------------
TypeOK ==
  /\ lock \in Workers \cup {"free", "manager"}
  /\ shutdown \in BOOLEAN
  /\ task_queue \in [Positions -> Tasks \cup {NULL, Junk}]
  /\ {queue_front, queue_rear} \subseteq Positions
  /\ queue_size \in Nat
  /\ threads \in [Slots -> Workers \cup {NULL}]
  /\ live_thr_num \in Int /\ busy_thr_num \in Int /\ wait_exit_thr_num \in Int
  /\ wpc \in [Workers -> WorkerPC]
  /\ task \in [Workers -> Tasks \cup {NULL, Junk}]
  /\ cpc \in [Callers -> CallerPC]
  /\ pending \in [Callers -> Tasks \cup {NULL}]
  /\ seen \in [Callers -> Positions \X Nat]
  /\ mpc \in ManagerPC
  /\ snap \in [size : Nat, live : Int, busy : Int]
  /\ add \in Nat /\ i \in Nat
  /\ dpc \in DestroyPC /\ j \in Nat
  /\ submitted \subseteq Tasks
  /\ ran \subseteq Tasks \cup {NULL, Junk}
  /\ freed \subseteq Tasks \cup {Junk}

\* The tasks on the ring, the oldest first.
Window == [k \in 1 .. queue_size |->
             task_queue[(queue_front + k - 1) % queue_max_size]]
Queued == {Window[k] : k \in 1 .. queue_size}
Held   == {task[w] : w \in {v \in Workers : wpc[v] \in {"start", "run"}}}

(* pool->lock does its work, although destroy sets the flag without it and *)
(* a late add unlocks it twice: a worker between its test of the ring and  *)
(* its wait or its removal of a task holds the lock, and what it tested    *)
(* still holds; when a late add works without the lock, no worker is there.*)
Exclusion ==
  /\ \A w \in Workers : wpc[w] \in {"wait", "take"} => lock = w
  /\ \A w \in Workers : wpc[w] = "wait" => queue_size = 0
  /\ \A w \in Workers : wpc[w] = "take" => queue_size > 0
  /\ \A c \in Callers : cpc[c] \in {"late", "commit"} =>
       shutdown /\ \A w \in Workers : wpc[w] \notin {"wait", "take"}
  /\ mpc = "growing" =>
       \/ lock = "manager"
       \/ shutdown /\ \A w \in Workers : wpc[w] \notin {"wait", "take"}

(* While the pool is open, the counter the manager decides by is the       *)
(* number of workers created and not retired; it always stays in the       *)
(* bounds the pool was created with (threadpool.c:35, 180-183, 251-256).   *)
LiveCount ==
  /\ ~shutdown => live_thr_num = Cardinality(Counted)
  /\ min_thr_num <= live_thr_num /\ live_thr_num <= max_thr_num

(* busy_thr_num is the number of workers inside a callback.                *)
BusyCount == busy_thr_num = Cardinality(Running)

(* A task handed over is in exactly one place: with a caller waiting for   *)
(* room, once on the ring, in the hands of one worker, or run to the end.  *)
OnePlace ==
  \A t \in Tasks :
    Cardinality({c \in Callers : pending[c] = t})
      + Cardinality({k \in 1 .. queue_size : Window[k] = t})
      + Cardinality({w \in Workers : task[w] = t})
      + Cardinality({t} \cap ran) = Cardinality({t} \cap submitted)

(* No slot holds an arg that add has freed, so that none is freed twice    *)
(* and no worker is handed a dangling one (threadpool.c:142-148, 198).     *)
NoDanglingSlot ==
  \A p \in Positions : task_queue[p] \in Tasks => task_queue[p] \notin freed

(* No wakeup is lost: while the pool is open and a task is on the ring, at *)
(* least one worker is on its way to the test of the ring, unless a signal *)
(* is still to come from a caller that waits.                              *)
NoStrandedTask ==
  queue_size > 0 /\ ~shutdown => \E w \in Counted : wpc[w] # "waiting"

(* threadpool_destroy frees the pool when no worker can use it any more.   *)
WorkersGoneAtFree ==
  dpc = "freed" => \A w \in Workers : wpc[w] = "none" \/ Exited(w)

(* A task on the ring is taken, or the pool is shut down.                  *)
TaskTaken == \A t \in Tasks : (t \in Queued) ~> (t \notin Queued \/ shutdown)

(* threadpool_destroy, once called, comes to its end.                      *)
DestroyEnds == (dpc = "join_manager") ~> (dpc = "freed")

(* A caller that waits for room gets it, or the pool is shut down.         *)
CallerServed ==
  \A c \in Callers : (cpc[c] = "blocked") ~> (cpc[c] = "idle" \/ shutdown)

(* The manager stops within a round of the shutdown, whatever else goes on.*)
ManagerStops == shutdown ~> (mpc = "exited")

(* The ring implements the bounded first-in first-out line of TaskFifo:    *)
(* a worker that holds or has run a task has taken it.                     *)
Fifo == INSTANCE TaskFifo WITH fifo <- Window, taken <- ran \cup Held,
                               Capacity <- queue_max_size
ImplementsFifo == Fifo!Spec
=============================================================================
