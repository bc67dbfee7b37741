# TLA+ models of LinuxAPI-And-SocketProgramming

This directory specifies, model-checks and in part proves the concurrent
programs of the repository. The repository is a collection of small,
independent Linux programs; each model is of one of them, and paths below are
relative to `src/`.

## 1. The system's parts

| component | source | state it keeps | operations | model |
|---|---|---|---|---|
| thread pool | `thread_pool/threadpool.c`, `.h` | ring of tasks (`task_queue`, `queue_front`, `queue_rear`, `queue_size`), `threads[]`, `live_thr_num`, `busy_thr_num`, `wait_exit_thr_num`, `shutdown`; two mutexes, two condition variables | `threadpool_create`, `threadpool_add`, worker `threadpool_thread`, manager `adjust_thread`, `threadpool_destroy`, `threadpool_free`, two counters to read | `ThreadPool` |
| semaphore ring | `thread_code/sem_thread.c` | `value[6]`, two semaphores, one index per thread | producer, consumer | `SemRing` |
| condition-variable list | `thread_code/cond_thread.c` | linked list `head`, mutex, condition | producer, two consumers | `CondList` |
| thread-per-connection server | `tcp_code/server_thread.c` | `user_sock[MAX_USER]`, `user` | main's accept loop, one detached worker per client | `ThreadServer` |
| process-per-connection server | `tcp_code/server_fork.c` | `user`, disposition and mask of SIGCHLD, child processes | main's accept loop, child, handler `recycle_child` | `ForkServer` |
| epoll server | `select_poll_epoll/epoll_server.c`, `epoll_server2.c`, `mtlt.cpp`, `9-3mtlt.cpp` | the kernel's interest and ready lists, level- or edge-triggered | wait, accept, read and echo, close | `EpollServer` |
| select server, poll server | `select_poll_epoll/select_server.c`, `poll_server.c` | `client_fds`, `max_fd` | wait, accept, read and echo, close | `PollServer` |
| http on epoll | `http_code/epoll/` | epoll lists, what was received of a request | `do_accept`, `do_read`, `http_get_request`, `disconnect` | `HttpEpoll` |
| libevent servers | `http_code/libevent/`, `lIbevent_code/event_server.c` | one bufferevent per connection: what was read and not taken, what was written and not sent | `cb_listener`, `cb_read`, `cb_write`, `cb_event`, `cb_signal`, `http_response` | `LibeventServer` |
| SIGCHLD demonstration | `signal_code/recycle_process_signal.c` | signal mask, children | fork five, install, unblock, reap | `ForkServer` |
| pipes and fifos | `IPC_code/01_pipe.c`, `grep_pipe.c`, `r_fifo.c`, `w_fifo.c`, `lIbevent_code/read_fifo.c`, `write_fifo.c` | open ends of a pipe or fifo, its contents | fork, exec, open, write, read, close | `Pipes` |
| udp echo | `udp_code/` | datagrams under way, the server's `client_addr` and buffer | request, answer | `UdpEcho` |
| file count | `dir_code/file_count.c` | a directory tree | recursive count | no: sequential |
| chat server | `server_code/` | `fds[]`, `user` | accept, broadcast | no: does not compile (line 18) |
| other demonstrations | `signal_code/`, `process_code/`, `dir_code/`, `ls_code/`, `IO_code/`, `IPC_code/mmap.c`, `tcp_code/client.c` | none | single system calls | no |

How the parts interact. There are no calls between the programs. Inside the
pool, callers, workers, the manager and `threadpool_destroy` meet in the pool's
memory: most of it under `pool->lock`, `busy_thr_num` under
`pool->thread_counter`, `shutdown` and the manager's signals under neither. In
the two producer/consumer programs the threads meet in a ring (semaphores, no
lock) and in a list (mutex and condition). In `server_thread.c` main and the
workers meet in `user_sock` and `user` with no lock at all; in `server_fork.c`
they are processes, and main is interrupted by its own signal handler. In the
event servers one thread meets the kernel, which changes its ready lists at any
moment; those on libevent are called back by a loop that keeps two buffers per
connection between the program and the kernel. The pipe programs are two
processes that meet in a pipe and in who still holds which end of it; the udp
programs meet in a network.

What is hard about them, per component, is listed with its source line under
`hazards` in `PROJECT.json`. In short: wakeups that go to the wrong thread or
come before the wait; counters that several threads keep and another decides
by; a flag set outside the lock; slots reused while their last user is still
there; increments that are a load and a store; signals that merge or come
between a call and the test of `errno`; tables at their limit; edges that are
reported once; buffers that are dropped with their connection; ends of a pipe
that nobody closes; datagrams that are lost or come twice.

What makes each component correct:

* **pool**: a task handed over is run once, in order of arrival, unless the pool
  is shut down; no wakeup is lost; the counters agree with the threads; no arg
  that was freed is handed to a worker; destroy stops every worker, then frees
  the pool, and returns.
* **semaphore ring**: producer and consumer never touch the same slot, and the
  numbers come out as they went in.
* **list**: no node is used after it was freed, none is taken twice, every node
  is freed.
* **thread server**: a slot belongs to one worker at a time, and there is room
  in the table when main accepts.
* **fork server**: no child stays a zombie, and the number of clients is right.
* **event servers**: every connection is accepted, every input is read, a GET is
  answered, a connection is closed when its client has left, the tables hold the
  open connections, and the server never blocks outside its wait.
* **pipe programs**: the reader gets all that was written, and both sides end
  even when the other could not be started or is stopped.
* **udp echo**: a client gets the answer to its own line.

## 2. Modules

| module | what it is |
|---|---|
| `TaskFifo` | abstract: a bounded first-in first-out line that a task joins at most once |
| `ThreadPool` | the pool; implements `TaskFifo` |
| `MCThreadPool` | small instances for TLC: symmetry, and a constraint |
| `ThreadPool_proofs`, `ThreadTasks_proofs` | theorems about `ThreadPool`: its threads and counters, and its tasks |
| `SemRing`, `SemRing_proofs` | the semaphore ring, which implements `TaskFifo` as well, and theorems about it |
| `RingLemmas` | arithmetic of ring indices, for both rings |
| `CondList`, `CondList_proofs` | the list, and theorems about it |
| `ThreadServer`, `ThreadServer_proofs` | the thread server, and theorems about it |
| `ForkServer` | the fork server, and the SIGCHLD demonstration |
| `Pipes` | the four programs with a pipe or fifo |
| `UdpEcho` | udp clients and server, and the network |
| `Processes`, `Processes_proofs` | instances of the last three over one set of variables, and theorems about them |
| `Sockets` | external: listen queue, connections, their clients, what a read or write returns |
| `Epoll` | extends `Sockets`: the ready list, `epoll_wait`, accept and registration |
| `EpollServer` | extends `Epoll`: the echo servers, level- or edge-triggered |
| `HttpEpoll` | extends `Epoll`: the http server |
| `PollServer` | extends `Sockets`: the echo servers on poll and on select |
| `LibeventServer` | extends `Sockets`: the echo and the http server on libevent |
| `EventService` | abstract: what an event-driven server promises |
| `EventServers`, `EventServers_proofs` | instances of the five server modules over one set of variables, what they promise and the refinement of `EventService`, and theorems about them |

### ThreadPool

One action is one critical section of `pool->lock` or `pool->thread_counter`, or
one access outside both. Variables have the names of the fields in the code.
`lock` is the holder of `pool->lock` when a section is cut in two, and
`thread_counter` needs no variable since each of its sections is one action.

| code | actions |
|---|---|
| `threadpool_add` | `Add` (from the lock to the wait, the unlock or the fall-through), `AddRetry` (the same after a wait); `WaitForRoom`, `PutTask` and `FallThrough` are its cases. After shutdown the code unlocks and goes on (line 137): `LateFill` and `LateCommit` are what it then does without the lock |
| `threadpool_thread` | `W_Lock`/`W_Wake` (the test of the ring and the flag), `W_Wait`, `W_Retire`, `W_Take`, `W_Begin`, `W_End`, `W_Exit` |
| `adjust_thread` | `M_Test`, `M_Snapshot`, `M_Busy`, `M_Grow`, `M_GrowSlot` (one turn of the loop), `M_GrowEnd`, `M_Shrink`, `M_Signal` (one signal) |
| `threadpool_destroy`, `threadpool_free` | `D_Shutdown`, `D_JoinManager`, `D_Broadcast`, `D_Join` (one slot each), `D_Free` |
| pthread | `SpuriousWorker`, `SpuriousCaller`: a wait ends for no reason |

A worker's section is cut after its test (`wait`, `take`) because
`threadpool_destroy` sets `shutdown` without the lock and a late add changes the
ring without it. What `malloc` left is a choice: the args of the ring are null
or `Junk`, `wait_exit_thr_num` any of `InitialWaitExit` (`create` never sets
it). `ProbeSeesExit` says whether `pthread_kill(tid, 0)` reports a thread that
has exited, which differs between C libraries. `SharedPool` says whether destroy
may run while another thread is in add; `main` calls both itself. The race of a
late add with itself or a worker is bounded: the two indices are written from
what was read at the first or at the last moment. After `threadpool_free` the
memory is gone, and no step is described. Args are identified with tasks: each
task has an arg of its own. `freed` collects args passed to `free()`.

### SemRing, CondList

One action per semaphore operation and access of the ring; the producer and the
consumer each have the index they walk the ring with. In `CondList` the
consumer's `cond_wait` is one step (test and wait with the mutex held), the
push is one section, and the signal is a step of its own after the unlock. A
node is known by the number it carries. There is at least one consumer
(`ListAssumption`); the program creates two.

### ThreadServer, ForkServer

Clients connect and leave at any time. What is echoed is left out; a worker or
child serves until its client has left. In `ThreadServer` the scan looks at one
slot per step, and `++user`/`user--` are a load and a store. `M_Overrun` is the
accept past the end of the table, after which nothing is known. In `ForkServer`
`Deliver` puts the handler on top of main wherever main stands, and main waits
until it has returned; SIGCHLD is one pending bit; an interrupted accept sets
`errno` after the handler did, and the handler's last `waitpid` may set it to
ECHILD before main tests it. `runs` is the program: the demonstration forks all
its children with SIGCHLD still blocked (`D_Fork`, `D_Forked`; a fork that fails
is skipped), they end at once, and main installs the handler, unblocks the
signal and sleeps.

### Pipes, UdpEcho, Processes

`Pipes` has a process that is to write, `"W"`, and one that is to read, `"R"`;
`pair` says which programs they are. `wends` and `rends` are the processes that
hold a write end and a read end: a fork copies both, an exit closes both.

| code | actions |
|---|---|
| `01_pipe.c`, `grep_pipe.c` | `Fork` (which may fail: main goes on as the parent), `R_Exec` (close of the write end, and exec of grep), `W_Exec`, `R_Wait` |
| `r_fifo.c`, `w_fifo.c`, `read_fifo.c` | `R_Open`, `W_Open`: the call; `R_Opened`, `W_Opened`: it returns, once both sides were open together (`met`) |
| `write_fifo.c` | `W_OpenNow`: the open does not wait and fails when nobody reads |
| all | `W_Write`, `W_End`, `R_Read`, `R_AtEnd` (read returns 0 only when no write end is left); `W_Killed` is SIGPIPE |
| user | `StopReader`, `StopWriter`: one of two fifo programs is stopped at any moment, or could not open the fifo |

In `01_pipe.c` and `grep_pipe.c` the writer holds a read end itself, and is
never told that nobody reads. `read_cb` at the end of the stream is called for
ever and changes nothing, which is no step.

`UdpEcho` has the datagrams under way (`net`), the server's socket buffer
(`inbox`) and its one `client_addr` and `recv_buff`. `Lose` loses a datagram,
`Double` delivers one twice; datagrams overtake each other as `Arrive` takes any.

`Processes` chooses one program at the start (`program`); the variables of the
others keep one value.

### Sockets, Epoll, EpollServer, PollServer, HttpEpoll, LibeventServer

`Sockets` is the environment: connections, numbered in the order they are made,
wait in the listen queue, send `Pieces` pieces of input (a piece is what one
read returns), and their clients end the stream or reset it at any time. A write
to a client that has reset its end fails or raises SIGPIPE, which no server
handles: `server` becomes `"killed"`.

`Epoll` keeps the fds with news in a list. News of an fd puts it on the list;
`Wait` hands the first `MAX_EVENT_NUM` readable ones to the server, and keeps
those that are level-triggered on the list. The listening fd is edge-triggered
in all programs. `Accept` takes one connection and registers it. `Only` picks the
members of a list that lie in a set; it is written as a recursive function, since
the prover knows nothing of `SelectSeq`.

| code | actions |
|---|---|
| `epoll_server.c` `lt_work` | `L_Read`: one read, with the echo, the close or the exit |
| `et_work` | `E_Data`, `E_Later`, `E_Error`; `E_End` closes and stays in the loop, so that the next read fails on the closed fd and `E_Error` closes it again (also in `mtlt.cpp` and `9-3mtlt.cpp`); `E_EndLeaves` is `epoll_server2.c`, which leaves it |
| `poll_server.c`, `select_server.c` main | `Poll`, `AcceptOne`, `AcceptNone`, `Overrun` (a full table), and per entry of the loop `Skip`, `ReadData`, `ReadEnd`, `ReadError` (which leaves the loop); `EndOfRound` |
| `http_epoll.c` `do_read`, `get_line` | `R_Line` (a piece is read; the first is kept), and when there is no more `R_Reply` (`http_get_request` and `disconnect`) or `R_Drop` |
| libevent | `Dispatch`: one wait of the loop; then one callback per event: `CbListener`, `CbRead` (the library's read, and `cb_read`), `CbWrite` (its write, and `cb_write`), `CbEvent`, `CbSignal` |

`PollServer` is both programs: with select an entry of the table is the fd itself
and the kernel gives the lowest free one, with poll it is the lowest free entry
of the array, so that both take the least free entry. They differ in what an entry
holds that was not part of the last wait: nothing with select, anything that was
on the stack with poll, which is a choice of `Init`. `Overrun` leaves the server
`"undefined"`: the code writes or reads past the table from there on.

In `LibeventServer` input goes from the kernel (`input`) to the library (`inbuf`)
and is taken from there by `cb_read`, `BufPieces` pieces at most and once per
read; an echo or a reply goes to `outbuf` and from there, in parts, to the socket
(`written`). `CbEvent` drops both buffers with the connection, whatever the event:
its test `events | BEV_EVENT_EOF` is always true. When a request starts with a
space `sscanf` stores nothing and the array `method` is read uninitialised:
`MethodIsGet` is then either answer.

`EventServers` chooses one of the programs at the start (`program`); the variables
of the others keep a fixed value. `EventService` is the specification all of them
implement: a listen queue in order, and a count of pieces answered that grows up to
what was sent, on the connections that asked for something (`asking`). How a
connection ends is the server's `manner`: `"complete"` (epoll, poll, select) when
the client has left and everything is answered; `"lossy"` (libevent) when the
client has left, whatever is still in the buffers; `"once"` (http on epoll) together
with its one answer, and never otherwise. In the mapping `answered` is `written`
for libevent, `sent - input` for the echo servers that write what they read in the
same step, and whether the connection is closed for http on epoll.

## 3. Runs

All are TLC runs of the `.cfg` of the same name. Deadlock is not checked in any:
every one of these programs may come to rest (tasks, numbers or clients are
bounded in the model, the pool is freed, the server exits).

| run | instance | shows |
|---|---|---|
| `pool_elastic` | 1-2 workers, 1 caller, 4 tasks, ring of 2, vary 2 | growing, retiring, restarting in an old slot: `LiveCount`, `BusyCount`, `OnePlace`, `NoDanglingSlot`, and the ring implements `TaskFifo` |
| `pool_fixed` | 2 workers, 2 tasks, ring of 1, destroy at any time | `Exclusion`, `NoStrandedTask`, and under fairness `TaskTaken`, `CallerServed`, `ManagerStops` |
| `pool_lost_task` | 1-2 workers, open pool | **violated**: `TaskTaken` |
| `pool_early_free` | 1-2 workers, the probe does not see exits | **violated**: `WorkersGoneAtFree` |
| `pool_hang` | 2 workers | **violated**: `DestroyEnds` |
| `sem_ring` | 3 slots, 10 numbers | `NeverSameSlot`, implements `TaskFifo`, `AllPrinted` |
| `cond_list` | 2 consumers, 4 nodes | `NoDanglingNode`, `PrintedOnce`, `NobodySleepsOverWork`, `EveryNodeFreed` |
| `thread_server` | 4 clients, 2 slots | `OwnsSlot`, `SlotHasWorker`, `NeverPastMax` |
| `thread_server_room` | the same | **violated**: `RoomForNext` |
| `processes` | 3 connections or children; a pipe of 2 items and 3 to write; 2 udp clients with 2 lines each | `NoChildForgotten`, `NeverUndercounts`, `ZombiesReaped`; `ReaderGotAll`, `PipeProgramsEnd`; `AnswersMatch`, `AnsweredUnlessLost` |
| `event_servers` | epoll, libevent and http: 2 connections of 2 pieces, one event per wait of epoll, one piece per callback; poll and select: 3 of 1 piece over a table of 2 | `NewsReported`, `TableIsOpen`, `OnlyFreshEntryBlocks`, `EveryInputServed`, `LeaverClosed`, `GetAnswered`, and all of them implement `EventService` |
| `epoll_accept` | 2 connections | **violated**: `DefaultModeAccepts` |

The bounds. Four tasks over a ring of two go round it twice, so that every slot
is filled over an old arg; two workers with a minimum of one are the least that
can grow, retire and be restarted; a ring of one makes a caller block at once.
`DEFAULT_THREAD_VARY` of 2 is more than the idle workers, so that a request to
retire is left over. `MIN_WAIT_TASK_NUM` of 1 or 2 lets the pool grow on the few
tasks there are. Three slots and ten numbers take both indices of `SemRing`
round three times. Four clients over two slots fill the table, wait and reuse it;
three children are enough for one signal to stand for two. On epoll one event
per wait makes the others wait on the list while a connection is served, and two
pieces let input come in the middle of the loop that reads it. Three connections
over a table of two fill it, free an entry, and use it again. A callback that
takes one piece leaves the second of a burst in the library's buffer. Three items
over a pipe of two fill it. A datagram may be lost at any time; one is doubled
(the bound in `Double`), which is enough to put a client one answer behind.

What the violated runs show of the code:

* **A task is lost in an open pool** (`pool_lost_task`). The manager asks ten
  workers to retire by setting `wait_exit_thr_num`; those that were not idle never
  answer, and the number stays. A later add signals one idle worker, which
  finds the request, retires and leaves the task on the ring; the others sleep.
* **Destroy can hang** (`pool_hang`). The flag is set and the condition
  broadcast without the lock, between a worker's test and its wait.
* **Destroy can free the pool under a worker** (`pool_early_free`). Live
  workers are assumed to be in the slots 0..`live_thr_num`-1; the one in slot 0
  may have retired.
* **accept can write past the table** (`thread_server_room`): a lost update
  makes `user` too small.
* **A connection may never be accepted** (`epoll_accept`). The listening fd is
  edge-triggered in the default mode too, and an event is answered with one
  accept: of two connections that come together, the second waits for a third.
  `http_epoll.c` has the same loop.

More was seen in the models and has no run:

* The comment at `libevent_http.c:58` says that the connection is closed after
  the reply, and the reply's head says so to the client; no line closes it.
  `GetAnswered` states what does hold, and the connection stays until the
  client leaves (`LeaverClosed`).
* What a callback of `event_server.c` does not take of a burst waits until the
  client sends more (`CbRead`); `EveryInputServed` leaves this rest out.
* A client that half-closes its connection may lose the echo or the reply
  (`CbEvent`): this is why `EventService` has the manner `"lossy"`.
* When fork fails `01_pipe.c` waits for data that only itself could write; when
  grep cannot be run, ps fills the pipe and waits for itself. `PipeProgramsEnd`
  speaks of a parent with a child, and of a grep that runs.
* A udp datagram that comes twice leaves its client one answer behind for good,
  as answers carry no number.

And of the programs modelled first: after shutdown the manager may
restart a worker in the slot of one that stopped and counts it again, so that
destroy joins a slot that never had a thread (`threadpool.c:253`, 297); and a
decrement of `user` by the handler between the load and the store of main's
increment is lost, so that the number of clients stays too high
(`server_fork.c:97`; that it is never too low is checked, `NeverUndercounts`).

## 4. Fairness

Safety runs use `Spec`, with no fairness. `FairSpec` of the pool is strong
fairness for each thread: it is scheduled, its callback returns, and when it
wants a mutex the others keep releasing it gets it in the end. Nobody is obliged
to call add or destroy, and no wait has to end without a signal. `CondList` makes
the same assumption; `SemRing` needs weak fairness only, as no step of one thread
disables the other. `ForkServer` (also in `Processes`) has weak fairness for the delivery of a pending
signal and for the handler, and strong fairness for main, whose steps the
handler suspends; clients may stay for ever. The event servers are one thread
each: weak fairness of `ServerStep`, the disjunction of its steps, since no other
thread can disable what it is about to do and its only waits are those modelled.
No client is obliged to do anything, and SIGINT need not come. The two processes
of `Pipes` have weak fairness each: an open that waits is enabled only when
the other side is there, and the user need not start it. In `UdpEcho` the server,
each client's `recvfrom` and the arrival of each client's datagrams are weakly
fair: what is not lost arrives.

## 5. What is proved

Every invariant that a passing run checks, and the three refinements, are
theorems about every value of the constants. The assumptions on the constants
(`PoolAssumption`, `RingAssumption`, `ListAssumption`, ...) only say that they
are numbers of the right kind, that identities differ, and that what has to be
there is there (a worker, a slot, a consumer). Two hypotheses go further, and
stand in the theorems that need them:

* `min_thr_num = max_thr_num`, a pool of fixed size, in `NoTaskStranded`,
  `NoMutualWait` and `FixedPoolFreedLast`. For other pools the first and the last
  are false, as the runs `pool_lost_task` and `pool_early_free` show.
* `~SharedPool`, destroy is called when all calls of `threadpool_add` have
  returned, in `NoFreedArg`, `NoTaskLost` and `RingIsFirstInFirstOut`. This is how
  `main` uses the pool (`threadpool.c:374-382`). For the other pools,
  `OpenPoolKeepsTasks` and `OpenPoolIsFirstInFirstOut` state the same of every
  state, and every step, before `shutdown` is set. After that a late add writes
  the ring with no lock and need not find its slot empty, and nothing is claimed.

### The pool's threads (`ThreadPool_proofs`)

* `TypeCorrect` and `LockWorks` come from one invariant,
  `Safe == TypeOK /\ Exclusion`. `TypeOK` alone is not inductive: that
  `queue_size` stays a natural number when a worker takes a task needs what the
  worker tested to hold still, which is `Exclusion`, and that needs in turn that a
  late add, which works with no lock, runs only after shutdown, when no worker can
  be between its test and its use.
* `LiveCountHolds` and `BusyCountHolds` come from
  `Counters == StopsAfterShutdown /\ LiveCount /\ BusyCount`. A worker leaves the
  count by retiring; one that stops does so only after shutdown, when the claim
  about `live_thr_num` ends but its bounds go on to hold.
* `NoTaskStranded`: in a pool of fixed size no worker ever retires, so one signal
  per task is enough.
* `FixedPoolFreedLast`: there every slot keeps its first thread (`SlotsKept`), so
  that the slots joined so far are the workers known to have exited (`Joined`).

### The pool's tasks (`ThreadTasks_proofs`)

`NoFreedArg`, `NoTaskLost` and the refinement `RingIsFirstInFirstOut` come from
one invariant, `TasksInv`. What makes it work is that a slot keeps its task after a
worker has taken it, so that the argument is about all slots and not only about
the window between the two indices:

* `RingShape`: the rear is `queue_size` places behind the front, modulo the size;
* `SlotsHold`: no two slots hold the same task, and what a slot holds was
  submitted and not freed. When add frees the old arg of the slot at the rear, no
  other slot has it;
* `RingHolds`, `CallersHold`, `WorkersHold`: a task on the ring, with a waiting
  caller or with a worker is at no other place; a caller's task was in no slot yet;
* `NoneLost`: what was submitted is at one of these places, or has run;
* `Quiet`: no call of add is under way after shutdown.

What is inductive is `InTime => TasksInv`, where `InTime` is
`SharedPool => ~shutdown`: `shutdown` is never reset, so that a step that ends in
time began in time.

Two more theorems are the safety core of `CallerServed`. `NoCallerStranded`: a
caller blocks only on a full ring and every `W_Take` broadcasts with the lock
held, so that in an open pool nobody is blocked while there is room. `NoMutualWait`
adds `NoTaskStranded`: a full ring is not empty, so that not all workers sleep and
one of those that do not has still to come to the ring.

`Window` then changes by an `Append` in `PutTask`, a `Tail` in `W_Take` and not at
all in other steps. The arithmetic that both rings need (indices less than one
round apart are different slots; a step of the front is a shift of the window) is
in `RingLemmas` and `PlaceFacts`.

### Ring and list (`SemRing_proofs`, `CondList_proofs`)

`SlotsApart` and the refinement `RingIsALine` rest on `Tokens`: the two semaphores,
the two indices and what each thread has waited for and not posted add up to the
number of slots. `Contents` says which number each slot between the indices holds.
They also give `NeverBothBlocked`, which is what a deadlock of the two threads would
contradict, and `PrintedInOrder`.

For the list, `Shape` is the heart of it: at any time there are two nodes `m` and
`h` such that the list is `h, h-1, ..., m`, all before `m` was freed by earlier
drains and all after `h` by the drain under way, and with the mutex free `h` is the
last node pushed. `Locked` adds that one consumer works on the list at a time and
frees its head. `SomebodyAwake` is inductive on top of these: a drain does not end
before the list is empty.

### Thread server, processes, pipes, udp (`ThreadServer_proofs`, `Processes_proofs`)

`UserNeverPastMax` needs that a value of `user` main or a worker has loaded is
itself never above its bound, however stale it is. `NoChildForgotten` needs that
SIGCHLD is blocked or handled at any time (`blocked \/ installed`);
`NeverUndercounts` that what main has loaded and not stored yet is at least `user`
(the handler only decrements, so that a lost update makes the count too high).
`ReaderGotAll` needs a count of what is in the pipe (`got + data = written`) and
of who holds a write end when. `AnswersMatch` rests on `OneDatagram`: a client that
waits has its line or the answer in one of four places only, as long as no
datagram of its own came twice.

### Event servers (`EventServers_proofs`)

One invariant per program. `SockInv` is about the connections: what is in the
listen queue is there once and queued, nothing is read that was not sent.

* epoll and http: `EpollLists` says that a connection on the kernel's list is
  open, that one among the events in hand is open or was closed by the server
  itself, and that level-triggered it is on the kernel's list as well.
  `NewsReported` is inductive with it: a connection leaves the list only with its
  news read.
* poll and select: `PollTable` (each open connection has one entry, up to
  `max_fd`) and `PollReports` (what is reported can be read, except for the entry
  just accepted).
* libevent: what is in the kernel, in the two buffers and in the socket is together
  at most what was sent, and callbacks are pending for open connections only.

`ServiceImplemented` maps every step of the six programs to a step of
`EventService` or a stutter (`EpollRefines`, `HttpRefines`, `PollRefines`,
`LibRefines`). Two more invariants carry the http servers. `LineInv`: the first
line that is kept between two reads belongs to the connection whose event is being
handled, and was sent by it, so that the answer goes to who asked. `AskInv`: what
is in an output buffer or written is for a client whose request, or what the stack
kept of one, was taken for a GET. The values of the mapping have names there
(`mQueue`, ...), and one lemma per step of the service says what has to be shown of
a server's step.

The induction that `Only` needs is done over a set of numbers (`SetInduction`,
from the well-foundedness of `<`), as the induction theorems of the library take
an operator, which the provers cannot instantiate.

### Model-checked only

Everything temporal: `TaskTaken`, `CallerServed`, `ManagerStops`, `AllPrinted`,
`EveryNodeFreed`, `ZombiesReaped`, `PipeProgramsEnd`, `AnsweredUnlessLost`,
`EveryInputServed`, `LeaverClosed` and `GetAnswered`. Liveness under fairness needs
ENABLED, which is out of the prover's reach. The violated properties are found by
TLC, which is all there is to show.

## 6. Not modelled, and why

Failures of `malloc` and `pthread_create`, and the start-up code of the servers
(socket, bind, listen): sequential, and they end the program or are ignored.
Failures of `accept`, `epoll_ctl`, `poll` and `select`, and a full send buffer:
the event servers' code does not look at them, except for asserts. The function
`lt` of `mtlt.cpp` and `9-3mtlt.cpp`: it is never called. The bytes of messages,
requests, files and directory listings, the types of files and the `%XX`
escapes: no claim is about them. The library libevent itself: it is modelled from
how the programs use it, level-triggered, with buffers that are never full. Overflow of the indices in
`sem_thread.c`: it needs 2^31 steps. The chat server: there is no program to
model until it compiles. The other programs of the table are single calls.

## 7. Plan

1. What holds of the pool after shutdown when destroy races add (`SharedPool`):
   which tasks may be lost, and what a worker past its test of `shutdown` can take.
2. The callers that destroy leaves blocked (`threadpool.c:292`), and a full send
   buffer in the http server (`http_epoll.c:250`), hazards no property covers yet.
3. The liveness properties, which stay with TLC until the prover has ENABLED.
