------------------------------ MODULE TaskFifo ------------------------------
(***************************************************************************)
(* What a thread pool promises about its tasks: a bounded first-in         *)
(* first-out line.  A task joins the line at most once, only while there   *)
(* is room, and leaves it from the head, when a worker takes it to run it. *)
(* ThreadPool implements this with a ring of task_queue slots.             *)
(***************************************************************************)
EXTENDS Naturals, Sequences

CONSTANTS Tasks,      \* the tasks callers may hand over
          Capacity    \* how many of them the line holds

VARIABLES fifo,       \* the tasks in line, the oldest first
          taken       \* the tasks a worker has taken

vars == <<fifo, taken>>

InLine(t) == \E i \in 1..Len(fifo) : fifo[i] = t

Init == fifo = <<>> /\ taken = {}

Put(t) ==
  /\ ~InLine(t) /\ t \notin taken
  /\ Len(fifo) < Capacity
  /\ fifo' = Append(fifo, t)
  /\ taken' = taken

Take ==
  /\ fifo # <<>>
  /\ fifo' = Tail(fifo)
  /\ taken' = taken \cup {Head(fifo)}

Next == Take \/ \E t \in Tasks : Put(t)

Spec == Init /\ [][Next]_vars
=============================================================================
