------------------------------- MODULE Pipes -------------------------------
(***************************************************************************)
(* Four programs of src/ in which one process writes a pipe and another    *)
(* reads it: IPC_code/01_pipe.c (a parent reads what its child wrote),     *)
(* grep_pipe.c (a parent becomes grep, its child ps), r_fifo.c with        *)
(* w_fifo.c, and the same on libevent, lIbevent_code/read_fifo.c with      *)
(* write_fifo.c.                                                           *)
(***************************************************************************)
EXTENDS Naturals

CONSTANTS Capacity,    \* how many items the pipe holds
          Items        \* how many ps and w_fifo write

PipeAssumption == Capacity \in Nat \ {0} /\ Items \in Nat \ {0}

VARIABLES
  pair,                \* the program, or pair of programs
  wends, rends,        \* which of "W" and "R" hold a write end, a read end
  data,                \* items in the pipe
  met,                 \* fifos: has one been opened while the other was open?
  wpc, rpc,            \* the process that is to write, and the one to read
  written, got         \* items written and read

pipe == <<wends, rends, data>>
vars == <<pair, pipe, met, wpc, rpc, written, got>>

Init ==
  /\ pair \in {"pipe", "grep", "fifo", "event_fifo"}
  /\ wends = {} /\ rends = {} /\ data = 0 /\ met = FALSE
  /\ wpc = (IF pair \in {"pipe", "grep"} THEN "none" ELSE "start")
  /\ rpc = "start"
  /\ written = 0 /\ got = 0

Fifo  == pair \in {"fifo", "event_fifo"}
Total == IF pair = "pipe" THEN 1 ELSE Items

\* What a process that ends leaves of the ends of the pipe.
CloseAll(p) == wends' = wends \ {p} /\ rends' = rends \ {p}
-----------------------------------------------------------------------------
(* Start.  A pipe is made before the fork, so that both processes hold     *)
(* both ends; when fork fails main goes on as the parent.                  *)
Fork ==
  /\ ~Fifo /\ rpc = "start"
  /\ \/ wpc' = (IF pair = "pipe" THEN "writing" ELSE "exec")
        /\ wends' = {"R", "W"} /\ rends' = {"R", "W"}
     \/ wpc' = wpc /\ wends' = {"R"} /\ rends' = {"R"}
  /\ rpc' = IF pair = "pipe" THEN "reading" ELSE "exec"
  /\ UNCHANGED <<pair, data, met, written, got>>

\* open of a fifo: a blocking one waits for the other side.
R_Open ==
  /\ Fifo /\ rpc = "start"
  /\ rends' = {"R"} /\ rpc' = "opening"
  /\ met' = (met \/ wends # {})
  /\ UNCHANGED <<pair, wends, data, wpc, written, got>>

R_Opened ==
  /\ rpc = "opening" /\ met
  /\ rpc' = "reading"
  /\ UNCHANGED <<pair, pipe, met, wpc, written, got>>

W_Open ==
  /\ pair = "fifo" /\ wpc = "start"
  /\ wends' = {"W"} /\ wpc' = "opening"
  /\ met' = (met \/ rends # {})
  /\ UNCHANGED <<pair, rends, data, rpc, written, got>>

W_Opened ==
  /\ wpc = "opening" /\ met
  /\ wpc' = "writing"
  /\ UNCHANGED <<pair, pipe, met, rpc, written, got>>

\* write_fifo does not wait: it fails when nobody reads, and ends.
W_OpenNow ==
  /\ pair = "event_fifo" /\ wpc = "start"
  /\ IF rends = {} THEN wpc' = "gone" /\ UNCHANGED <<wends, met>>
                   ELSE wpc' = "writing" /\ wends' = {"W"} /\ met' = TRUE
  /\ UNCHANGED <<pair, rends, data, rpc, written, got>>

\* Mutant of R_Exec: the parent keeps its write end.
R_ExecKeepsEnd ==
  /\ pair = "grep" /\ rpc = "exec"
  /\ \/ rpc' = "reading" /\ UNCHANGED <<wends, rends>>
     \/ rpc' = "gone" /\ CloseAll("R")
  /\ UNCHANGED <<pair, data, met, wpc, written, got>>

\* The parent closes its write end and becomes grep; when exec fails it ends.
R_Exec ==
  /\ pair = "grep" /\ rpc = "exec"
  /\ \/ rpc' = "reading" /\ wends' = wends \ {"R"} /\ rends' = rends
     \/ rpc' = "gone" /\ CloseAll("R")
  /\ UNCHANGED <<pair, data, met, wpc, written, got>>

\* The child becomes ps, or ends.
W_Exec ==
  /\ wpc = "exec"
  /\ \/ wpc' = "writing" /\ UNCHANGED <<wends, rends>>
     \/ wpc' = "gone" /\ CloseAll("W")
  /\ UNCHANGED <<pair, data, met, rpc, written, got>>
-----------------------------------------------------------------------------
(* The writer.  write_fifo never ends, and its items are not counted.      *)
MoreToWrite == wpc = "writing" /\ (pair = "event_fifo" \/ written < Total)

W_Write ==
  /\ MoreToWrite /\ rends # {} /\ data < Capacity
  /\ data' = data + 1
  /\ written' = IF pair = "event_fifo" THEN 0 ELSE written + 1
  /\ UNCHANGED <<pair, wends, rends, met, wpc, rpc, got>>

\* Nobody has a read end any more: SIGPIPE.
W_Killed ==
  /\ MoreToWrite /\ rends = {}
  /\ wpc' = "gone" /\ CloseAll("W")
  /\ UNCHANGED <<pair, data, met, rpc, written, got>>

W_End ==
  /\ wpc = "writing" /\ ~MoreToWrite
  /\ wpc' = "done" /\ CloseAll("W")
  /\ UNCHANGED <<pair, data, met, rpc, written, got>>
-----------------------------------------------------------------------------
(* The reader.  A read returns what is there, or 0 when no write end is    *)
(* left; 01_pipe reads once, and waits for its child.                      *)

\* Mutant of R_Read: each program reads once.
R_ReadOnce ==
  /\ rpc = "reading" /\ data > 0
  /\ \E n \in 1 .. data :
       /\ data' = data - n
       /\ got' = IF pair = "event_fifo" THEN 0 ELSE got + n
  /\ IF pair = "pipe" THEN rpc' = "wait" /\ rends' = rends
                      ELSE rpc' = "done" /\ rends' = rends \ {"R"}
  /\ UNCHANGED <<pair, wends, met, wpc, written>>

R_Read ==
  /\ rpc = "reading" /\ data > 0
  /\ \E n \in 1 .. data :
       /\ data' = data - n
       /\ got' = IF pair = "event_fifo" THEN 0 ELSE got + n
  /\ rpc' = IF pair = "pipe" THEN "wait" ELSE rpc
  /\ UNCHANGED <<pair, wends, rends, met, wpc, written>>

\* read_cb prints the empty read and is called again, for ever.
R_AtEnd ==
  /\ pair \in {"grep", "fifo"} /\ rpc = "reading" /\ data = 0 /\ wends = {}
  /\ rpc' = "done" /\ CloseAll("R")
  /\ UNCHANGED <<pair, data, met, wpc, written, got>>

R_Wait ==
  /\ rpc = "wait" /\ wpc \in {"done", "gone"}
  /\ rpc' = "done" /\ CloseAll("R")
  /\ UNCHANGED <<pair, data, met, wpc, written, got>>
-----------------------------------------------------------------------------
\* The open of a fifo fails, or the user stops one of the two programs.
StopReader ==
  /\ Fifo /\ rpc \notin {"done", "gone"}
  /\ rpc' = "gone" /\ CloseAll("R")
  /\ UNCHANGED <<pair, data, met, wpc, written, got>>

StopWriter ==
  /\ Fifo /\ wpc \notin {"done", "gone"}
  /\ wpc' = "gone" /\ CloseAll("W")
  /\ UNCHANGED <<pair, data, met, rpc, written, got>>

Reader == R_Opened \/ R_Exec \/ R_Read \/ R_AtEnd \/ R_Wait
Writer == W_Opened \/ W_Exec \/ W_Write \/ W_Killed \/ W_End
User   == R_Open \/ W_Open \/ W_OpenNow \/ StopReader \/ StopWriter

Next == Fork \/ Reader \/ Writer \/ User

(* Both processes run.  Nobody has to start the other half of a fifo pair. *)
Spec == Init /\ [][Next]_vars /\ WF_vars(Reader) /\ WF_vars(Writer)
-----------------------------------------------------------------------------
TypeOK ==
  /\ pair \in {"pipe", "grep", "fifo", "event_fifo"}
  /\ wends \subseteq {"R", "W"} /\ rends \subseteq {"R", "W"}
  /\ data \in 0 .. Capacity /\ met \in BOOLEAN
  /\ wpc \in {"none", "start", "opening", "exec", "writing", "done", "gone"}
  /\ rpc \in {"start", "opening", "exec", "reading", "wait", "done", "gone"}
  /\ written \in 0 .. Total /\ got \in 0 .. written

(* A reader that came to its end has read all that was written, and nobody *)
(* can write any more: no write end is left in a process that reads, and   *)
(* no loop ends early (01_pipe.c:22-29, grep_pipe.c:22-25, r_fifo.c:22-32).*)
ReaderGotAll ==
  rpc = "done" => got = written /\ wpc \in {"none", "done", "gone"}

Over == {wpc, rpc} \subseteq {"none", "done", "gone"}

(* Both programs end: a parent that has a child, grep once it runs, whether *)
(* or not there is a ps, fifo programs that have met, even when the other  *)
(* is stopped.  Of the libevent pair only the writer does, when the reader *)
(* is gone (01_pipe.c:14-30, grep_pipe.c:14-26, r_fifo.c:22-33, w_fifo.c:  *)
(* 23-28, write_fifo.c:17).                                                *)
PipeProgramsEnd ==
  /\ (pair = "pipe" /\ wpc = "writing") ~> Over
  /\ (pair = "grep" /\ rpc = "reading") ~> Over
  /\ (pair = "fifo" /\ met) ~> Over
  /\ (pair = "event_fifo" /\ met /\ rpc = "gone") ~> Over
=============================================================================
