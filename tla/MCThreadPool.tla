---------------------------- MODULE MCThreadPool ----------------------------
(* Small instances of ThreadPool for TLC.                                  *)
EXTENDS ThreadPool, TLC

\* Sound where no liveness is checked: the names of workers, callers and
\* tasks are never compared but for equality.
Names == Permutations(Workers) \cup Permutations(Callers) \cup Permutations(Tasks)

\* The life of the pool before threadpool_destroy is called.
Open == ~shutdown
=============================================================================
