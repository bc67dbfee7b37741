\* A pool of exactly two workers, and a caller that may still be in add when
\* another thread calls destroy.
SPECIFICATION FairSpec
CONSTANTS
  Workers = {w1, w2}
  Callers = {c1}
  Tasks = {t1, t2}
  NULL = NULL
  Junk = Junk
  min_thr_num = 2
  max_thr_num = 2
  queue_max_size = 1
  MIN_WAIT_TASK_NUM = 1
  DEFAULT_THREAD_VARY = 1
  InitialWaitExit = {1}
  ProbeSeesExit = TRUE
  SharedPool = TRUE
INVARIANTS Exclusion NoStrandedTask
PROPERTIES TaskTaken ManagerStops CallerServed
CHECK_DEADLOCK FALSE
