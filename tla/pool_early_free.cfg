\* Is the pool freed only when its workers are gone?
SPECIFICATION Spec
CONSTANTS
  Workers = {w1, w2}
  Callers = {c1}
  Tasks = {t1, t2}
  NULL = NULL
  Junk = Junk
  min_thr_num = 1
  max_thr_num = 2
  queue_max_size = 2
  MIN_WAIT_TASK_NUM = 1
  DEFAULT_THREAD_VARY = 2
  InitialWaitExit = {0}
  ProbeSeesExit = FALSE
  SharedPool = FALSE
INVARIANTS WorkersGoneAtFree
CHECK_DEADLOCK FALSE
