\* A pool of one to two workers, one caller that destroys it when done.
SPECIFICATION Spec
CONSTANTS
  Workers = {w1, w2}
  Callers = {c1}
  Tasks = {t1, t2, t3, t4}
  NULL = NULL
  Junk = Junk
  min_thr_num = 1
  max_thr_num = 2
  queue_max_size = 2
  MIN_WAIT_TASK_NUM = 1
  DEFAULT_THREAD_VARY = 2
  InitialWaitExit = {0, 1}
  ProbeSeesExit = TRUE
  SharedPool = FALSE
SYMMETRY Names
INVARIANTS TypeOK LiveCount BusyCount OnePlace NoDanglingSlot
PROPERTIES ImplementsFifo
CHECK_DEADLOCK FALSE
