\* Does destroy, called on an idle pool, return?
SPECIFICATION FairSpec
CONSTANTS
  Workers = {w1, w2}
  Callers = {c1}
  Tasks = {t1}
  NULL = NULL
  Junk = Junk
  min_thr_num = 2
  max_thr_num = 2
  queue_max_size = 1
  MIN_WAIT_TASK_NUM = 1
  DEFAULT_THREAD_VARY = 1
  InitialWaitExit = {0}
  ProbeSeesExit = TRUE
  SharedPool = FALSE
PROPERTIES DestroyEnds
CHECK_DEADLOCK FALSE
