\* An open pool of one to two workers: is a task on the ring taken?
SPECIFICATION FairSpec
CONSTANTS
  Workers = {w1, w2}
  Callers = {c1}
  Tasks = {t1, t2, t3}
  NULL = NULL
  Junk = Junk
  min_thr_num = 1
  max_thr_num = 2
  queue_max_size = 2
  MIN_WAIT_TASK_NUM = 2
  DEFAULT_THREAD_VARY = 1
  InitialWaitExit = {0}
  ProbeSeesExit = TRUE
  SharedPool = FALSE
CONSTRAINT Open
PROPERTIES TaskTaken
CHECK_DEADLOCK FALSE
