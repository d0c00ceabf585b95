SPECIFICATION SchedSpec
CONSTANTS
  idle = idle
  t1 = t1
  t2 = t2
  t3 = t3
  Thread = {idle, t1, t2, t3}
  waitq = waitq
  devq = devq
  Queue = {waitq, devq}
  IntrQueue = {devq}
  kt_runq = kt_runq
  NULL = NULL
  boot = idle
CHECK_DEADLOCK FALSE
INVARIANTS
  SchedInv
PROPERTIES
  RunnableRuns
