SPECIFICATION KmutexLiveSpec
CONSTANTS
  idle = idle
  t1 = t1
  t2 = t2
  Thread = {idle, t1, t2}
  m1 = m1
  devq = devq
  Mutex = {m1}
  Queue = {m1, devq}
  IntrQueue = {devq}
  kt_runq = kt_runq
  NULL = NULL
  boot = idle
  LockCall = {"kmutex_lock", "kmutex_lock_cancellable"}
  Release = "procs"
CHECK_DEADLOCK FALSE
INVARIANTS
  KmutexInv
PROPERTIES
  HolderOwns
  NoBarging
  LockReturns
