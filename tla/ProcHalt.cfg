SPECIFICATION ProcLiveSpec
CONSTANTS
  idle = idle
  init = init
  pageoutd = pageoutd
  u1 = u1
  u2 = u2
  User = {u1, u2}
  tty = tty
  disk = disk
  pageoutd_waitq = pageoutd_waitq
  kt_runq = kt_runq
  NULL = NULL
  ANY = ANY
  boot = idle
  Thread = {idle, init, pageoutd, u1, u2}
  Queue = {idle, init, pageoutd, u1, u2, tty, disk, pageoutd_waitq}
  IntrQueue = {tty, disk}
  PROC_MAX_COUNT = 6
  EFAULT = 14
PROPERTIES
  HaltCompletes
  WaitReturns
CHECK_DEADLOCK FALSE
