SPECIFICATION ProcSpec
CONSTANTS
  idle = idle
  init = init
  pageoutd = pageoutd
  u1 = u1
  u2 = u2
  u3 = u3
  User = {u1, u2, u3}
  tty = tty
  disk = disk
  pageoutd_waitq = pageoutd_waitq
  kt_runq = kt_runq
  NULL = NULL
  ANY = ANY
  boot = idle
  Thread = {idle, init, pageoutd, u1, u2, u3}
  Queue = {idle, init, pageoutd, u1, u2, u3, tty, disk, pageoutd_waitq}
  IntrQueue = {tty, disk}
  PROC_MAX_COUNT = 7
  EFAULT = 14
SYMMETRY UserSymmetry
INVARIANTS
  ProcInv
  NoMissedExit
  
