SPECIFICATION Spec
CONSTANTS
  Threads = {t1, t2, t3}
  Inodes = {i1}
  NSlots = 2
  NPages = 2
  MaxHeld = 2
  Nil = Nil
CHECK_DEADLOCK FALSE
INVARIANTS
  VnodeInv
PROPERTIES
  UnlinkedGoes
