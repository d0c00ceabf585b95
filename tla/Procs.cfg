SPECIFICATION Spec
CONSTANTS
  PROC_MAX_COUNT = 4
  Statuses = {0, 1}
  MaxDevice = 2
INVARIANTS
  ProcsInv
  StatusDelivered
PROPERTIES
  ImplementsProcTree
  
