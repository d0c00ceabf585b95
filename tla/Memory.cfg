SPECIFICATION Spec
CONSTANTS
  Procs = {p1, p2, p3}
  FirstProc = p1
  Values = {0, 1}
  TextValue = 1
  MaxObj = 13
  NFrames = 4
  Footprints = {{"heap"}, {"text"}, {"shm"}}
  Nil = Nil
INVARIANTS
  MemoryInv
  CleanMeansSaved
PROPERTIES
  ImplementsPrivateMemory
  AccessReturns
