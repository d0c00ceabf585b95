SPECIFICATION Spec
CONSTANTS
  PageSize = 2
  LowPage = 1
  HighPage = 5
  AddrSpace = 16
  NFILES = 3
  Brks <- MCBrks
  Touches = {3}
  Anons = {m1, m2}
  Files = {f1}
  Junk = Junk
  Nil = Nil
  StartBrks <- MCStartBrks
  Requests <- MCRequests
  Lens <- MCLens
SYMMETRY Symmetry
INVARIANTS
  VmmapInv
  ScansExact
  CopyExact
PROPERTIES
  BrkMovesHeap
  ImplementsPageMap
