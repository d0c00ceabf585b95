SPECIFICATION Spec
CONSTANTS
  MaxCells = 4
  Values = {1, 2, 3}
  Lines <- SomeLines
  MaxLines = 3
  Now = 3
CHECK_DEADLOCK FALSE
INVARIANTS
  ListInv
  Sorted
  RowsExact
PROPERTIES
  ImplementsListSeq
