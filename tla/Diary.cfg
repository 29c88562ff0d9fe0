CONSTANTS
  e1 = e1
  e2 = e2
  e3 = e3
  e4 = e4
  Entries <- MCEntries
  DateOf <- MCDateOf
SPECIFICATION Spec
INVARIANTS
  TypeOK
  RowsAreEntries
  RowsSorted
  RowsComplete
  PendingOnlyAfterFailedSave
  GrayIsHint
PROPERTIES
  DeleteKeepsRowsAbove
  ImplementsDurableSet
