CONSTANTS
  e1 = e1
  e2 = e2
  e3 = e3
  e4 = e4
  Entries <- MCEntries
SPECIFICATION Spec
INVARIANTS
  TypeOK
  RemovesTheRun
CHECK_DEADLOCK FALSE
