CONSTANTS
  u1 = u1
  u2 = u2
  Clients <- MCClients
  kMaxPendingWrites = 2
  MaxWrites = 3
  MaxFaults = 2
SPECIFICATION Spec
INVARIANTS
  TypeOK
  SentAsItsUser
  CompletionIsItsWrites
  AckedNotUndone
PROPERTIES
  FailsOnlyOnServerEnd
  ImplementsWriteQueue
CHECK_DEADLOCK FALSE
