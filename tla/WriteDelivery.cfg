CONSTANTS
  u1 = u1
  u2 = u2
  Clients <- MCClients
  kMaxPendingWrites = 1
  MaxWrites = 2
  MaxFaults = 2
SPECIFICATION Spec
PROPERTY WriteIsAnswered
CHECK_DEADLOCK FALSE
