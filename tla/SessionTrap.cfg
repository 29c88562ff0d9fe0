CONSTANTS
  u1 = u1
  u2 = u2
  NoUser = NoUser
  Unset = Unset
  Users <- MCUsers
  Tests <- MCTests
  MaxTests = 1
  MaxRequests = 1
SPECIFICATION Spec
PROPERTY FinishTestReturns
