CONSTANTS
  Users = {u1, u2}
  NoUser = NoUser
  Nil = Nil
  Documents <- MCDocuments
  AllDocuments <- MCAllDocuments
  MaxRounds = 2
SPECIFICATION Spec
INVARIANTS
  TypeOK
  ShownIsWhatWasRead
  ShownIsTheUsers
  SameTestsSameBars
  EveryAnswerCounts
PROPERTY SpinnerStops
