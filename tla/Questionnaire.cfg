CONSTANTS
  Buttons = {1, 2, 3}
  Total = 4
  MaxScreens = 8
SPECIFICATION Spec
INVARIANTS
  TypeOK
  CountersInStep
  FirstFilingIsTheTest
  UploadedOnceAsFiled
  ExtraFilingsAreFromOneEvent
  EachSpinnerShowsOneResult
PROPERTY SpinnerEnds
