CONSTANTS
  Ids = {1, 2, 3}
SPECIFICATION Spec
INVARIANTS
  TypeOK
  CallbacksHaveScreens
  RegisteredIsOnTop
  ProfileAsks
