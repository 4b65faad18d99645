CONSTANTS
  t1 = t1
  t2 = t2
  owner = owner
  controller = controller
  NoThread = NoThread
  NoObject = NoObject
  Nothing = "none of them"
  MaxCalls = 2
CONSTANTS
  Thread <- MCThread
  Object <- MCObject
  Class <- MCClass
  Api <- MCApi
  Checked <- MCChecked
SPECIFICATION Spec
INVARIANTS
  TypeOK
  NothingLeaks
  StaleLibraryIsNeverEntered
PROPERTIES
  LastReleaseFrees
  KeepsThePromise
\* A program makes as many calls as it likes, and ends.
CHECK_DEADLOCK FALSE
