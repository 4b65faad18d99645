CONSTANTS
  o1 = o1
  o2 = o2
  c1 = c1
  s1 = s1
  NoObject = NoObject
  MaxCalls = 3
CONSTANTS
  Object <- MCObject
  Class <- MCClass
  ApiDeclared <- MCDeclared
  ApiExposed <- MCExposed
  ApiGlue <- MCGlue
  ApiCalled <- MCCalled
  Checked <- MCChecked
  Nothing <- MCNothing
SPECIFICATION Spec
INVARIANTS
  TypeOK
  EveryCallFits
  ClonesAreAccounted
  FreedOnce
PROPERTIES
  TeardownFrees
  KeepsThePromise
\* A program makes as many calls as it likes, and its runtime goes.
CHECK_DEADLOCK FALSE
