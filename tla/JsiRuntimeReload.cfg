CONSTANTS
  f1 = f1
  f2 = f2
  MaxRuntimes = 3
  Future <- MCFuture
SPECIFICATION Spec
INVARIANT InstalledIsTrue
CHECK_DEADLOCK FALSE
