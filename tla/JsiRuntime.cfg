CONSTANTS
  f1 = f1
  f2 = f2
  MaxRuntimes = 3
  Future <- MCFuture
SPECIFICATION Spec
INVARIANTS
  TypeOK
  NoLambdaOutlivesItsRuntime
  FirstInstallIsTrue
PROPERTY PolledFutureContinues
\* The user closes the program, or the process aborts.
CHECK_DEADLOCK FALSE
