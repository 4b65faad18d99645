SPECIFICATION Spec
CONSTANTS
  Key = {k1}
  Policies = {p1}
  FirstKey = k1
  DefaultPolicies = p1
  None = None
  MaxTaps = 1
  MaxEdits = 0
  MaxDeepLinks = 0
PROPERTIES CancelledSubscriptionInstallsNothing
CHECK_DEADLOCK FALSE
