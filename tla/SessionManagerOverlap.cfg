SPECIFICATION Spec
CONSTANTS
  Key = {k1}
  Policies = {p1}
  FirstKey = k1
  DefaultPolicies = p1
  None = None
  MaxTaps = 2
  MaxEdits = 0
  MaxDeepLinks = 0
INVARIANTS AtMostOneLiveSubscription
CHECK_DEADLOCK FALSE
