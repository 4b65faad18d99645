SPECIFICATION Spec
CONSTANTS
  Key = {k1}
  Policies = {p1, p2}
  FirstKey = k1
  DefaultPolicies = p1
  None = None
  MaxTaps = 1
  MaxEdits = 1
  MaxDeepLinks = 0
INVARIANTS SessionHasTheApprovedPolicies
CHECK_DEADLOCK FALSE
