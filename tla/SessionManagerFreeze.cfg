SPECIFICATION FairSpec
CONSTANTS
  Key = {k1}
  Policies = {p1}
  FirstKey = k1
  DefaultPolicies = p1
  None = None
  MaxTaps = 0
  MaxEdits = 0
  MaxDeepLinks = 1
PROPERTIES MainThreadComesBack
CHECK_DEADLOCK FALSE
