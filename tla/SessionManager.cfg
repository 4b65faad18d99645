SPECIFICATION FairSpec
CONSTANTS
  Key = {k1}
  Policies = {p1, p2}
  FirstKey = k1
  DefaultPolicies = p1
  None = None
  MaxTaps = 2
  MaxEdits = 1
  MaxDeepLinks = 1
INVARIANTS TypeOK LoadingHasACause
PROPERTIES AnswerReachesTheUser
CHECK_DEADLOCK FALSE
