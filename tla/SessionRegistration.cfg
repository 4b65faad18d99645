SPECIFICATION FairSpec
CONSTANTS
  Base = 2
  Width = 2
  Name = {1, 2, 3, 4}
  Fold <- MCFold
  NotHex = NotHex
  NonAscii = {4}
  Lists <- MCLists
  None = None
  MaxUrls = 2
  MaxSubs = 2
INVARIANTS TypeOK SessionIsWhatWasApproved LinkLeadsToThePolicies SessionsAreAuthorized
PROPERTIES UrlCallEnds
