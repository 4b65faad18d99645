SPECIFICATION ListSpec
CONSTANTS
  Base = 2
  Width = 2
  Name = {1, 2, 3}
  Fold <- MCFold
  NotHex = NotHex
  NonAscii = {}
  Addresses <- MCAddresses
  MaxLength = 3
INVARIANTS CanonicalIsSorted CanonicalKeepsPolicies BuffersMatchTheLibrary
PROPERTIES CanonicalIgnoresOrder
