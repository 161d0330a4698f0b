SPECIFICATION Spec
CONSTANTS
  MaxAid = 2
  MaxUid = 0
  Name = {alice, bob}
  Thread = {}
  MaxTokens = 3
  MaxProgress = 0
  MaxLogins = 0
  MaxCrashes = 1
  WritesFail = TRUE
  NULL = NULL
INVARIANTS TypeOK NamesUnique LatestTokenStored
PROPERTY IdentityKept
CHECK_DEADLOCK FALSE
