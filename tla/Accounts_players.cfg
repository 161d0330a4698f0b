SPECIFICATION Spec
CONSTANTS
  MaxAid = 1
  MaxUid = 2
  Name = {alice}
  Thread = {t1, t2}
  MaxTokens = 1
  MaxProgress = 1
  MaxLogins = 3
  MaxCrashes = 1
  WritesFail = FALSE
  NULL = NULL
SYMMETRY Sym
INVARIANTS OnePlayerPerAccount StoredTeamsResolve
PROPERTY ProgressKept
CHECK_DEADLOCK FALSE
