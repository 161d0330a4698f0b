SPECIFICATION Spec
CONSTANTS
  Request <- RequestKinds
  BufLen = 5
  MaxHdrs = 2
  MaxConns = 1
  HasReadline = FALSE
  MaxSignals = 0
  MaxThreads = 0
  NULL = NULL
INVARIANT RefusedIsAnswered
CHECK_DEADLOCK FALSE
