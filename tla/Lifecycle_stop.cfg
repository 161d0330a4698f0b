SPECIFICATION FairSpec
CONSTANTS
  Request <- Requests
  BufLen = 5
  MaxHdrs = 2
  MaxConns = 2
  HasReadline = TRUE
  MaxSignals = 1
  MaxThreads = 1
  NULL = NULL
INVARIANTS TypeOK ServersUseOpenDb AnswersOwnRequest ShortRequestsFit RoutedWasParsed
PROPERTIES StopEnds ServersFallTogether
CHECK_DEADLOCK FALSE
