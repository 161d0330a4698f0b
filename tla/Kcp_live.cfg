SPECIFICATION FairSpec
CONSTANTS
  ServerMsgs = 2
  ClientMsgs = 0
  MaxFrags = 3
  WndRcv = 3
  SndWnd = 2
  RcvWnd = 3
  RecvBuf = 2
  MaxFaults = 1
  MaxNet = 1
PROPERTY EveryMessageArrives
CHECK_DEADLOCK FALSE
