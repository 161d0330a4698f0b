SPECIFICATION Spec
CONSTANTS
  ServerMsgs = 2
  ClientMsgs = 0
  MaxFrags = 2
  WndRcv = 3
  SndWnd = 3
  RcvWnd = 3
  RecvBuf = 2
  MaxFaults = 2
  MaxNet = 1
INVARIANTS TypeOK WindowsRespected AckedIsKept
PROPERTY ImplementsChannel
CHECK_DEADLOCK FALSE
