SPECIFICATION FairSpec
CONSTANTS
  Client = {c1}
  Uid = {u1}
  MaxSessions = 1
  MaxAccepts = 2
  MaxQueue = 1
  Addr = {a1}
  KAddr = {k1}
  Kinds = {"handshake", "data", "shutdown", "bogus"}
  Signals = FALSE
  AfterUb = {"crashed"}
  Gs = Gs
  NULL = NULL
PROPERTY SilentSessionsEnd
CHECK_DEADLOCK FALSE
