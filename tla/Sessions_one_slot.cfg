SPECIFICATION Spec
CONSTANTS
  Client = {c1}
  Uid = {u1}
  MaxSessions = 1
  MaxAccepts = 2
  MaxQueue = 1
  Addr = {a1}
  KAddr = {k1}
  Kinds = {"handshake", "data", "shutdown", "bogus"}
  Signals = TRUE
  AfterUb = {"crashed", "up"}
  Gs = Gs
  NULL = NULL
INVARIANTS TypeOK SlotsOwnSessions KcpOwned LoginNeedsToken LoneThreadSafe
PROPERTY ClosedStaysClosed
CHECK_DEADLOCK FALSE
