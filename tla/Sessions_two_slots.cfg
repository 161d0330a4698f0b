SPECIFICATION Spec
CONSTANTS
  Client = {c1}
  Uid = {u1}
  MaxSessions = 2
  MaxAccepts = 2
  MaxQueue = 1
  Addr = {a1, a2}
  KAddr = {k1, k2}
  Kinds = {"handshake", "data", "shutdown", "bogus"}
  Signals = FALSE
  AfterUb = {"crashed"}
  Gs = Gs
  NULL = NULL
SYMMETRY Sym
INVARIANTS SlotsOwnSessions KcpOwned LoginNeedsToken
CHECK_DEADLOCK FALSE
