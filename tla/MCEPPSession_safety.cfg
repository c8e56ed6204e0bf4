SPECIFICATION Spec
CONSTANTS
  Callers = {g1, g2}
  NoCaller = nobody
  MaxCalls = 2
  Conns = {k1, k2, k3}
  NoConn = nil
  NoCall = none
  Exts = {}
  Operations = {"Login", "Logout", "Close", "Ping", "Transform"}
  Cancellable = {}
  Relogin = FALSE
  Faults = {"code", "empty", "garbage", "short"}
SYMMETRY Symmetry
INVARIANTS
  
  
  CommandsAfterLogin
  ClTRIDsDiffer
  OneConnection
  
CHECK_DEADLOCK FALSE
