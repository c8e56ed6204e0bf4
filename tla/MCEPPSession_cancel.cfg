SPECIFICATION AdapterFairSpec
CONSTANTS
  Callers = {g1}
  NoCaller = nobody
  MaxCalls = 2
  Conns = {k1, k2}
  NoConn = nil
  NoCall = none
  Exts = {}
  Operations = {"Login", "Transform"}
  Cancellable = {g1}
  Relogin = FALSE
  Faults = {}
PROPERTIES
  CancelledCallsReturn
CHECK_DEADLOCK FALSE
