SPECIFICATION Spec
CONSTANTS
  Callers = {g1, g2}
  NoCaller = nobody
  MaxCalls = 2
  Conns = {k1, k2}
  NoConn = nil
  NoCall = none
  Exts = {}
  Operations = {"Login", "Transform"}
  Cancellable = {}
  Relogin = FALSE
  Faults = {"garbage"}
PROPERTIES
  RetryOnTransportFailureOnly
CHECK_DEADLOCK FALSE
