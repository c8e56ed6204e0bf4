SPECIFICATION Spec
CONSTANTS
  Callers = {g1}
  NoCaller = nobody
  MaxCalls = 3
  Conns = {k1, k2, k3}
  NoConn = nil
  NoCall = none
  Exts = {x}
  Operations = {"Login", "Logout", "Transform"}
  Cancellable = {g1}
  Relogin = TRUE
  Faults = {"code", "garbage"}
INVARIANTS
  LoginAsksOnlyOffered
PROPERTIES
  AtMostTwice
CHECK_DEADLOCK FALSE
