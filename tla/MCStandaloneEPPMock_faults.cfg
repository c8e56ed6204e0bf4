SPECIFICATION Spec
CONSTANTS
  Callers = {g1, g2, g3}
  MaxCalls = 1
  Conns = {k1, k2}
  NoConn = nil
  NoCall = none
  Exts = {}
  Faults = {"code", "empty", "garbage"}
  OpTypes = {"hello", "check", "info", "poll", "create"}
  Profiles <- AllProfiles
SYMMETRY Symmetry
INVARIANTS
  LimitHolds
  CorruptsFirstOnly
  FlapsPerConnection
  EngineInv
PROPERTIES
  ImplementsServer
CHECK_DEADLOCK FALSE
