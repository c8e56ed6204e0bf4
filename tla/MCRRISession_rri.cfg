SPECIFICATION FairSpec
CONSTANTS
  k1 = k1
  k2 = k2
  Clients = {k1, k2}
  Nobody = Nobody
  MaxCalls = 4
  MaxNames = 2
  Plans <- SomePlans
  Items = {"success", "missing", "malformed", "unknown"}
  ExpectCap = 1
  OpTypes = {"LOGIN", "LOGOUT", "QUEUE-READ", "QUEUE-DELETE", "CHECK", "INFO", "CREATE"}
  Profiles <- SomeProfiles
  Backends = {"mock", "standalone"}
INVARIANTS
  LoginDecides
  AnswersPaired
  EmptyQueueAnswered
  LogoutCloses
  QueriesLimited
PROPERTIES
  CallsReturn
  CleanupEnds
  CallsOnce
CHECK_DEADLOCK FALSE
