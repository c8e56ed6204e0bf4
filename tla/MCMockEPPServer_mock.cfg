SPECIFICATION FairSpec
CONSTANTS
  MaxConns = 2
  MaxFrames = 2
  MaxScripted = 2
  MaxPolls = 1
  ExpectCap = 2
  PollCap = 1
  ReceivedCap = 1
INVARIANTS
  TypeOK
  RepliesPaired
  ScriptInOrder
  CapturedBeforeAnswered
  DropHitsLatest
  CleanupLeavesNothing
PROPERTIES
  CleanupEnds
CHECK_DEADLOCK FALSE
