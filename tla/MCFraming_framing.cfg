SPECIFICATION FairSpec
CONSTANTS
  Base = 2
  MaxPayload = 3
  Overclaim = 2
  Payloads <- SomePayloads
  Refusal = Refusal
  MaxFrames = 3
INVARIANTS
  TypeOK
  FramesIntact
PROPERTIES
  FramesArrive
  ReadsEnd
CHECK_DEADLOCK FALSE
