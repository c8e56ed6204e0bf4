SPECIFICATION Spec
CONSTANTS
  r1 = r1
  r2 = r2
  contact = contact
  domain = domain
  p1 = p1
  p2 = p2
  transfer = transfer
  Runs = {r1, r2}
  Nobody = Nobody
  NoBase = NoBase
  Token = Token
  None = None
  MsgTypes = {transfer}
  MaxArrivals = 0
  Reliable = TRUE
  Plans <- AsWritten
INVARIANT
  ScenariosPass
CHECK_DEADLOCK FALSE
