CONSTANTS
  r1 = r1  r2 = r2
  Req = {r1, r2}
  Ping = {r2}
  Packets <- OneChained
  Handshake = {"auth", "select"}
  MaxConn = 2
SPECIFICATION Spec
CHECK_DEADLOCK FALSE
INVARIANTS
  OwnReply
