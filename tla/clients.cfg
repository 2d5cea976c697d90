CONSTANTS
  r1 = r1  r2 = r2  m = m  p = p  s1 = s1  s2 = s2  u1 = u1  k = k
  Req = {r1, r2}
  Ping = {r2}
  Packets <- OneChained
  Handshake = {"auth", "select"}
  MaxConn = 2
SPECIFICATION ClientsSpec
CHECK_DEADLOCK FALSE
INVARIANTS
  ClientsTypeOK
  DisconnectClears
  RequestsInStep
  StreamInStep
  MessageFindsEntry
  SubscribedInStep
PROPERTIES
  ClientsEnd
