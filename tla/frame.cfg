CONSTANTS
  Ctx = {d1, d2}
  Outside = Outside
  Corutine = {r1, r2}
  MaxYield = 3
  None = None
  q1 = q1  w1 = w1  w2 = w2  p1 = p1  p2 = p2  m1 = m1  m2 = m2  i1 = i1
  Global = Global
  Length = {0, 1, 2, 3}
  MaxLength = 2
  MaxSend = 2
  MaxConn = 2
SPECIFICATION FrameSpec
CHECK_DEADLOCK FALSE
INVARIANTS
  FrameTypeOK
  InOnePlace
  InCurrentCtx
  FramedUnlessStale
PROPERTIES
  FrameDelivered
  CoroutinesEnd
