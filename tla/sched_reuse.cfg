CONSTANTS
  c1 = c1  c2 = c2  i1 = i1  i2 = i2
  Ctx = {c1, c2}
  Worker = {w1, w2}
  Client = {p1, p2}
  Msg = {m1, m2}
  Id = {i1}
  Ops = {"push", "release"}
  Home <- AllGlobal
  BootId <- OneBooted
  NoState = {}
  PacketNumber = 1
  MaxAddTimes = 2
  Global = Global
  None = None
SYMMETRY Symmetry
SPECIFICATION Spec
CHECK_DEADLOCK FALSE


INVARIANT OneThreadPerCtx

