CONSTANTS
  c1 = c1  c2 = c2  i1 = i1  i2 = i2
  Ctx = {c1}
  Worker = {w1}
  Client = {p1}
  Msg = {m1}
  Id = {i1}
  Ops = {"push", "release"}
  Home <- AllGlobal
  BootId <- BothBooted
  NoState = {}
  PacketNumber = 1
  MaxAddTimes = 3
  Global = Global
  None = None
SPECIFICATION FairSpec
CHECK_DEADLOCK FALSE
PROPERTY
  ReleaseTakesEffect
