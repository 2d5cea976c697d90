CONSTANTS
  c1 = c1  c2 = c2  i1 = i1  i2 = i2
  b1 = b1  b2 = b2  j1 = j1  j2 = j2  v1 = v1  v2 = v2  q1 = q1
  Ctx = {c1, c2}
  Worker = {w1, w2}
  Client = {p1, p2}
  Msg = {m1}
  Id = {i1}
  Ops = {"push", "release"}
  Home <- AllGlobal
  BootId <- OneBooted
  NoState = {}
  PacketNumber = 1
  MaxAddTimes = 2
  Global = Global
  None = None
SYMMETRY Symmetry
SPECIFICATION SchedulerSpec
CHECK_DEADLOCK FALSE
INVARIANTS
  TypeOK
  SingleConsumer
  NoMessageStranded
  IInv
  OneThreadUnlessReused
PROPERTIES
  MailboxUnlessReused
  BootImplementsMailbox
