CONSTANTS
  Length = {0, 1, 2, 3}
  MaxLength = 2
  MaxSend = 2
  MaxConn = 2
SPECIFICATION FilterSpec
CHECK_DEADLOCK FALSE
INVARIANT
  Framed
