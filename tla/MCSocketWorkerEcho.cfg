SPECIFICATION Spec
CONSTANTS
  a = a
  b = b
  nl = nl
  Conn = {c1, c2}
  Byte <- MCByte
  Newline = nl
  Capacity = 2
  BUFSIZE = 2
  Messages <- LongLine
  MaxFaults = 0
  Nobody = Nobody
INVARIANT
  ClientGetsContentsOnce
CHECK_DEADLOCK FALSE
