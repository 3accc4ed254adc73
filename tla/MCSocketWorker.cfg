SPECIFICATION FairSpec
CONSTANTS
  a = a
  b = b
  nl = nl
  Conn = {c1, c2}
  Byte <- MCByte
  Newline = nl
  Capacity = 2
  BUFSIZE = 2
  Messages <- MCMessages
  MaxFaults = 1
  Nobody = Nobody
INVARIANTS
  AnswerIsTheDevice
  AnswerKeepsTheOrder
  ClientBytesInOrder
PROPERTY
  EveryMessageServed
\* Threads end with their connections, and all with the process.
CHECK_DEADLOCK FALSE
