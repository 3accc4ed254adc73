SPECIFICATION Spec
CONSTANTS
  a = a
  b = b
  nl = nl
  MaxEntries = 2
  Thread = {t1}
  Byte <- MCByte
  Newline = nl
  Ptr <- MCPtr
  NULL = NULL
  ZERO_SIZE_PTR = ZERO_SIZE_PTR
  Payloads <- MCPayloads
  ReadCounts = {1}
  MaxStream = 3
  MaxFaults = 0
INVARIANT
  CleanupFreesEverything
