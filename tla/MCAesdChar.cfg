SPECIFICATION Spec
CONSTANTS
  a = a
  b = b
  nl = nl
  MaxEntries = 2
  Thread = {t1, t2}
  Byte <- MCByte
  Newline = nl
  Ptr <- MCPtr
  NULL = NULL
  ZERO_SIZE_PTR = ZERO_SIZE_PTR
  Payloads <- MCPayloads
  ReadCounts = {0, 3}
  MaxStream = 5
  MaxFaults = 1
SYMMETRY Threads
INVARIANTS
  TypeOK
  SemaphoreHeldByOne
  HoldsTheNewestLines
  EvictedBytesExact
  BuffersOwnedOnce
  WriteReportsWhatItTook
  ReadReturnsTheStream
PROPERTIES
  ReaderSkipsOnlyEvicted
  CallsComeToAnEnd
  RefinesLineLog
