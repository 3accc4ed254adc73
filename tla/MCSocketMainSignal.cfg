SPECIFICATION FairSpec
CONSTANTS
  Conn = {c1}
  NoEntry = NoEntry
  MaxSignals = 1
  MaxFaults = 0
PROPERTY
  SignalEndsAcceptLoop
\* The process ends.
CHECK_DEADLOCK FALSE
