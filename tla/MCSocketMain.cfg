SPECIFICATION FairSpec
CONSTANTS
  Conn = {c1, c2, c3}
  NoEntry = NoEntry
  MaxSignals = 2
  MaxFaults = 2
INVARIANTS
  EntryOutlivesThread
  ListIsAllEntries
  NoThreadCutOff
PROPERTIES
  StopsOnceClientsLeave
  SignalEndsTheServer
\* The process ends.
CHECK_DEADLOCK FALSE
