SPECIFICATION FairSpec
CONSTANTS
  Thread = {t1, t2}
  WaitTimes <- MCWaitTimes
  Ticks = {0, 400, 1000}
  Caller = Caller
  Nobody = Nobody
  MaxInterrupts = 2
  MaxFaults = 1
  MaxCallerLocks = 1
INVARIANT
  ThreadDataReachesItsJoiner
PROPERTIES
  HoldsForTheWholeWait
  StartedThreadsEnd
\* Every call was made and every thread joined.
CHECK_DEADLOCK FALSE
