SPECIFICATION FairSpec
CONSTANTS
  MaxCalls = 2
  MaxFd = 3
  ClosedAtStart = TRUE
  MaxFaults = 2
INVARIANTS
  TrueMeansItsCommandSucceeded
  OutputGoesToItsFile
PROPERTY
  CallsReturn
\* The program made all its calls.
CHECK_DEADLOCK FALSE
