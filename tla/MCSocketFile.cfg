SPECIFICATION FairSpec
CONSTANTS
  c1 = c1
  c2 = c2
  Conn = {c1, c2}
  MaxPieces <- MCMaxPieces
  BUFSIZE = 2
  PERIOD = 1
  Tick = 2
  MaxTime = 5
  MaxFaults = 1
  Nobody = Nobody
  Timer = Timer
  Unsent = Unsent
INVARIANTS
  AnswerIsTheFile
  FileHoldsEverything
  StampsAreNotEarly
  FileLivesAsLongAsItsUsers
PROPERTY
  TimerStops
\* The server exits.
CHECK_DEADLOCK FALSE
