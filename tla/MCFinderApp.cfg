SPECIFICATION Spec
CONSTANTS
  MaxFiles = 3
  MaxRuns = 2
  MaxFaults = 2
PROPERTIES
  SuccessMeansAllWritten
  ZeroMeansWritten
\* The runs of the script are over and nobody runs the writer.
CHECK_DEADLOCK FALSE
