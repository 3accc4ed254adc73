SPECIFICATION Spec
CONSTANTS
  MaxEntries = 3
  Buffptr = {b1, b2}
  NULL = NULL
  Sizes = {0, 2}
  MaxAdds = 7
INVARIANTS
  TypeOK
  ScansWhatIsHeld
  HoldsTheNewest
  FindsTheByteOfTheConcatenation
PROPERTY
  RefinesSlidingWindow
\* The exploration stops at MaxAdds adds.
CHECK_DEADLOCK FALSE
