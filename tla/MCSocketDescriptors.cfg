SPECIFICATION Spec
CONSTANTS
  Conn = {c1, c2, c3}
  Fd = {f1, f2, f3, f4}
  MaxFaults = 2
  Nobody = Nobody
SYMMETRY Symmetry
INVARIANTS
  NumbersNameTheirFiles
  NumbersAreAccounted
\* Every connection came and went.
CHECK_DEADLOCK FALSE
