\* initSrs on one thread while a flow runs on another.
CONSTANTS
  c1 = c1
  c2 = c2
  c3 = c3
  Calls = {c1, c2, c3}
  NoCall = NoCall
  MaxCircuits = 1
SPECIFICATION Spec
SYMMETRY CallSymmetry
INVARIANT NoSrsLoadDuringFlow
CHECK_DEADLOCK FALSE
