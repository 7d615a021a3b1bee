\* A cancel that arrives while the second deployment of deployAmm is proved.
CONSTANTS
  c1 = c1
  c2 = c2
  Calls = {c1, c2}
  NoCall = NoCall
  MaxLoads = 2
  MaxProves = 2
  SlowStorage = FALSE
SPECIFICATION Spec
INVARIANT CancelledSentNothing
SYMMETRY CallSymmetry
CHECK_DEADLOCK FALSE
