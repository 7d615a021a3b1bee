\* A prove result that arrives after the document was reloaded.
CONSTANTS
  c1 = c1
  c2 = c2
  Calls = {c1, c2}
  NoCall = NoCall
  MaxLoads = 2
  MaxProves = 2
  SlowStorage = FALSE
SPECIFICATION Spec
INVARIANT ProofIsOwn
SYMMETRY CallSymmetry
CHECK_DEADLOCK FALSE
