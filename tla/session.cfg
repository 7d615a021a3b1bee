\* Two calls of any kinds, two documents, two proves per document; no symmetry, which is
\* not sound for liveness.
CONSTANTS
  c1 = c1
  c2 = c2
  Calls = {c1, c2}
  NoCall = NoCall
  MaxLoads = 2
  MaxProves = 2
  SlowStorage = FALSE
SPECIFICATION FairSpec
INVARIANTS
  TypeOK
  OneFlow
  CancelReachesFlow
  OnlyCancelledAborts
  NoForgottenTx
PROPERTY BusyReleased
\* The user may stop, and the bounds end the behaviour.
CHECK_DEADLOCK FALSE
