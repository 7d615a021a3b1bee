\* An abort request that finds no flow running.
CONSTANTS
  c1 = c1
  c2 = c2
  c3 = c3
  c4 = c4
  Calls = {c1, c2, c3, c4}
  NoCall = NoCall
  MaxCircuits = 1
SPECIFICATION FairSpec
PROPERTY NoStaleAbort
CHECK_DEADLOCK FALSE
