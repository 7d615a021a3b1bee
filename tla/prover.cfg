\* Three concurrent calls of any kind, flows of up to two circuits.
CONSTANTS
  c1 = c1
  c2 = c2
  c3 = c3
  Calls = {c1, c2, c3}
  NoCall = NoCall
  MaxCircuits = 2
SPECIFICATION FairSpec
INVARIANTS
  TypeOK
  FlowIntact
PROPERTIES
  ImplementsSerialProver
  EveryCallReturns
\* The host may stop calling.
CHECK_DEADLOCK FALSE
