CONSTANTS
  MaxTxs = 5
  MaxKills = 1
SPECIFICATION Spec
INVARIANTS
  TypeOK
  StepsConfirmed
  LiquidityIntoWorkingAmm
PROPERTY NeverRewinds
\* The user and the node may do nothing more.
CHECK_DEADLOCK FALSE
