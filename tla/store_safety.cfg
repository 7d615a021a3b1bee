CONSTANTS
  p1 = p1
  p2 = p2
  Polls = {p1, p2}
  MaxTxs = 2
  MaxAccounts = 2
  MaxFaults = 1
SPECIFICATION Spec
INVARIANTS
  TypeOK
  KeysSealed
  TrackedIsDurable
  SettledAgrees
  DeployedIsConfirmed
  PollerRuns
PROPERTY RecordsLifecycle
SYMMETRY PollSymmetry
\* The user and the node may do nothing more.
CHECK_DEADLOCK FALSE
