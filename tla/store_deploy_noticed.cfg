\* The account's deployment is accepted, then the app dies at the wrong await.
CONSTANTS
  p1 = p1
  Polls = {p1}
  MaxTxs = 1
  MaxAccounts = 1
  MaxFaults = 1
SPECIFICATION Spec
INVARIANT DeployNoticed
CHECK_DEADLOCK FALSE
