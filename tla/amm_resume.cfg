\* The app dies after the step is saved, before both deployments are tracked.
CONSTANTS
  MaxTxs = 2
  MaxKills = 1
SPECIFICATION Spec
INVARIANT DeployResumes
CHECK_DEADLOCK FALSE
