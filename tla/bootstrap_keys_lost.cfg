CONSTANTS
  MaxLoads = 2
  MaxLateLoads = 2
  MaxAccounts = 1
  MaxLateAccounts = 1
  MaxKills = 0
SPECIFICATION FairSpec
PROPERTY KeysStay
\* The user and the WebView may do nothing more.
CHECK_DEADLOCK FALSE
