CONSTANTS
  MaxLoads = 3
  MaxLateLoads = 2
  MaxAccounts = 2
  MaxLateAccounts = 1
  MaxKills = 1
SPECIFICATION FairSpec
INVARIANTS
  TypeOK
  ScreenIsBacked
  StorageOpens
  LoadAwaited
  AccountKept
PROPERTIES
  ReadyStays
  BootEnds
\* The user and the WebView may do nothing more.
CHECK_DEADLOCK FALSE
