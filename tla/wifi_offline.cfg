\* The link drops while app_main looks.
CONSTANTS
  Ssids = {TRUE}
  Urls = {TRUE}
  MaxRetries = 1
  StaTimeout = 1
  KickEvery = 1
  RebootAfter = 3
  StrandedAfter = 2
  Windows = {1}
  MaxTrouble = 2
  StaleCap = 4
SPECIFICATION FairSpec
PROPERTIES
  NeverOfflineForever
CHECK_DEADLOCK FALSE
