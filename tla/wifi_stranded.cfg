\* An address arrives while the main task falls back.
CONSTANTS
  Ssids = {TRUE}
  Urls = {TRUE}
  MaxRetries = 1
  StaTimeout = 1
  KickEvery = 1
  RebootAfter = 3
  StrandedAfter = 2
  Windows = {1}
  MaxTrouble = 2
  StaleCap = 4
SPECIFICATION FairSpec
PROPERTIES
  StrandedReboots
CHECK_DEADLOCK FALSE
