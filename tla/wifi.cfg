\* Router, broker and setup page come and go.
CONSTANTS
  Ssids = {TRUE, FALSE}
  Urls = {TRUE, FALSE}
  MaxRetries = 1
  StaTimeout = 1
  KickEvery = 1
  RebootAfter = 3
  StrandedAfter = 2
  Windows = {1, 3}
  MaxTrouble = 3
  StaleCap = 5
SPECIFICATION FairSpec
INVARIANTS
  TypeOK
  FlagsFollowDriver
  StrandedIsPatient
  OutageIsReal
PROPERTIES
  Recovers
CHECK_DEADLOCK FALSE
