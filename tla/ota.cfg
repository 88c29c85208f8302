SPECIFICATION FairSpec
CONSTANTS
  Pulls = {t1}
  Images = {factory, update}
  Factory = factory
  Junk = junk
  Erased = erased
  Chunks = 2
  NoImage = none
INVARIANTS
  TypeOK
  RunsWhole
  OkBoots
PROPERTIES
  OnlyAcceptedBoots
  UploadEnds
  NewFirmwareRuns
CHECK_DEADLOCK FALSE
