\* Commands from both sides, the cover setting, a lost connection, a restart.
CONSTANTS
  QueueLen = 1
  Pressed = {"prog"}
  TxErrors = TRUE
  MaxCommands = 2
  MaxFlips = 1
  MaxDrops = 1
  MaxRestarts = 1
  OutboxMax = 0
SPECIFICATION Spec
INVARIANTS
  TypeOK
  CoverHonest
  Announced
CHECK_DEADLOCK FALSE
