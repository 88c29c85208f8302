\* Fair tasks: the queue, the retained code, the last will.
CONSTANTS
  QueueLen = 1
  Pressed = {"up"}
  TxErrors = TRUE
  MaxCommands = 1
  MaxFlips = 0
  MaxDrops = 1
  MaxRestarts = 0
  OutboxMax = 1
SPECIFICATION FairSpec
PROPERTIES
  QueueDrains
  RollingHeals
  OfflineShows
CHECK_DEADLOCK FALSE
