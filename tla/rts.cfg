\* Two tasks, a restart, and a counter that runs over what the frame has room
\* for; a rolling code typed, ahead or behind, or saves that fail before or
\* after the value is stored and a partition erased.
CONSTANTS
  a1 = a1
  a2 = a2
  none = none
  Addrs = {a1, a2}
  DefAddr = a1
  NoAddr = none
  CodeMod = 3
  FirstCode = 1
  Entries = {5}
  Faults = {"open", "commit", "erase"}
  MaxCode = 4
  MaxRestarts = 1
SPECIFICATION MCSpec
INVARIANTS
  TypeOK
  NoReplay
  RestartSafe
  OneCodePerCommand
  PairingRecorded
  QuietUpdateKept
  NoStepBack
  AddressApplied
PROPERTIES
  KeepsPromise
  OneStepSend
  AddressChangeCompletes
CHECK_DEADLOCK FALSE
