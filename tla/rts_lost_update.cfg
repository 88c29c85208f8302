\* The rolling code form and a command at the same time.
CONSTANTS
  a1 = a1
  none = none
  Addrs = {a1}
  DefAddr = a1
  NoAddr = none
  CodeMod = 8
  FirstCode = 1
  Entries = {6}
  Faults = {}
  MaxCode = 3
  MaxRestarts = 1
SPECIFICATION Spec
INVARIANTS
  UpdatedCodeIsNext
CHECK_DEADLOCK FALSE
