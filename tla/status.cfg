\* Intervals: the least, one between two passes, one above the watchdog.
SPECIFICATION Spec
CONSTANTS
  Intervals = {5, 12, 40}
  Tick = 5
  Modulus = 64
  Last = 3
  Watchdog = 30
  MaxChanges = 1
  AgeCap = 60
INVARIANTS
  TypeOK
  Fresh
  Fed
PROPERTY
  Spaced
