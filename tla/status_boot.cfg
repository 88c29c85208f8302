\* The first passes after boot.
SPECIFICATION Spec
CONSTANTS
  Intervals = {5, 12, 40}
  Tick = 5
  Modulus = 64
  Last = 3
  Watchdog = 30
  MaxChanges = 0
  AgeCap = 60
PROPERTY
  BootReport
