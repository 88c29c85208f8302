SPECIFICATION Spec
CONSTANTS
  Buttons = {1, 2, 4, 8}
  Counters = {0, 1, 255, 256, 43690, 65535, 65536, 70000}
  Remotes = {1, 1184521, 65280, 16777215}
  Chars = {97, 32, 37, 38, 61}
  MaxValue = 2
  OutLens = {4, 7}
  BodyLens = {12, 64}
  Arrivals = {0, 9, 64}
INVARIANTS
  FramesReceived
  FitsPeripheral
  FieldsSurvive
  FieldsOnlyCut
