SPECIFICATION Spec
CONSTANTS
  Texts = {0, 2}
  Passwords = {0, 1, 2}
  Sessions <- MCSessions
  Numbers <- MCNumbers
  MayFail = TRUE
INVARIANTS
  TypeOK
  RestartKeeps
  OneSave
PROPERTY
  PasswordTyped
