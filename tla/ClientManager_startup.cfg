SPECIFICATION Spec
CONSTANTS
  Conns = {a, b}
  None = None
  MaxFd = 2
  MaxSend = 3
  SndBuf = 1
  SpawnMayFail = TRUE
SYMMETRY Symmetry
INVARIANTS
  TypeOK AtMostOneLogin PasswordFirst SessionServed
PROPERTY ForgottenOnlyByTakeover
CHECK_DEADLOCK FALSE
