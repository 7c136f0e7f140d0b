SPECIFICATION StartedSpec
CONSTANTS
  Conns = {a, b}
  None = None
  MaxFd = 2
  MaxSend = 2
  SndBuf = 1
  SpawnMayFail = FALSE
INVARIANT OnlyVerifiedServed
CHECK_DEADLOCK FALSE
