SPECIFICATION FairSpec
CONSTANTS
  Conns = {a, b}
  None = None
  MaxFd = 2
  MaxSend = 2
  SndBuf = 1
  SpawnMayFail = FALSE
PROPERTIES BacklogServed Drain
CHECK_DEADLOCK FALSE
