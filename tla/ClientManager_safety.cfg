SPECIFICATION StartedSpec
CONSTANTS
  Conns = {a, b, c}
  None = None
  MaxFd = 3
  MaxSend = 3
  SndBuf = 1
  SpawnMayFail = FALSE
SYMMETRY Symmetry
INVARIANTS
  AtMostOneLogin SocketsOwned OccupantServed SlotHeldDuringSend
PROPERTIES SessionSticky GateKept
CHECK_DEADLOCK FALSE
