SPECIFICATION DaemonSpec
CONSTANTS
  Packets = {p1, p2, p3, p4, p5}
  Nodes = {n1, n2, n3, n4}
  Null = Null
  MaxIdle = 3
  Threads = {t1, t2}
  UdpThread = udp
  MallocMayFail = TRUE
  Askers = {a1, a2}
  InterfaceLists <- MCInterfaceLists
SYMMETRY Symmetry
INVARIANTS
  TypeOK RingShape OwnedOnce PacketsAccounted RepliesToAsker EveryInterfaceTried
PROPERTY IdleSpec
CHECK_DEADLOCK FALSE
