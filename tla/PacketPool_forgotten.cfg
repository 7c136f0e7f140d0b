SPECIFICATION Spec
CONSTANTS
  Packets = {p1, p2, p3, p4, p5}
  Nodes = {n1, n2, n3, n4}
  Null = Null
  MaxIdle = 3
  Threads = {t1, t2}
  UdpThread = udp
  MallocMayFail = FALSE

INVARIANTS
  NothingForgotten

CHECK_DEADLOCK FALSE
