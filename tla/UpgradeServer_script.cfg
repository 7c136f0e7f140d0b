SPECIFICATION ServerSpec
CONSTANTS
  Names = {n1}
  Bytes = {x}
  Hole = Hole
  Size = 1
  Streams = {s1, s2}
  Null = Null
  Empty = Empty
SYMMETRY Symmetry
INVARIANTS
  OkMeansRan
CHECK_DEADLOCK FALSE
