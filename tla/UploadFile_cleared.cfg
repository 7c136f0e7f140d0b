SPECIFICATION Spec
CONSTANTS
  Names = {n1, n2}
  Bytes = {x, y}
  Hole = Hole
  Size = 2
  Streams = {s1, s2}
  Null = Null
INVARIANTS
  ClearedNotUsed
