SPECIFICATION ServerSpec
CONSTANTS
  Names = {n1, n2}
  Bytes = {x, y}
  Hole = Hole
  Size = 1
  Streams = {s1, s2, s3}
  Null = Null
  Empty = Empty
SYMMETRY Symmetry
INVARIANTS
  TypeOK CurrentUsable OkMeansStored StoredMeansOk VerifiedStays VerifiedRunnable
CHECK_DEADLOCK FALSE
