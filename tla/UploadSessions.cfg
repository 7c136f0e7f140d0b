SPECIFICATION Spec
CONSTANTS
  Threads = {t1, t2}
  Slots = {s1, s2}
  Uploads = {u1, u2, u3}
  Null = Null
SYMMETRY Symmetry
INVARIANTS
  DefinedInTime OwnFileOnly OwnFileChecked
CHECK_DEADLOCK FALSE
