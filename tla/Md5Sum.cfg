SPECIFICATION Spec
CONSTANTS
  Files <- MCFiles
  ReadCap = 128
  Pieces = {9, 55, 64}
  Nil = Nil
  Garbage = Garbage
  Transform <- BlockDone
INVARIANTS
  SumOfWhole SumIsMd5 RfcSuite PaddingFits
CHECK_DEADLOCK FALSE
