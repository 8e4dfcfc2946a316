CONSTANTS
  Programs <- Scripts
  StackSize = 40
  Collation <- Pieces
  MAXSTACK = 14
  MAXINDEXRK = 1
  LFIELDS_PER_FLUSH = 2
  MAXARG_C = 3
  LUAI_MAXVARS = 8
  LUAI_MAXUPVALUES = 3
  LUAI_MAXCCALLS = 8
  Numbers = {1, 2, 3, 8}
  Strings = {s1, s2}
  Hash <- TableHash
  s1 = s1
  s2 = s2
  Values = {v1}
  MAXBITS = 3
  MAX_INT = 9
  MaxSizes = 2
  NoValue = nil
SPECIFICATION MCSpec
INVARIANTS
  MeansWhatItSays
  CodeIsValid
  UpvaluesInFrames
  LengthIsBorder
PROPERTIES
  Implements
CHECK_DEADLOCK FALSE
