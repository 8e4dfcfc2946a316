CONSTANTS
  a1 = a1
  a2 = a2
  a3 = a3
  Heap = {a1, a2, a3}
  Scripts <- SmallScripts
SPECIFICATION Spec
INVARIANTS
  LiveIsKept
PROPERTIES
  FinalizedOnce
  EntriesKept
  GarbageIsFreed
CHECK_DEADLOCK FALSE
