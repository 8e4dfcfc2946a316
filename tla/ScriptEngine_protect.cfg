CONSTANTS
  Files = {"a.ai", "b.ai"}
  MaxStates = 5
SPECIFICATION Spec
INVARIANT
  ErrorsReload
CHECK_DEADLOCK FALSE
