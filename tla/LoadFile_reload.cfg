CONSTANTS
  Tree <- ScriptTree
  Files <- ScriptFiles
  Chosen <- ChosenPaths
  Picked <- PickedPaths
  Required <- RequiredPaths
  FILEs = {f1, f2, f3}
  Memory = {n1, n2}
SPECIFICATION Spec
INVARIANT
  ReloadFindsScript
CHECK_DEADLOCK FALSE
