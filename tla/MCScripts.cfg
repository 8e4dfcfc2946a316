CONSTANTS
  Files = {"a.ai", "b.ai"}
  MaxStates = 5
  Tree <- ScriptTree
  DiskFiles <- ScriptFiles
  Chosen <- ChosenPaths
  Picked <- PickedPaths
  Required <- RequiredPaths
  FILEs = {f1, f2, f3, f4}
  Memory = {n1, n2}
  Numbers = {1}
  OtherFile = 0
  UserdataMemory = {u1, u2}
  Streams = {c1, c2}
  MaxItems = 2
  MaxData = 2
SYMMETRY Symmetry
SPECIFICATION MCSpec
INVARIANTS
  StateIsOpen
  FreshPerBattle
  RunsChosen
  ListIsOpenFiles
  DirectoryRestored
  AbsoluteIsFound
  EachItsOwnFile
  AllClosed
  NothingLeft
CHECK_DEADLOCK FALSE
