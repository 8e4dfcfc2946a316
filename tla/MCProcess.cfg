CONSTANTS
  Addresses = {"SCENEID", "ACTIVEFLAG"}
  ACTIVEFLAG = "ACTIVEFLAG"
  MaxOuter = 2
  Keys = {"A", "B"}
  MaxPending = 3
  Main = main
  FrameSkip = frame_skip
  Others = {a, b, c}
  MaxTop = 1
SPECIFICATION MCSpec
CHECK_DEADLOCK FALSE
INVARIANTS
  AddressesOfTheGame
  OneHandle
  UpdateAfterAll
PROPERTIES
  Reattaches
  RemapsReleased
  ReleasedAfterBattle
  FirstEndsProgram
  EveryThreadRuns
