CONSTANTS
  Alphabet = {"1", "2", "3", "4", "5", "6", "7", "8", "9", "A", "D", "E", "H", "J", "(", "?"}
  MaxLen = 3
  DashTries = 2
  HoldFrames = 3
SPECIFICATION Spec
INVARIANTS
  InputsShown
PROPERTIES
  DirectionHeld
  CommandEnds
CHECK_DEADLOCK FALSE
