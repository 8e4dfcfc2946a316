CONSTANTS
  ScriptKeys = {2, 3, 11}
  Delays = {0, 2}
  MaxQueue = 3
SPECIFICATION SteadySpec
INVARIANTS
  NoOppositeHeld
  DrainedMatches
PROPERTIES
  OffIsReleased
CHECK_DEADLOCK TRUE
