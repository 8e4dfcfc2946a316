CONSTANTS
  Bots = {b1, b2, b3}
  Settings = {2, 3}
  Overrides = {0}
SYMMETRY Symmetry
SPECIFICATION Spec
INVARIANTS
  PlaysItsOwnSide
  OneBotPerSide
  GivesUpOnlyWhenFull
