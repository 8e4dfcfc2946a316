CONSTANTS
  Values = {1, 2}
  Delays = {0, 1, 2}
  MaxFrames = 4
SPECIFICATION Spec
INVARIANT
  ActDelayed
