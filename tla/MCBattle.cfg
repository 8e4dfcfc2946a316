CONSTANTS
  Objects = {"a", "b", "c"}
  Attached = {"a", "b"}
  Values = {1, 2}
  Delays = {0, 1, 2}
  MaxFrames = 4
SPECIFICATION MCSpec
INVARIANTS
  WalkIsExact
  ScriptSeesCount
  OwnSamples
PROPERTIES
  WalkEnds
  FrameDelayed
