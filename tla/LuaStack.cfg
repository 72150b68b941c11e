CONSTANTS
  MinStack = 3
  ExtraStack = 1
  FrameSizes = {2}
  MaxMissing = 1
  Pieces = 2
  MaxArgs = 0
  MaxFrames = 3
  MaxSize = 34
  MaxCStack = 5
  MaxLeft = 9
SPECIFICATION StackSpec
INVARIANTS
  StackTypeOK
  FramesFit
  HostRoom
  FramesNested
PROPERTIES
  CallBalance
CHECK_DEADLOCK FALSE
