CONSTANTS
  MinStack = 20
  ExtraStack = 5
  MaxCStack = 8000
  FrameSizes = {2}
  MaxMissing = 0
  Pieces = 1
  MaxArgs = 0
  MaxFrames = 2
  MaxSize = 200
  MaxLeft = 40
SPECIFICATION StackSpec
INVARIANTS
  ApiIncrTop
CHECK_DEADLOCK FALSE
