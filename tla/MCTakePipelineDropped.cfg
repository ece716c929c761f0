CONSTANTS
  Backends = {"opfs"}
  Frames <- MCThreeFrames
  MaxLoads = 1
  RingFrames = 3
  DrainEvery = 2
SPECIFICATION Spec
INVARIANTS TakeIsWhole
CHECK_DEADLOCK FALSE
