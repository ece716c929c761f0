CONSTANTS
  Backends = {"opfs", "memory"}
  Frames <- MCFourFrames
  MaxLoads = 2
  RingFrames = 3
  DrainEvery = 2
SPECIFICATION FairSpec
INVARIANTS
  TakeInMemoryIsWhole
  FramesInOrder
PROPERTIES
  RequestsSettle
  TakesAreFinished
CHECK_DEADLOCK FALSE
