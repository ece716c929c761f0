CONSTANTS
  One = 4
  GlideLen = 4
  n_sends = 2
  n_tracks = 2
  BlockLen = 2
  FrameBytes = 2
  RingFrames = 3
  PlayheadMax = 5
  Recorders = {"computer"}
  Devices = {"computer", "vox"}
  AskedTracks = {1, 2, 3}
  AskedLanes = {0, 7}
  AskedLevels = {0, 99}
  AskedPositions <- MCPositions
  ChunkLens = {1, 2}
  MaxBlocks = 3
  MaxGestures = 3
SPECIFICATION Spec
INVARIANTS
  TakesAreTheInput
PROPERTIES
  PlaysAsOnTheDesk
CHECK_DEADLOCK FALSE
