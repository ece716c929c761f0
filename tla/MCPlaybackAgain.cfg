CONSTANTS
  Take <- MCTakes
  Chunk = 2
  Highwater = 4
  RingBlocks = 8
  ReportEvery = 2
  Seeks = {}
  MaxPlays = 2
  MaxStops = 1
  MaxReports = 2
  MaxPosted = 8
  MaxPlayhead = 16
  MaxSilence = 3
SPECIFICATION Spec
INVARIANTS
  StartsFromTheTop
CHECK_DEADLOCK FALSE
