CONSTANTS
  Take <- MCTakes
  Chunk = 2
  Highwater = 4
  RingBlocks = 8
  ReportEvery = 2
  Seeks = {0, 2}
  MaxPlays = 2
  MaxStops = 2
  MaxReports = 2
  MaxPosted = 8
  MaxPlayhead = 16
  MaxSilence = 3
SPECIFICATION Spec
INVARIANTS
  NothingIsLost
PROPERTIES
  PlaysFromTheTop
  NeverUnderruns
CONSTRAINT FromStandstill
CHECK_DEADLOCK FALSE
