CONSTANTS
  NoNode = NoNode
  Node = {1, 2, 3, 4}
  Port = {0, 1}
  Graphs <- MCGraphs
  BlockBound = 2
SPECIFICATION FairScheduleSpec
INVARIANTS
  InputsAreCurrent
  AirIsCutFirst
  OnlyHopelessLoopsAreRejected
PROPERTIES
  CompileEnds
CHECK_DEADLOCK FALSE
