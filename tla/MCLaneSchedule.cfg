CONSTANTS
  Patches <- MCPatches
  Broken <- MCBroken
  NodeCount = 4
  PortCount = 2
  AnalogRate = 8
  BlockLen = 4
  NoNode = NoNode
  MaxBlocks = 2
SPECIFICATION Spec
INVARIANTS
  EqualEndsAreAccepted
  StepsFit
  BalancedLinesAreQuiet
PROPERTIES
  ImplementsSchedule
CHECK_DEADLOCK FALSE
