SPECIFICATION Spec
CONSTANTS
  One = 216
  GlideLen = 6
  BlockLen = 4
  M = 2
  AaTaps <- MCAaTaps
  ReconTaps <- MCReconTaps
  Shelf <- MCShelf
  PadFactor = 108
  Rail = 20
  FullScale = 8
  Lsb = 9
  EinDraws <- MCEinDraws
  DitherDraws <- MCDitherDraws
  Phantoms = {48}
  MicBlocks <- MCMicBlocks
  UsbBlocks <- MCUsbBlocks
  Turns <- MCTurns
  PARAM_QUEUE_CAP = 4
  MaxBlocks = 3
  MaxTurns = 2
INVARIANTS
  ReroutingIsClickFree
CHECK_DEADLOCK FALSE
