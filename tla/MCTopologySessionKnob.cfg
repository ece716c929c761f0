CONSTANTS
  NoRequest = NoRequest
  NoPatch = NoPatch
  TRANSACTION_DEADLINE_MS = 2
  usb = usb  loop = loop
  Cable = {usb, loop}
  Compilable <- MCCompilable
  SavedScenes <- MCSaved
  Level = {0, 1}
  DefaultLevel = 0
  TimerReadings = {2}
  Edits <- MCEdits
  MaxId = 2
  MaxQueue = 3
SPECIFICATION Spec
INVARIANT
  KnobsSurviveSwaps
CHECK_DEADLOCK FALSE
