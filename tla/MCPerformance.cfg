SPECIFICATION Spec
CONSTANTS
  Windows = {"controller", "guitar", "console"}
  Key = {"a", "k"}
  Semitone <- MCSemitone
  OctaveMin = 0
  OctaveMax = 1
  BASE_C = 60
  MidiNote = {72}
  None = None
  EVENT_QUEUE_CAP = 2
  LANE_CAP = 2
  BlockLen = 2
  Full = 4
  Sustain = 2
  AttackLen = 3
  DecayLen = 1
  ReleaseLen = 3
  MaxInFlight = 3
  MaxGestures = 6
INVARIANTS
  NothingHangs
PROPERTIES
  HandsOffIsSilence
CHECK_DEADLOCK FALSE
