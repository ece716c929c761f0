CONSTANTS
  small = small  swapped = swapped  broken = broken
  amp = amp  synth = synth  knob = knob  a4 = a4
  Patches = {small, swapped, broken}
  Buildable = {small, swapped}
  InitialPatch = small
  NoPatch = NoPatch
  Device = {amp, synth}
  ParamId = {knob}
  Value = {0, 1}
  Default = 0
  Unset = Unset
  Note = {a4}
  NoInput = NoInput
  ParamHandles <- MCParamHandles
  Handles <- MCHandles
  EventInput <- MCEventInput
  Settings <- MCSettings
  PARAM_QUEUE_CAP = 2
  EVENT_QUEUE_CAP = 2
  BLOCK_LEN = 2
  MaxBlocks = 2
  MaxDrops = 2
SPECIFICATION Spec
INVARIANTS
  NotesFireNextQuantum
  QueuedHandlesAreLive
  KnobsFollowRequests
