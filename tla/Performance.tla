----------------------------- MODULE Performance -----------------------------
(***************************************************************************)
(* Playing: from a key to a voice and back to silence.                     *)
(*                                                                         *)
(* The page picks one device to play, the topmost open window that is an   *)
(* instrument (App.svelte, keyboardTarget).  The computer keyboard         *)
(* (wireKeyboard, engine.ts) is captured while there is such a device, and *)
(* a MIDI keyboard (wireMidi) is forwarded to whichever device it is when  *)
(* the message arrives.  Notes cross the worklet's port, wait in the       *)
(* event queue for the next render quantum, and reach a synth voice        *)
(* through a MIDI controller and its cable, or a SoundFont guitar.         *)
(*                                                                         *)
(* Every note-off must find the device its note-on went to, although the   *)
(* target, the octave and the keyboard's listener change in between.       *)
(*                                                                         *)
(* The page looks its target up when a note is played, also for the notes  *)
(* it releases as the listener is detached, when the target has already    *)
(* changed (keyboard-input.svelte.ts, wireKeyboardInput).  That they go to *)
(* the target being left rests on Svelte: in version 5.56, which the page  *)
(* is built with, what the teardown of an effect reads has the value it    *)
(* had before the change.  The framework is not part of the repository,    *)
(* and this is assumed of it.                                              *)
(***************************************************************************)
EXTENDS Integers, FiniteSets, SequencesExt

CONSTANTS
  Windows,       \* devices whose windows can be opened
  Key, Semitone, \* note keys of the computer keyboard and their semitones
  OctaveMin, OctaveMax,
  BASE_C,
  MidiNote,      \* notes of the MIDI keyboard
  None,          \* no device, no note
  EVENT_QUEUE_CAP, LANE_CAP,
  BlockLen,      \* samples of a block
  Full, Sustain, \* envelope levels, in integer units
  AttackLen, DecayLen, ReleaseLen,  \* ADSR times, in samples
  MaxInFlight,   \* bound: messages in the worklet's port
  MaxGestures    \* bound: gestures of the player

\* The two instruments.  The controller plays the synth at the end of its cable.
Controller == "controller"
Guitar == "guitar"
Instruments == {Controller, Guitar}

ASSUME PerformanceAssumption ==
  /\ Semitone \in [Key -> Int] /\ BASE_C \in Int /\ MidiNote \subseteq Int
  /\ None \notin Windows \cup Instruments \cup Int
  /\ OctaveMin \in Int /\ OctaveMax \in Int /\ OctaveMin <= 0 /\ 0 <= OctaveMax
  /\ EVENT_QUEUE_CAP \in Nat /\ LANE_CAP \in Nat /\ LANE_CAP >= EVENT_QUEUE_CAP
  /\ Full \in Nat \ {0} /\ Sustain \in 0..Full /\ BlockLen \in Nat
  /\ AttackLen \in Nat /\ DecayLen \in Nat /\ ReleaseLen \in Nat

Octaves == OctaveMin .. OctaveMax
noteForKey(k, octave) == BASE_C + 12 * octave + Semitone[k]
Notes == {noteForKey(k, o) : k \in Key, o \in Octaves} \cup MidiNote

VARIABLES
  openWindows, \* back to front
  down,        \* environment: the keys of the computer keyboard that are down
  midiDown,    \* environment: the MIDI keys that are down
  octave,      \* wireKeyboard: the transposition of the attached listener
  held,        \* wireKeyboard: the notes the attached listener has started
  heldNotes,   \* SceneSession.heldNotes: the keys drawn as pressed
  port,        \* messages to the worklet
  queue,       \* the engine's EventQueue
  event_drops, \* whether the queue has refused an event
  voice,       \* the synth voice
  ringing,     \* notes of the guitar that are keyed
  struck,      \* history: <<device, note>> a MIDI key has struck and not released there
  gestures

page == <<openWindows, octave, held, heldNotes>>
engine == <<queue, event_drops, voice, ringing>>
vars == <<page, down, midiDown, port, engine, struck, gestures>>

Playing(windows) ==
  LET playable == {i \in DOMAIN windows : windows[i] \in Instruments}
  IN  IF playable = {} THEN None ELSE windows[Max(playable)]

keyboardTarget == Playing(openWindows)

-----------------------------------------------------------------------------
(* The voice: a linear ADSR envelope with last-note priority.              *)

\* Rounded up, so that the level stays an integer and no stage is longer.
inc(span, samples) == LET n == Max({1, samples}) IN (span + n - 1) \div n

SilentVoice == [note |-> None, stage |-> "Idle", env |-> 0, release_inc |-> 0]

gate_on(v) == [v EXCEPT !.stage = "Attack"]

\* Mutant: the release is measured and never entered.
Measured(v) == [v EXCEPT !.release_inc = inc(v.env, ReleaseLen)]

gate_off(v) ==
  [v EXCEPT !.stage = "Release", !.release_inc = inc(v.env, ReleaseLen)]

apply(v, e) ==
  IF e.on THEN gate_on([v EXCEPT !.note = e.note])
  ELSE IF v.note = e.note THEN gate_off([v EXCEPT !.note = None])
  ELSE v

env_step(v) ==
  CASE v.stage = "Attack" ->
         LET up == v.env + inc(Full, AttackLen)
         IN  IF up >= Full THEN [v EXCEPT !.env = Full, !.stage = "Decay"]
             ELSE [v EXCEPT !.env = up]
    [] v.stage = "Decay" ->
         LET low == v.env - inc(Full - Sustain, DecayLen)
         IN  IF low <= Sustain THEN [v EXCEPT !.env = Sustain, !.stage = "Sustain"]
             ELSE [v EXCEPT !.env = low]
    [] v.stage = "Sustain" -> [v EXCEPT !.env = Sustain]
    [] v.stage = "Release" ->
         LET low == v.env - v.release_inc
         IN  IF low <= 0 THEN [v EXCEPT !.env = 0, !.stage = "Idle"]
             ELSE [v EXCEPT !.env = low]
    [] OTHER -> v

VoiceAfter(v, events) ==
  FoldLeft(LAMBDA w, i : env_step(w), FoldLeft(apply, v, events),
           [i \in 1 .. BlockLen |-> i])

RingingAfter(ring, events) ==
  FoldLeft(LAMBDA r, e : IF e.on THEN r \cup {e.note} ELSE r \ {e.note}, ring, events)

-----------------------------------------------------------------------------
(* The page: SceneSession.playNote and the two keyboards.                  *)

Init ==
  /\ openWindows = <<>>
  /\ down = {} /\ midiDown = {}
  /\ octave = 0 /\ held = {} /\ heldNotes = {}
  /\ port = <<>> /\ queue = <<>> /\ event_drops = FALSE
  /\ voice = SilentVoice /\ ringing = {}
  /\ struck = {}
  /\ gestures = 0

Message(device, on, n) == [device |-> device, on |-> on, note |-> n]

\* playNote for a sequence of messages; a gesture that would send nothing passes <<>>.
playNote(sent) ==
  /\ Len(port) + Len(sent) <= MaxInFlight
  /\ port' = port \o sent
  /\ heldNotes' = FoldLeft(LAMBDA h, e : IF e.on THEN h \cup {e.note} ELSE h \ {e.note},
                           heldNotes, sent)

\* One note to the current target, if there is one.
ToTarget(on, n) ==
  IF keyboardTarget = None THEN <<>> ELSE <<Message(keyboardTarget, on, n)>>

Gesture == gestures < MaxGestures /\ gestures' = gestures + 1

\* Mutant: the notes are released on the device that is played next.
ReleasedToNew(windows) ==
  LET new == Playing(windows)
  IN  IF new = keyboardTarget \/ new = None THEN <<>>
      ELSE SetToSeq({Message(new, FALSE, n) : n \in held})

\* What wireKeyboard's detach function sends: to the target being left, as the
\* teardown of an effect reads it.
Released(windows) ==
  LET old == keyboardTarget
  IN  IF old = Playing(windows) \/ old = None THEN <<>>
      ELSE SetToSeq({Message(old, FALSE, n) : n \in held})

\* A change of the windows: when it changes the target, the effect detaches the
\* listener, which releases what it holds, and attaches a fresh one.
Show(windows) ==
  /\ Gesture
  /\ openWindows' = windows
  /\ playNote(Released(windows))
  /\ IF Playing(windows) = keyboardTarget THEN UNCHANGED <<octave, held>>
     ELSE octave' = 0 /\ held' = {}
  /\ UNCHANGED <<down, midiDown, engine, struck>>

Without(w) == RemoveFirst(openWindows, w)   \* a device has at most one window

openWindow(w) ==
  /\ ~IsSuffix(<<w>>, openWindows)
  /\ Show(Append(Without(w), w))

closeWindow(w) ==
  /\ w \in ToSet(openWindows)
  /\ Show(Without(w))

\* Z and X.
ShiftOctave(by) ==
  LET to == octave + by
  IN  /\ Gesture
      /\ keyboardTarget # None
      /\ octave' = Max({OctaveMin, Min({OctaveMax, to})})
      /\ octave' # octave
      /\ UNCHANGED <<openWindows, held, heldNotes, down, midiDown, port, engine, struck>>

\* `heard` is FALSE while a text field has the focus or a modifier is down.
onKeyDown(k, heard) ==
  LET n == noteForKey(k, octave)
      starts == heard /\ keyboardTarget # None /\ n \notin held
  IN  /\ Gesture
      /\ k \notin down /\ down' = down \cup {k}
      /\ held' = IF starts THEN held \cup {n} ELSE held
      /\ playNote(IF starts THEN ToTarget(TRUE, n) ELSE <<>>)
      /\ UNCHANGED <<openWindows, octave, midiDown, engine, struck>>

\* A key-up is not heard when the browser has lost the focus.
onKeyUp(k, heard) ==
  LET n == noteForKey(k, octave)
      ends == heard /\ keyboardTarget # None /\ n \in held
  IN  /\ Gesture
      /\ k \in down /\ down' = down \ {k}
      /\ held' = IF ends THEN held \ {n} ELSE held
      /\ playNote(IF ends THEN ToTarget(FALSE, n) ELSE <<>>)
      /\ UNCHANGED <<openWindows, octave, midiDown, engine, struck>>

\* A MIDI note-on; a note-on of velocity 0 is a note-off.
MidiOn(n) ==
  /\ Gesture
  /\ n \notin midiDown /\ midiDown' = midiDown \cup {n}
  /\ playNote(ToTarget(TRUE, n))
  /\ struck' = struck \cup {<<e.device, n>> : e \in ToSet(ToTarget(TRUE, n))}
  /\ UNCHANGED <<openWindows, octave, held, down, engine>>

MidiOff(n) ==
  /\ Gesture
  /\ n \in midiDown /\ midiDown' = midiDown \ {n}
  /\ playNote(ToTarget(FALSE, n))
  /\ struck' = struck \ {<<keyboardTarget, n>>}
  /\ UNCHANGED <<openWindows, octave, held, down, engine>>

-----------------------------------------------------------------------------
(* The worklet: note_on and note_off queue an event for the next quantum,  *)
(* and a full queue drops it.                                              *)

Deliver ==
  /\ port # <<>>
  /\ port' = Tail(port)
  /\ IF Len(queue) < EVENT_QUEUE_CAP
     THEN queue' = Append(queue, Head(port)) /\ UNCHANGED event_drops
     ELSE event_drops' = TRUE /\ UNCHANGED queue
  /\ UNCHANGED <<page, down, midiDown, voice, ringing, struck, gestures>>

\* EventBuffer::push and copy_from: what a lane has no room for is dropped.
push(lane, e) == IF Len(lane) < LANE_CAP THEN Append(lane, e) ELSE lane
Copy(lane) == SubSeq(lane, 1, Min({LANE_CAP, Len(lane)}))

\* The events of the open input of `d` in the block about to be rendered.
InputLane(d) ==
  LET lane[i \in 0 .. Len(queue)] ==
        IF i = 0 THEN <<>>
        ELSE IF queue[i].device = d THEN push(lane[i - 1], queue[i]) ELSE lane[i - 1]
  IN  lane[Len(queue)]

\* A render quantum: every queued event is due at its first sample.  The controller
\* copies its lane to the cable, and the voice hears it in the same block.
Quantum ==
  /\ voice' = VoiceAfter(voice, Copy(InputLane(Controller)))
  /\ ringing' = RingingAfter(ringing, InputLane(Guitar))
  /\ queue' = <<>>
  /\ UNCHANGED <<page, down, midiDown, port, event_drops, struck, gestures>>

Play ==
  \/ \E w \in Windows : openWindow(w) \/ closeWindow(w)
  \/ \E by \in {-1, 1} : ShiftOctave(by)
  \/ \E k \in Key, heard \in BOOLEAN : onKeyDown(k, heard) \/ onKeyUp(k, heard)
  \/ \E n \in MidiNote : MidiOn(n) \/ MidiOff(n)

Next == Play \/ Deliver \/ Quantum

\* The port delivers what was posted, and the audio clock keeps rendering.
Spec == Init /\ [][Next]_vars /\ WF_vars(Deliver) /\ WF_vars(Quantum)

-----------------------------------------------------------------------------
(* A MIDI key answers for the note it struck until its release reaches the *)
(* same device.  Released while another device is played, or none, its     *)
(* note-off goes there, and the note stays on: a stray.                    *)

MidiNotesOf(d) == {n \in MidiNote : <<d, n>> \in struck}
KeysOf(d) == (IF d = keyboardTarget THEN held ELSE {}) \cup MidiNotesOf(d)

SoundingOn(d) ==
  CASE d = Controller -> {voice.note} \ {None}
    [] d = Guitar -> ringing

AtRest == port = <<>> /\ queue = <<>> /\ ~event_drops

\* Whatever windows were opened and closed, and whatever was shifted or not heard,
\* a note that sounds once its messages have arrived belongs to a key: the listener
\* of the device still holds it and will release it, or a MIDI key struck it there.
\* (wireKeyboard's detach; SceneSession.playNote; EventThru; SynthVoice::apply)
NothingHangs == AtRest => \A d \in Instruments : SoundingOn(d) \subseteq KeysOf(d)

HandsOff == held = {} /\ struck = {} /\ ~event_drops
Silent == voice.stage = "Idle" /\ ringing = {}

\* When every note has been released the instruments fall silent, unless somebody
\* plays on: no release is overtaken, forgotten or left in a stage it cannot leave.
\* (Schedule::process_io's event delivery; SynthVoice::env_step)
HandsOffIsSilence == HandsOff ~> (Silent \/ ~HandsOff)
=============================================================================
