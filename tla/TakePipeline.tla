---------------------------- MODULE TakePipeline ----------------------------
(***************************************************************************)
(* Recording a take: one track of a MultitrackRecorder                     *)
(* (crates/engine/src/node/multitrack.rs) with its transport and record    *)
(* ring, the drain in the worklet's process (worklet/processor-impl.js),   *)
(* which brackets the drained bytes as takes, and the relay of DawController*)
(* (web/src/daw.ts) to the storage worker.                                 *)
(*                                                                         *)
(* A frame stands for the block a quantum records.  The two message ports  *)
(* on the way, worklet to page and page to worker, keep their order, and   *)
(* the page only relays: they are the worker's inbox.                      *)
(***************************************************************************)
EXTENDS TakeStorage

CONSTANTS
  RingFrames,    \* STREAM_RING_BYTES, in blocks
  DrainEvery     \* RECORD_DRAIN_EVERY

ASSUME PipelineAssumption ==
  /\ DrainEvery \in Nat \ {0} /\ RingFrames \in Nat /\ DrainEvery <= RingFrames
  /\ Frames \subseteq Int

VARIABLES
  present,     \* the device is in the scene
  rolling, record_enabled, armed,
  ring,        \* the record ring
  frame,       \* the next frame of input
  quanta,      \* quanta rendered, up to the drain period
  capturing,   \* the worklet's capturing map: frames posted of the open take
  posted       \* (history) the frames posted since the last recordStarted

recorder == <<present, rolling, record_enabled, armed, ring, frame>>
worklet == <<quanta, capturing, posted>>
vars == <<storage, recorder, worklet>>

NotCapturing == -1

is_recording == present /\ rolling /\ record_enabled

Init ==
  /\ StorageInit
  /\ present = TRUE /\ rolling = FALSE /\ record_enabled = FALSE /\ armed = FALSE
  /\ ring = <<>> /\ frame \in Frames /\ \A f \in Frames : frame <= f
  /\ quanta = 0 /\ capturing = NotCapturing /\ posted = <<>>

-----------------------------------------------------------------------------
(* The page's messages, between quanta. *)

Transport(roll) ==
  /\ present
  /\ rolling' = roll
  /\ UNCHANGED <<storage, worklet, present, record_enabled, armed, ring, frame>>

RecordEnable(on) ==
  /\ present
  /\ record_enabled' = on
  /\ UNCHANGED <<storage, worklet, present, rolling, armed, ring, frame>>

Arm(on) ==
  /\ present
  /\ armed' = on
  /\ UNCHANGED <<storage, worklet, present, rolling, record_enabled, ring, frame>>

\* A new scene has a new recorder, or none; what was in the ring is gone.
HotSwap(has) ==
  /\ present' = has
  /\ rolling' = FALSE /\ record_enabled' = FALSE /\ armed' = FALSE /\ ring' = <<>>
  /\ UNCHANGED <<storage, worklet, frame>>

-----------------------------------------------------------------------------
(* A quantum.  Bound: Frames is all that is ever recorded. *)

\* The ring after the block, `r`: a full ring drops it.
ProcessRing ==
  IF is_recording /\ armed /\ Len(ring) < RingFrames THEN Append(ring, frame) ELSE ring

\* The drain when the track has new frames: recordStarted and recorded.
PostFrames(bytes) ==
  LET started == capturing = NotCapturing
  IN  /\ inbox' = inbox \o (IF started THEN <<begin(nextId)>> ELSE <<>>) \o <<append(bytes)>>
      /\ Requests(IF started THEN 1 ELSE 0)
      /\ capturing' = Len(bytes) + (IF started THEN 0 ELSE capturing)
      /\ posted' = (IF started THEN <<>> ELSE posted) \o bytes

\* recordStopped carries the take's length, read before its entry is deleted.
TakeLength == capturing

PostStop ==
  /\ inbox' = Append(inbox, finish(nextId, TakeLength))
  /\ Requests(1)
  /\ capturing' = NotCapturing
  /\ posted' = posted

\* The take ends when the device stops recording; or only when it stops rolling.
StoppedRolling == ~rolling
Stopped == ~is_recording

Drain(bytes) ==
  \/ bytes # <<>> /\ PostFrames(bytes)
  \/ bytes = <<>> /\ capturing # NotCapturing /\ Stopped /\ PostStop
  \/ /\ bytes = <<>> /\ (capturing = NotCapturing \/ ~Stopped)
     /\ UNCHANGED <<inbox, client, capturing, posted>>

\* Every DrainEvery quanta.
DrainDue == present /\ quanta = DrainEvery - 1

Quantum ==
  /\ is_recording /\ armed => frame + 1 \in Frames
  /\ frame' = IF is_recording /\ armed THEN frame + 1 ELSE frame
  /\ quanta' = (quanta + 1) % DrainEvery
  /\ IF DrainDue
     THEN Drain(ProcessRing) /\ ring' = <<>>
     ELSE ring' = ProcessRing /\ UNCHANGED <<inbox, client, capturing, posted>>
  /\ UNCHANGED <<store, present, rolling, record_enabled, armed>>

Page ==
  \/ \E on \in BOOLEAN : Transport(on) \/ RecordEnable(on) \/ Arm(on) \/ HotSwap(on)
  \/ Load /\ UNCHANGED <<recorder, worklet>>

Next == Page \/ Quantum \/ (Worker /\ UNCHANGED <<recorder, worklet>>)

Spec == Init /\ [][Next]_vars

\* The browser calls process for every quantum, and the worker takes its
\* messages and its opened handles.
FairSpec ==
  Spec /\ WF_vars(Quantum) /\ WF_vars(Worker /\ UNCHANGED <<recorder, worklet>>)

-----------------------------------------------------------------------------
Idle == inbox = <<>> /\ waiting = {}

\* When the worker has caught up, the take file holds every frame the worklet
\* posted of the newest take, in order and once, and its header says so once
\* the take has ended.
TakeIsWhole ==
  Idle /\ posted # <<>> =>
    /\ file.pcm = posted
    /\ file.header = IF capturing = NotCapturing THEN Len(posted) ELSE 0

\* So it is in memory, whatever is loaded, swapped and recorded again meanwhile.
TakeInMemoryIsWhole == backend = "memory" => TakeIsWhole

\* What is in the file are frames in the order they came in, none twice, even
\* when the worker was busy opening it or a hot swap came between.
Ascending(s) == \A i \in 1..(Len(s) - 1) : s[i] < s[i + 1]
FramesInOrder == Ascending(file.pcm)

\* Every request is answered.
RequestsSettle == \A id \in 1..MaxLoads : id \in pending ~> id \notin pending

\* In memory, once a track has stopped recording for good its take is finished.
TakesAreFinished ==
  backend = "memory" /\ <>[](present /\ ~is_recording)
    => <>[](capturing = NotCapturing /\ recorded = NotRecording)
=============================================================================
