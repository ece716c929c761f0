------------------------------ MODULE Recorder ------------------------------
(***************************************************************************)
(* The recorder of a computer: MultitrackRecorder with its transport and   *)
(* its byte rings (crates/engine/src/node/multitrack.rs, transport.rs), as *)
(* the worklet drives it between quanta through SceneEngine's functions    *)
(* (crates/wasm-bindings/src/lib.rs) and the DawControl of a device.       *)
(*                                                                         *)
(* A frame is named after where it comes from: a live one <<lane, n>> by   *)
(* its send and its sample, one of a take <<track, k>> by its place.  It   *)
(* is FrameBytes bytes, each of which knows its frame.  A sample that is   *)
(* heard is left as the terms of (play + monitored) * gain.                *)
(***************************************************************************)
EXTENDS Filters, ByteRing

CONSTANTS
  n_sends, n_tracks,
  BlockLen,        \* digital_len: samples of a block
  FrameBytes,      \* size_of::<f32>()
  RingFrames,      \* STREAM_RING_BYTES, in frames
  PlayheadMax,     \* u64::MAX
  Recorders, Devices,  \* the devices that are recorders, among all
  AskedTracks, AskedLanes, AskedLevels, AskedPositions, ChunkLens,
                   \* what the host asks for, in and out of range
  MaxBlocks, MaxGestures   \* bounds

ASSUME RecorderAssumption ==
  /\ {n_sends, n_tracks, BlockLen, FrameBytes, RingFrames} \subseteq Nat \ {0}
  /\ {PlayheadMax, MaxBlocks, MaxGestures} \subseteq Nat
  /\ Recorders \subseteq Devices /\ AskedTracks \subseteq Nat /\ AskedLanes \subseteq Nat
  /\ ChunkLens \subseteq Nat

Tracks == 1..n_tracks

VARIABLES
  playhead, rolling, record_enabled,          \* Transport
  input, armed, monitoring, level,            \* per track
  inbound, outbound,                          \* the rings of each track
  heard,           \* the last block of each track
  now, gestures,   \* samples rendered, gestures made
  fed,             \* (history) frames of its take offered to each track
  due,             \* (history) the frames each track was to record
  drained,         \* (history) the bytes drained of each track
  gaps             \* (history) tracks whose record ring was full

transport == <<playhead, rolling, record_enabled>>
strips == <<input, armed, monitoring, level>>
rings == <<inbound, outbound>>
block == <<heard, now>>
history == <<fed, due, drained, gaps>>
vars == <<transport, strips, rings, block, gestures, history>>

-----------------------------------------------------------------------------
(* Frames and their bytes. *)

Silence == <<0, 0>>
Torn == <<"torn">>

ToBytes(frame) == [b \in 1..FrameBytes |-> [frame |-> frame, byte |-> b]]
FromBytes(bytes) == IF bytes = ToBytes(bytes[1].frame) THEN bytes[1].frame ELSE Torn

\* The bytes of frame after frame.
AllBytes(frames) ==
  [k \in 1..(Len(frames) * FrameBytes) |->
     ToBytes(frames[((k - 1) \div FrameBytes) + 1])[((k - 1) % FrameBytes) + 1]]
Frames(bytes) ==
  [i \in 1..(Len(bytes) \div FrameBytes) |->
     FromBytes(SubSeq(bytes, (i - 1) * FrameBytes + 1, i * FrameBytes))]

\* The send a track records and hears.
in_lane(t) == Lesser(input[t], n_sends - 1)

Live(t) == [i \in 1..BlockLen |-> <<in_lane(t), now + i>>]

-----------------------------------------------------------------------------
\* A fresh recorder, after what transport and arm gestures there may have been
\* before the first quantum.
MaxGain == 4 * One

Init ==
  /\ playhead = 0 /\ rolling \in BOOLEAN /\ record_enabled \in BOOLEAN
  /\ input = [t \in Tracks |-> Lesser(t - 1, n_sends - 1)]
  /\ armed \in [Tracks -> BOOLEAN]
  /\ monitoring = [t \in Tracks |-> TRUE]
  /\ level = [t \in Tracks |-> Smoother(One, 0, MaxGain)]
  /\ inbound = [t \in Tracks |-> WithCapacity(RingFrames * FrameBytes)]
  /\ outbound = [t \in Tracks |-> WithCapacity(RingFrames * FrameBytes)]
  /\ heard = [t \in Tracks |-> [i \in 1..BlockLen |->
                [play |-> Silence, send |-> Silence, gain |-> One]]]
  /\ now = 0 /\ gestures = 0
  /\ fed = [t \in Tracks |-> 0]
  /\ due = [t \in Tracks |-> <<>>] /\ drained = due /\ gaps = {}

-----------------------------------------------------------------------------
(* Gestures, between quanta.  A device that is no recorder and a track that *)
(* is none are asked in vain.                                               *)

Daw(device) ==
  /\ gestures < MaxGestures /\ gestures' = gestures + 1
  /\ device \in Recorders
  /\ UNCHANGED block

Strip(device, t) == Daw(device) /\ t \in Tracks

Controls == UNCHANGED <<rings, history>>

transport_play(d) ==
  Daw(d) /\ rolling' = TRUE /\ UNCHANGED <<playhead, record_enabled, strips>> /\ Controls

transport_stop(d) ==
  Daw(d) /\ rolling' = FALSE /\ UNCHANGED <<playhead, record_enabled, strips>> /\ Controls

transport_record_enable(d, on) ==
  Daw(d) /\ record_enabled' = on /\ UNCHANGED <<playhead, rolling, strips>> /\ Controls

\* A negative position is the start.
transport_seek(d, pos) ==
  /\ Daw(d) /\ playhead' = Greater(pos, 0)
  /\ UNCHANGED <<rolling, record_enabled, strips>> /\ Controls

\* The lane is not checked until it is used.
set_track_input(d, t, lane) ==
  /\ Strip(d, t) /\ input' = [input EXCEPT ![t] = lane]
  /\ UNCHANGED <<transport, armed, monitoring, level>> /\ Controls

set_track_armed(d, t, on) ==
  /\ Strip(d, t) /\ armed' = [armed EXCEPT ![t] = on]
  /\ UNCHANGED <<transport, input, monitoring, level>> /\ Controls

set_track_monitoring(d, t, on) ==
  /\ Strip(d, t) /\ monitoring' = [monitoring EXCEPT ![t] = on]
  /\ UNCHANGED <<transport, input, armed, level>> /\ Controls

set_track_level(d, t, gain) ==
  /\ Strip(d, t) /\ level' = [level EXCEPT ![t] = SetTarget(@, gain)]
  /\ UNCHANGED <<transport, input, armed, monitoring>> /\ Controls

\* The next frames of the track's take; what does not fit is lost.
feed_playback(d, t, n) ==
  /\ Strip(d, t)
  /\ inbound' = [inbound EXCEPT ![t] = Write(@, AllBytes([i \in 1..n |-> <<-t, fed[t] + i>>]))]
  /\ fed' = [fed EXCEPT ![t] = @ + n]
  /\ UNCHANGED <<transport, strips, outbound, due, drained, gaps>>

drain_record(d, t) ==
  /\ Strip(d, t)
  /\ drained' = [drained EXCEPT ![t] = @ \o Drained(outbound[t])]
  /\ outbound' = [outbound EXCEPT ![t] = Drain(@)]
  /\ UNCHANGED <<transport, strips, inbound, fed, due, gaps>>

Host(d) ==
  \/ transport_play(d) \/ transport_stop(d)
  \/ \E on \in BOOLEAN : transport_record_enable(d, on)
  \/ \E pos \in AskedPositions : transport_seek(d, pos)
  \/ \E t \in AskedTracks :
       \/ \E lane \in AskedLanes : set_track_input(d, t, lane)
       \/ \E on \in BOOLEAN : set_track_armed(d, t, on) \/ set_track_monitoring(d, t, on)
       \/ \E gain \in AskedLevels : set_track_level(d, t, gain)
       \/ \E n \in ChunkLens : feed_playback(d, t, n)
       \/ drain_record(d, t)

-----------------------------------------------------------------------------
(* process: a block. *)

is_recording == rolling /\ record_enabled

\* A track plays while it rolls.  Mutant: unless it records.
RecordMode(t) == rolling /\ ~ (record_enabled /\ armed[t])
Plays(t) == rolling

\* Frame after frame, as many as there are.
Consumed(t) == Lesser(BlockLen, inbound[t].len \div FrameBytes) * FrameBytes
PlayedFrames(t) == IF Plays(t) THEN Frames(Oldest(inbound[t], Consumed(t))) ELSE <<>>

Strips ==
  [t \in Tracks |->
     LET played == PlayedFrames(t)
     IN  [i \in 1..BlockLen |->
            [play |-> IF i \in DOMAIN played THEN played[i] ELSE Silence,
             send |-> IF monitoring[t] THEN Live(t)[i] ELSE Silence,
             gain |-> ValueAt(level[t], i - 1)]]]

\* level.advance, by the block's digital samples.
LevelStep(s) == Advance(s, BlockLen)

Captures(t) == is_recording /\ armed[t]

\* What is recorded: the send as it arrives.  Mutant: what is heard of it.
AsMonitored(t) == [i \in 1..BlockLen |-> heard'[t][i].send]
AsItArrives(t) == Live(t)

\* A frame that does not fit is dropped whole, and with it, since frames are
\* equally long, all that follow in the block.
Fitting(ring) == Lesser(BlockLen, Free(ring) \div FrameBytes)
Capture(ring, frames) == Write(ring, AllBytes(SubSeq(frames, 1, Fitting(ring))))

\* Transport::advance saturates.
Advanced == IF rolling THEN Lesser(playhead + BlockLen, PlayheadMax) ELSE playhead

Process ==
  /\ heard' = Strips
  /\ inbound' = [t \in Tracks |-> IF Plays(t) THEN Read(inbound[t], Consumed(t)) ELSE inbound[t]]
  /\ level' = [t \in Tracks |-> LevelStep(level[t])]
  /\ outbound' = [t \in Tracks |->
                    IF Captures(t) THEN Capture(outbound[t], AsItArrives(t)) ELSE outbound[t]]
  /\ playhead' = Advanced

Quantum ==
  /\ now < MaxBlocks * BlockLen
  /\ Process
  /\ now' = now + BlockLen
  /\ due' = [t \in Tracks |-> due[t] \o IF Captures(t) THEN Live(t) ELSE <<>>]
  /\ gaps' = gaps \cup {t \in Tracks : Captures(t) /\ Free(outbound[t]) < BlockLen * FrameBytes}
  /\ UNCHANGED <<rolling, record_enabled, input, armed, monitoring, gestures, fed, drained>>

Next == (\E d \in Devices : Host(d)) \/ Quantum

Spec == Init /\ [][Next]_vars

-----------------------------------------------------------------------------
(* Properties. *)

Playback(t) == Frames(Drained(inbound[t]))

Desk ==
  INSTANCE OverdubDesk WITH
    Ahead <- RingFrames,
    source <- [t \in Tracks |-> IF monitoring[t] THEN in_lane(t) ELSE -1],
    playback <- [t \in Tracks |-> Playback(t)],
    heard <- [t \in Tracks |-> [i \in 1..BlockLen |->
                [play |-> heard[t][i].play, send |-> heard[t][i].send]]]

\* Overdubbing: whatever is armed, enabled, recorded and drained, each track is
\* heard as on a desk that knows of no recording: its own frames in the order
\* they were fed, each once and untorn, and its own input.
PlaysAsOnTheDesk == Desk!Spec

\* What the host drains of a track, and what it still can, is the input of the
\* track before its fader, sample by sample in the blocks it was recorded; with
\* a gap, and no torn frame, only after the host left its ring full.
TakesAreTheInput ==
  \A t \in Tracks :
    LET take == Frames(drained[t] \o Drained(outbound[t]))
    IN  /\ \A i, j \in DOMAIN take : i < j => take[i][2] < take[j][2]
        /\ ToSet(take) \subseteq ToSet(due[t])
        /\ t \notin gaps => take = due[t]

=============================================================================
