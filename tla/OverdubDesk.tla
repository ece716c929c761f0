----------------------------- MODULE OverdubDesk -----------------------------
(***************************************************************************)
(* What a multitrack recorder promises to whoever listens, in the words of *)
(* crates/engine/src/transport.rs and node/multitrack.rs: a track plays    *)
(* what was fed to it, frame by frame while the transport rolls, beside    *)
(* the live input it monitors.  Nothing here knows of recording: arming a  *)
(* track and enabling record change nothing that is heard.                 *)
(***************************************************************************)
EXTENDS Integers, Sequences, SequencesExt

CONSTANTS
  Tracks, BlockLen,
  Ahead     \* frames a track may be fed ahead

VARIABLES
  rolling,
  source,      \* source[t]: the send a track monitors, or NoSend
  playback,    \* playback[t]: frames fed and not heard
  now,         \* samples rendered
  heard        \* heard[t]: the last block, before its fader

Silence == <<0, 0>>
NoSend == -1
SendAt(lane, n) == IF lane = NoSend THEN Silence ELSE <<lane, n>>

Played(t, i) == IF rolling /\ i <= Len(playback[t]) THEN playback[t][i] ELSE Silence

Block ==
  /\ heard' = [t \in Tracks |-> [i \in 1..BlockLen |->
                 [play |-> Played(t, i), send |-> SendAt(source[t], now + i)]]]
  /\ playback' = [t \in Tracks |->
                    IF rolling THEN SubSeq(playback[t], BlockLen + 1, Len(playback[t]))
                    ELSE playback[t]]
  /\ now' = now + BlockLen
  /\ UNCHANGED <<rolling, source>>

\* Between blocks: play, stop, another input; a chunk that is stored whole.
Gesture ==
  /\ \A t \in Tracks : IsPrefix(playback[t], playback'[t]) /\ Len(playback'[t]) <= Ahead
  /\ rolling' \in BOOLEAN
  /\ \A t \in Tracks : source'[t] \in Int
  /\ UNCHANGED <<now, heard>>

Init == now = 0 /\ \A t \in Tracks : playback[t] = <<>>

Spec == Init /\ [][Block \/ Gesture]_<<rolling, source, playback, now, heard>>
=============================================================================
