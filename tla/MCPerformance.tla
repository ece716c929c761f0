---------------------------- MODULE MCPerformance ----------------------------
(***************************************************************************)
(* Performance with two keys an octave apart and two octaves, so that two  *)
(* keys can mean one note, a MIDI key on the note they share, and a queue  *)
(* that a chord and its release can fill.                                  *)
(***************************************************************************)
EXTENDS Performance

MCSemitone == [k \in Key |-> IF k = "a" THEN 0 ELSE 12]
=============================================================================
