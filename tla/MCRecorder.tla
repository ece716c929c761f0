----------------------------- MODULE MCRecorder -----------------------------
(* Two tracks of two sends, rings of three two-byte frames (a block is two, so *)
(* that they fill and wrap), a fader that glides through two blocks.           *)
EXTENDS Recorder

MCPositions == {-1, 3}
=============================================================================
