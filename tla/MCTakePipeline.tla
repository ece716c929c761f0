--------------------------- MODULE MCTakePipeline ---------------------------
(* Up to four blocks are recorded, in as many takes, drained every other       *)
(* quantum, in either backend; three are enough to lose the first of a take.   *)
EXTENDS TakePipeline

MCFourFrames == 1..4
MCThreeFrames == 1..3
=============================================================================
