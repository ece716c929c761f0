--------------------------- MODULE MCPlaybackFeed ---------------------------
(* The code's ratios, scaled: a chunk is what is played in a report period,    *)
(* the high-water mark two chunks (in the code four) and the ring twice that.  *)
EXTENDS PlaybackFeed

MCTakes == <<11,5>>

\* Of plays that did not begin at a standstill nothing is stated.
FromStandstill == fresh
=============================================================================
