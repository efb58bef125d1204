------------------------------- MODULE MCMovie -------------------------------
(* Rates that give a whole number and a half of a unit per frame.          *)
EXTENDS ChunkPlayback

RatioSet == {[num |-> 4, den |-> 1], [num |-> 5, den |-> 2]}
HalfRatio == {[num |-> 5, den |-> 2]}
=============================================================================
