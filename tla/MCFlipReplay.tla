---------------------------- MODULE MCFlipReplay ----------------------------
(* Model-checking instances of FlipReplay: a leader a and a follower b.     *)
EXTENDS FlipReplay

CONSTANTS a, b
=============================================================================
