---------------------------- MODULE MCFlipDealer ----------------------------
(* Model-checking instance of FlipDealer.                                   *)
EXTENDS FlipDealer

CONSTANTS g1, g2, c1, c2
=============================================================================
