----------------------------- MODULE MCFlipGame -----------------------------
(* Model-checking instances of FlipGame: a leader a and followers b, c.     *)
EXTENDS FlipGame

CONSTANTS a, b, c
=============================================================================
