----------------------------- MODULE MCFlipPRNG -----------------------------
(* A model-checking instance of FlipPRNG.                                   *)
EXTENDS FlipPRNG

ModuliChecked == {-3, 0, 1, 2, 3, 4, 5, 16}
=============================================================================
