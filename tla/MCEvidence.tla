------------------------------ MODULE MCEvidence ------------------------------
(* Evidence with one operator and two controls, which nothing tells apart. *)
EXTENDS Evidence, TLC

MCSymmetry == Permutations(Controls)
=============================================================================
