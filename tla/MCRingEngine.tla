----------------------------- MODULE MCRingEngine -----------------------------
(* Model values for TLC. *)
EXTENDS RingPromises, TLC
CONSTANTS w1, w2
Symmetry == Permutations(Workers)
=============================================================================
