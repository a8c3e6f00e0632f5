----------------------------- MODULE MCVectorIndex -----------------------------
(* Two notes: an id can pass from one to the other.                             *)
EXTENDS VectorIndex, TLC

Symmetry == Permutations(Paths) \cup Permutations(Jobs)
=============================================================================
