------------------------------ MODULE MCSessions ------------------------------
(* One session more than may live or be kept in the file, so that making room *)
(* and cutting the file are both frequent. Ids and initialisations are        *)
(* interchangeable, and the run with symmetry has invariants only.            *)
EXTENDS Sessions, TLC

Symmetry == Permutations(Ids) \cup Permutations(Inits)
=============================================================================
