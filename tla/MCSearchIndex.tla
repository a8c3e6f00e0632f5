----------------------------- MODULE MCSearchIndex -----------------------------
(* One path that the brain and a source vault may both have: what a rebuild does  *)
(* to a path depends on no other path.                                            *)
EXTENDS SearchIndex
=============================================================================
