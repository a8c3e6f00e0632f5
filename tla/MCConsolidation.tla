---------------------------- MODULE MCConsolidation ----------------------------
(* Two user notes with the tag of the series, which may be distilled, folded   *)
(* one after the other or overlap. The rolling summary can be distilled with a *)
(* note, and what comes of that carries the tag: every way for a summary to be *)
(* a source is there. The calls are interchangeable.                           *)
EXTENDS Consolidation, TLC

CONSTANTS m1, m2

MCMemories == {m1, m2}
MCClusters == {<<m1, m2>>, <<Rolling, m2>>}
MCSeries == {<<m1>>, <<m2>>, <<Summary("distill", <<Rolling, m2>>)>>,
             <<Summary("distill", <<m1, m2>>), m1>>}
Symmetry == Permutations(Runs)
=============================================================================
