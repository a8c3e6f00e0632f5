--------------------------- MODULE MCKnowledgeGraph ---------------------------
(* Two single-valued relations, one that notes alone write and one that is    *)
(* edited by hand as well. The rows of the graph are the only bound.          *)
EXTENDS KnowledgeGraph
=============================================================================
