--------------------------- MODULE MCIndexRequests ---------------------------
(* Two repositories, the server's machine and one owner, one path: the path   *)
(* moves between the repositories, and so do the slugs.                       *)
EXTENDS IndexRequests, TLC

CONSTANTS r1, r2, p1, s1

MCCodeRepos == (r1 :> [path |-> p1, slug |-> s1]) @@ (r2 :> NoPath)
=============================================================================
