---------------------------- MODULE MCIndexDaemon ----------------------------
(* One checkout that changes its repository id, its owner's daemon, and one   *)
(* other process of that machine.                                             *)
EXTENDS IndexDaemon

CONSTANTS r1, r2, p1, s1

MCCodeRepos == [r \in {r1, r2} |-> NoPath]
MCHome == [p \in {p1} |-> r1]
MCDirName == [p \in {p1} |-> s1]
=============================================================================
