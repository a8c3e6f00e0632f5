------------------------------ MODULE IndexJobs ------------------------------
(***************************************************************************)
(* What the proxy-indexing queue promises, without its rows, times and     *)
(* paths: every repository has, on every remote machine, no job or one job *)
(* that has been served a number of times, and a count of the jobs given   *)
(* up.  A job ends well at any time but is given up only after MaxAttempts *)
(* serves.                                                                 *)
(***************************************************************************)
EXTENDS Integers

CONSTANTS Repos, Remote, MaxAttempts, NoJob

VARIABLES
    jobs,       \* for each repository and machine NoJob or the serves so far
    givenUp     \* for each repository and machine the jobs given up

vars == <<jobs, givenUp>>

Keys == Repos \X Remote

Init ==
    /\ jobs = [k \in Keys |-> NoJob]
    /\ givenUp = [k \in Keys |-> 0]

\* A query asks machines that have no job for r to index it.
Ask(r) ==
    \E M \in SUBSET Remote :
        /\ \A m \in M : jobs[r, m] = NoJob
        /\ jobs' = [k \in Keys |-> IF k[1] = r /\ k[2] \in M THEN 0 ELSE jobs[k]]
        /\ UNCHANGED givenUp

\* The jobs of K are given up, those of S are served once more.
Advance(K, S) ==
    /\ \A k \in K : jobs[k] = MaxAttempts
    /\ \A k \in S : jobs[k] # NoJob /\ jobs[k] < MaxAttempts
    /\ jobs' = [k \in Keys |-> IF k \in K THEN NoJob
                               ELSE IF k \in S THEN jobs[k] + 1 ELSE jobs[k]]
    /\ givenUp' = [k \in Keys |-> IF k \in K THEN givenUp[k] + 1 ELSE givenUp[k]]

Poll(m) ==
    \E ended, served \in SUBSET (Repos \X {m}) : Advance(ended, served)

GiveUp(r, m) == Advance({<<r, m>>}, {})

End(r, m) ==
    /\ jobs' = [jobs EXCEPT ![<<r, m>>] = NoJob]
    /\ UNCHANGED givenUp

\* Everything about a dropped repository is forgotten.
Drop(r) ==
    /\ jobs' = [k \in Keys |-> IF k[1] = r THEN NoJob ELSE jobs[k]]
    /\ givenUp' = [k \in Keys |-> IF k[1] = r THEN 0 ELSE givenUp[k]]

Next ==
    \/ \E r \in Repos : Ask(r) \/ Drop(r)
    \/ \E m \in Remote : Poll(m)
    \/ \E r \in Repos, m \in Remote : End(r, m) \/ GiveUp(r, m)

Spec == Init /\ [][Next]_vars
=============================================================================
