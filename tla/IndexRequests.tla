---------------------------- MODULE IndexRequests ----------------------------
(***************************************************************************)
(* The proxy-indexing work queue of the server: the index_requests and     *)
(* repo_paths tables of code.db and the handlers that change them          *)
(* (lib/code-nav/index-requests.ts, tools/code-nav.ts).                    *)
(*                                                                         *)
(* A symbol query that finds nothing in a repository checked out on other  *)
(* machines enqueues one request for each of them; the daemon of such a    *)
(* machine claims its requests, re-indexes the checkout and pushes the     *)
(* symbols back, and the push marks the request done.  A claim that stays  *)
(* unanswered for ReclaimAfter becomes claimable again, at most            *)
(* MaxAttempts times in all.                                               *)
(*                                                                         *)
(* Every handler is one better-sqlite3 transaction or a run of synchronous *)
(* statements, hence one action, except code_ingest_repo, which awaits the *)
(* vault registry between storing the symbols and closing the request.     *)
(* The callers are unconstrained here: any machine may poll, report or     *)
(* push at any time.  IndexDaemon restricts them to what the CLI sends.    *)
(*                                                                         *)
(* The vault's copy of the registry (lib/code-nav/registry.ts), loaded at  *)
(* boot, is taken to be up to date, so that loading it changes nothing.    *)
(* Two requests of one machine never have the same requested_at.           *)
(***************************************************************************)
EXTENDS Integers, FiniteSets

CONSTANTS
    Repos,          \* repository ids
    Machines,       \* machine ids that own checkouts
    Server,         \* the machine the server runs on
    Paths,          \* absolute checkout paths
    Slugs,          \* names of repositories
    NoSlug,         \* a repository id without a row in repos
    NoPath,         \* no row in repo_paths
    NoMachine,      \* no push holds the lock of a repository
    CodeRepos,      \* CODE_REPOS: a path and a name for some repositories
    MaxAttempts,    \* MAX_INDEX_ATTEMPTS
    ReclaimAfter,   \* RECLAIM_AFTER_MS, in ticks of the clock
    ClaimLimit,     \* largest number of requests one poll may ask for
    MaxEnqueues     \* bound: how many queries find their repository stale

ASSUME ServerIsMachine == Server \in Machines
ASSUME NonesAreNone == NoPath \notin Paths /\ NoMachine \notin Machines /\ NoSlug \notin Slugs
ASSUME CodeReposAreRepos ==
    /\ CodeRepos \in [Repos -> [path : Paths, slug : Slugs] \cup {NoPath}]
    /\ NoPath \notin [path : Paths, slug : Slugs]
    /\ \A q, r \in Repos : CodeRepos[q] # NoPath /\ CodeRepos[r] # NoPath
                             /\ CodeRepos[q].slug = CodeRepos[r].slug => q = r
ASSUME LimitsAreNatural ==
    /\ MaxAttempts \in Nat \ {0}
    /\ ReclaimAfter \in Nat
    /\ ClaimLimit \in Nat \ {0}
    /\ MaxEnqueues \in Nat

VARIABLES
    slugs,      \* repos: the slug of a repository id
    checkouts,  \* repo_paths: the path of a repository on a machine
    requests,   \* index_requests: the set of its rows
    enqueues,   \* number of enqueue transactions so far, the requested_at clock
    ingesting   \* indexLocks: the machine whose push holds a repository's lock

vars == <<slugs, checkouts, requests, enqueues, ingesting>>

Remote == Machines \ {Server}

\* The rows of index_requests. "at" stands for requested_at: no two rows of one
\* machine share it. "age" is the time since claimed_at, cut off just past
\* ReclaimAfter because no statement tells larger ages apart.
Request ==
    [repo : Repos, machine : Remote, path : Paths,
     status : {"pending", "claimed", "done", "failed"},
     attempts : Nat, age : 0 .. ReclaimAfter + 1, at : Nat]

TypeOK ==
    /\ slugs \in [Repos -> Slugs \cup {NoSlug}]
    /\ checkouts \in [Repos -> [Machines -> Paths \cup {NoPath}]]
    /\ requests \subseteq Request
    /\ enqueues \in Nat
    /\ ingesting \in [Repos -> Machines \cup {NoMachine}]

Init ==
    /\ slugs = [r \in Repos |-> NoSlug]
    /\ checkouts = [r \in Repos |-> [m \in Machines |-> NoPath]]
    /\ requests = {}
    /\ enqueues = 0
    /\ ingesting = [r \in Repos |-> NoMachine]

-----------------------------------------------------------------------------
(* Predicates of the WHERE clauses.                                        *)

\* The partial unique index idx_index_requests_outstanding.
Outstanding(x) == x.status \in {"pending", "claimed"}

Lapsed(x) == x.status = "claimed" /\ x.age > ReclaimAfter

\* Plausible bug: the limit is off by one.
ExhaustedLate(x) == Lapsed(x) /\ x.attempts > MaxAttempts

\* A stale claim that has been served MaxAttempts times.
Exhausted(x) == Lapsed(x) /\ x.attempts >= MaxAttempts

\* Plausible bug: an abandoned claim stays with the machine that made it.
ClaimablePending(x) == x.status = "pending"

Claimable(x) == (x.status = "pending" \/ Lapsed(x)) /\ ~Exhausted(x)

\* Plausible bug: the unique index covers 'pending' rows only.
NewRequestsUnclaimed(r) ==
    {[repo |-> r, machine |-> m, path |-> checkouts[r][m], status |-> "pending",
      attempts |-> 0, age |-> 0, at |-> enqueues] :
        m \in {n \in Remote :
                 /\ checkouts[r][n] # NoPath
                 /\ ~\E x \in requests :
                        x.status = "pending" /\ x.repo = r /\ x.machine = n}}

\* Plausible bug: the server asks its own machine as well.
NewRequestsForAll(r) ==
    {[repo |-> r, machine |-> m, path |-> checkouts[r][m], status |-> "pending",
      attempts |-> 0, age |-> 0, at |-> enqueues] :
        m \in {n \in Machines :
                 /\ checkouts[r][n] # NoPath
                 /\ ~\E x \in requests :
                        Outstanding(x) /\ x.repo = r /\ x.machine = n}}

\* The rows an enqueue for r inserts: one per remote checkout, INSERT OR IGNORE
\* against an outstanding row of the same repository and machine.
NewRequests(r) ==
    {[repo |-> r, machine |-> m, path |-> checkouts[r][m], status |-> "pending",
      attempts |-> 0, age |-> 0, at |-> enqueues] :
        m \in {n \in Remote :
                 /\ checkouts[r][n] # NoPath
                 /\ ~\E x \in requests :
                        Outstanding(x) /\ x.repo = r /\ x.machine = n}}

\* S is what ORDER BY requested_at ASC LIMIT n selects from the rows C.
IsOldest(S, C, n) ==
    /\ S \subseteq C
    /\ Cardinality(S) <= n
    /\ S # C => Cardinality(S) = n
    /\ \A x \in S, y \in C \ S : x.at < y.at

-----------------------------------------------------------------------------
(* Handlers.                                                               *)

\* A query finds nothing in r (diagnoseAndRequestReindex).
Enqueue(r) ==
    /\ enqueues < MaxEnqueues
    /\ \E m \in Remote : checkouts[r][m] # NoPath
    /\ requests' = requests \cup NewRequests(r)
    /\ enqueues' = enqueues + 1
    /\ UNCHANGED <<slugs, checkouts, ingesting>>

\* completed_at is set and the claim's age no longer matters.
Resolved(x, status) == [x EXCEPT !.status = status, !.age = 0]

\* What a poll does to a row x of machine m when it serves the rows S.
AfterClaim(x, m, S) ==
    IF x \in S
    THEN [x EXCEPT !.status = "claimed", !.age = 0, !.attempts = x.attempts + 1]
    ELSE IF x.machine = m /\ Exhausted(x) THEN Resolved(x, "failed") ELSE x

\* A poll of machine m for at most limit requests is answered with the rows S.
Claim(m, limit, S) ==
    /\ IsOldest(S, {x \in requests : x.machine = m /\ Claimable(x)}, limit)
    /\ requests' = {AfterClaim(x, m, S) : x \in requests}
    /\ UNCHANGED <<slugs, checkouts, enqueues, ingesting>>

\* The row failIndexRequest selects: the newest outstanding one of the path.
IsReported(x, m, p) ==
    /\ x \in requests /\ Outstanding(x) /\ x.machine = m /\ x.path = p
    /\ \A y \in requests :
          Outstanding(y) /\ y.machine = m /\ y.path = p => y.at <= x.at

\* Plausible bug: the first report fails the request.
FailAtOnce(m, p) ==
    \E x \in requests :
        /\ IsReported(x, m, p)
        /\ requests' = (requests \ {x}) \cup {Resolved(x, "failed")}
        /\ UNCHANGED <<slugs, checkouts, enqueues, ingesting>>

\* The daemon of m reports that it could not index p: an exhausted row fails
\* now, any other keeps its status and attempts (only last_error is stored).
Fail(m, p) ==
    \E x \in requests :
        /\ IsReported(x, m, p)
        /\ requests' = IF x.attempts >= MaxAttempts
                       THEN (requests \ {x}) \cup {Resolved(x, "failed")}
                       ELSE requests
        /\ UNCHANGED <<slugs, checkouts, enqueues, ingesting>>

\* The slug is UNIQUE: another repository holds it.
SlugTaken(r, s) == \E q \in Repos \ {r} : slugs[q] = s

\* Plausible bug: the path is not taken away from its repository.
TakenOverNever(r, m, p) == {checkouts}

\* What remains of repo_paths when a push of r takes p over from a repository
\* that held it: a DELETE of its own, outside every transaction.
TakenOver(r, m, p) ==
    LET holders == {q \in Repos : checkouts[q][m] = p}
    IN  IF holders \subseteq {r} THEN {checkouts}
        ELSE {IF q = r THEN checkouts ELSE [checkouts EXCEPT ![q][m] = NoPath] : q \in holders}

\* The path is taken over, the repository and its path are stored.
StoreRepo(r, m, p, s) ==
    /\ ingesting[r] = NoMachine
    /\ ~SlugTaken(r, s)
    /\ slugs' = [slugs EXCEPT ![r] = s]
    /\ \E rest \in TakenOver(r, m, p) : checkouts' = [rest EXCEPT ![r][m] = p]

\* code_ingest_repo up to its await: takes the repository's lock, stores the
\* repository and then its symbols.
IngestBegin(r, m, p, s) ==
    /\ StoreRepo(r, m, p, s)
    /\ ingesting' = [ingesting EXCEPT ![r] = m]
    /\ UNCHANGED <<requests, enqueues>>

\* code_ingest_repo when a transaction after that of the repository fails, for
\* example on a call whose caller is no symbol: the lock is released.
IngestFailed(r, m, p, s) ==
    /\ StoreRepo(r, m, p, s)
    /\ UNCHANGED <<requests, enqueues, ingesting>>

\* code_ingest_repo when the UNIQUE slug refuses the repository: the path has
\* been taken over already, the lock is released.
IngestRefused(r, m, p, s) ==
    /\ ingesting[r] = NoMachine
    /\ SlugTaken(r, s)
    /\ checkouts' \in TakenOver(r, m, p)
    /\ UNCHANGED <<slugs, requests, enqueues, ingesting>>

\* Plausible bug: the UPDATE does not look at the status.
CompletedAll(r, m) ==
    {IF x.repo = r /\ x.machine = m THEN Resolved(x, "done") ELSE x : x \in requests}

\* completeIndexRequests.
Completed(r, m) ==
    {IF x.repo = r /\ x.machine = m /\ Outstanding(x)
       THEN Resolved(x, "done") ELSE x : x \in requests}

\* code_ingest_repo after its await.
IngestEnd(r) ==
    /\ ingesting[r] # NoMachine
    /\ requests' = Completed(r, ingesting[r])
    /\ ingesting' = [ingesting EXCEPT ![r] = NoMachine]
    /\ UNCHANGED <<slugs, checkouts, enqueues>>

\* code_index_repo re-indexes a checkout of the server's machine under the
\* same lock. It closes no request: there are none for that machine.
LocalIndex(r) ==
    /\ checkouts[r][Server] # NoPath
    /\ ingesting[r] = NoMachine
    /\ ingesting' = [ingesting EXCEPT ![r] = Server]
    /\ UNCHANGED <<slugs, checkouts, requests, enqueues>>

\* Plausible bug: the foreign key of index_requests does not cascade.
DropKeepsRequests(r) ==
    /\ slugs[r] # NoSlug
    /\ slugs' = [slugs EXCEPT ![r] = NoSlug]
    /\ checkouts' = [checkouts EXCEPT ![r] = [m \in Machines |-> NoPath]]
    /\ UNCHANGED <<requests, enqueues, ingesting>>

\* code_repo_drop: ON DELETE CASCADE removes the paths and requests of r. It
\* does not look at the lock.
Drop(r) ==
    /\ slugs[r] # NoSlug
    /\ slugs' = [slugs EXCEPT ![r] = NoSlug]
    /\ checkouts' = [checkouts EXCEPT ![r] = [m \in Machines |-> NoPath]]
    /\ requests' = {x \in requests : x.repo # r}
    /\ UNCHANGED <<enqueues, ingesting>>

\* code_repo_rename.
Rename(r, s) ==
    /\ slugs[r] # NoSlug
    /\ ~SlugTaken(r, s)
    /\ slugs' = [slugs EXCEPT ![r] = s]
    /\ UNCHANGED <<checkouts, requests, enqueues, ingesting>>

\* code_repo_register on the server's own machine refuses a path that another
\* repository holds. A slug that is taken gets a suffix, so s is a free one.
Register(r, p, s) ==
    /\ \A q \in Repos \ {r} : checkouts[q][Server] # p
    /\ ~SlugTaken(r, s)
    /\ slugs' = [slugs EXCEPT ![r] = s]
    /\ checkouts' = [checkouts EXCEPT ![r][Server] = p]
    /\ UNCHANGED <<requests, enqueues, ingesting>>

\* The CODE_REPOS entry of r is stored at boot: INSERT OR IGNORE of the
\* repository, then the path, which the foreign key refuses without it.
Booted(r) ==
    /\ CodeRepos[r] # NoPath
    /\ slugs[r] # NoSlug \/ ~SlugTaken(r, CodeRepos[r].slug)

\* The server process dies and starts again: the locks are gone, the database
\* is not, and main() stores the CODE_REPOS entries without a conflict check.
Restart ==
    /\ slugs' = [r \in Repos |-> IF Booted(r) /\ slugs[r] = NoSlug
                                 THEN CodeRepos[r].slug ELSE slugs[r]]
    /\ checkouts' = [r \in Repos |->
                        IF Booted(r) THEN [checkouts[r] EXCEPT ![Server] = CodeRepos[r].path]
                        ELSE checkouts[r]]
    /\ ingesting' = [r \in Repos |-> NoMachine]
    /\ UNCHANGED <<requests, enqueues>>

\* The wall clock advances.
Tick ==
    /\ \E x \in requests : x.status = "claimed" /\ x.age <= ReclaimAfter
    /\ requests' = {IF x.status = "claimed" /\ x.age <= ReclaimAfter
                      THEN [x EXCEPT !.age = x.age + 1] ELSE x : x \in requests}
    /\ UNCHANGED <<slugs, checkouts, enqueues, ingesting>>

Next ==
    \/ \E r \in Repos : Enqueue(r)
    \/ \E m \in Remote, limit \in 1 .. ClaimLimit, S \in SUBSET requests :
          Claim(m, limit, S)
    \/ \E m \in Remote, p \in Paths : Fail(m, p)
    \/ \E r \in Repos, m \in Machines, p \in Paths, s \in Slugs :
          \/ IngestBegin(r, m, p, s)
          \/ IngestFailed(r, m, p, s)
          \/ IngestRefused(r, m, p, s)
    \/ \E r \in Repos : IngestEnd(r) \/ LocalIndex(r) \/ Drop(r)
    \/ \E r \in Repos, s \in Slugs : Rename(r, s)
    \/ \E r \in Repos, p \in Paths, s \in Slugs : Register(r, p, s)
    \/ Restart
    \/ Tick

Spec == Init /\ [][Next]_vars

-----------------------------------------------------------------------------
(* Properties.                                                             *)

\* A repository and machine never have two requests to work on, however
\* queries, polls, reports and pushes interleave: a request that is enqueued
\* again after it was resolved never meets the older one still open.
OneOutstanding ==
    \A x, y \in requests :
        Outstanding(x) /\ Outstanding(y) /\ x.repo = y.repo /\ x.machine = y.machine
            => x = y

\* No request is served more than MAX_INDEX_ATTEMPTS times, and one fails only
\* after it has been served that often: a failure report that arrives early,
\* late or for an earlier request of the path never fails a fresh one.
ServesBounded ==
    \A x \in requests :
        /\ x.attempts <= MaxAttempts
        /\ x.status = "pending" => x.attempts = 0
        /\ x.status = "claimed" => x.attempts > 0
        /\ x.status = "failed" => x.attempts = MaxAttempts

\* code_ingest_repo's rebinding keeps a checkout of a remote machine from
\* standing under two repository ids, so that one working tree is never asked
\* for under the id it no longer has.  (On the server's machine CODE_REPOS can
\* break this.)
CheckoutOwnedOnce ==
    \A q, r \in Repos, m \in Remote :
        checkouts[q][m] = checkouts[r][m] /\ checkouts[q][m] # NoPath => q = r

\* A request that is done or failed stays so, as it is, until its repository is
\* dropped with all its requests: no late report, second push or poll of the
\* same machine touches it.
ResolvedIsFinal ==
    [][\A x \in requests :
          Outstanding(x) \/ x \in requests' \/ \A y \in requests' : y.repo # x.repo]_vars

\* The rows in R of a repository on a machine that are open, and that have failed.
OpenRows(R, k) == {x \in R : Outstanding(x) /\ x.repo = k[1] /\ x.machine = k[2]}
FailedRows(R, k) == {x \in R : x.status = "failed" /\ x.repo = k[1] /\ x.machine = k[2]}

\* The serves of the open row, or a number that no row reaches.
Job(R, k) == IF OpenRows(R, k) = {} THEN MaxAttempts + 1
             ELSE (CHOOSE x \in OpenRows(R, k) : TRUE).attempts

\* The job of a repository and machine is its open row, the jobs given up are
\* its failed rows.
Jobs == INSTANCE IndexJobs WITH
    NoJob <- MaxAttempts + 1,
    jobs <- [k \in Repos \X Remote |-> Job(requests, k)],
    givenUp <- [k \in Repos \X Remote |-> Cardinality(FailedRows(requests, k))]

\* The queue implements IndexJobs: each repository and machine has one job at a
\* time, that a poll serves a bounded number of times and that ends only by a
\* push, by exhaustion or with its repository.
ImplementsJobs == Jobs!Spec
=============================================================================
