----------------------------- MODULE IndexDaemon -----------------------------
(***************************************************************************)
(* The proxy-indexing loop closed: the queue of IndexRequests, the hud-line *)
(* daemon of one machine that serves it (crates/cli/src/inspect.rs), the    *)
(* pushes other cortexmd processes of that machine make on their own, and   *)
(* the working trees all of them read.                                      *)
(*                                                                          *)
(* The daemon polls, works through the claimed paths one by one, and        *)
(* sleeps.  A path that failed is left alone for Backoff ticks, whatever    *)
(* the server asks.  Requests and answers travel over HTTP: with Faulty,    *)
(* an answer may be lost, a push may fail and processes may die.            *)
(*                                                                          *)
(* The version of a tree counts its edits; an edit gives the files it       *)
(* writes a new mtime, and the clocks of machine and server agree.  Symbols *)
(* are of a version when every file of it that is still there is at least   *)
(* that new; what partial pushes leave of removed files is not counted.     *)
(***************************************************************************)
EXTENDS IndexRequests, Sequences, SequencesExt

CONSTANTS
    Owner,      \* the machine whose daemon is modelled
    Home,       \* the repository id of a checkout at first
    DirName,    \* the name of a checkout's directory, its slug by default
    Backoff,    \* INDEX_FAIL_BACKOFF in ticks
    MaxEdits,   \* bound: edits of a working tree
    MaxPushes,  \* bound: pushes by other processes than the daemon
    Nothing,    \* no symbols of a repository, or no row for it
    Faulty      \* whether messages get lost and processes die

ASSUME OwnerIsRemote == Owner \in Remote
ASSUME DaemonLimits ==
    /\ DirName \in [Paths -> Slugs] /\ Home \in [Paths -> Repos]
    /\ \A p, q \in Paths : p # q => Home[p] # Home[q] /\ DirName[p] # DirName[q]
    /\ Backoff \in Nat /\ MaxEdits \in Nat /\ MaxPushes \in Nat
    /\ Faulty \in BOOLEAN
ASSUME NothingIsNoVersion ==
    /\ Nothing \notin Nat /\ Nothing \notin [Paths -> Nat]
    /\ Nothing \notin [id : Repos, since : [Paths -> Nat] \cup {Nothing}]

VARIABLES
    tree,       \* working trees of Owner: repository id, kind and version
    stored,     \* version of the tree the server's symbols of a repository are of
    indexed,    \* latest indexed_at of its files: the versions there were then
    local,      \* the CLI's own database: id and last_indexed_at of a slug
    wanted,     \* version of the tree when its open request was enqueued
    phase,      \* what the daemon does
    batch,      \* the claimed requests it has not finished: path and slug
    backoff,    \* FailedIndexPaths: ticks a path is still left alone
    parsed,     \* what the daemon read from the tree it is pushing
    cli,        \* a push another process prepared or is waiting for
    pushes      \* number of pushes by other processes

daemonVars == <<phase, batch, backoff, parsed>>
serverVars == <<stored, indexed, wanted>>
dvars == <<vars, tree, serverVars, local, daemonVars, cli, pushes>>

Versions == 0 .. MaxEdits
NoPush == [step |-> "none"]

\* The versions there are: what an mtime is compared with.
Now == [p \in Paths |-> tree[p].version]

\* Every checkout was pushed once, each under an id and a slug of its own.
Pushed(r) == \E p \in Paths : Home[p] = r
CheckoutOf(r) == CHOOSE p \in Paths : Home[p] = r

DInit ==
    /\ slugs = [r \in Repos |-> IF Pushed(r) THEN DirName[CheckoutOf(r)] ELSE NoSlug]
    /\ checkouts = [r \in Repos |-> [m \in Machines |->
          IF m = Owner /\ Pushed(r) THEN CheckoutOf(r) ELSE NoPath]]
    /\ tree = [p \in Paths |-> [id |-> Home[p], kind |-> "source", version |-> 0]]
    /\ stored = [r \in Repos |-> IF Pushed(r) THEN 0 ELSE Nothing]
    /\ indexed = [r \in Repos |-> IF Pushed(r) THEN Now ELSE Nothing]
    /\ local = [s \in Slugs |-> Nothing]
    /\ parsed \in [id : {Home[p] : p \in Paths}, version : {0}]
    /\ requests = {}
    /\ enqueues = 0
    /\ ingesting = [r \in Repos |-> NoMachine]
    /\ wanted = [r \in Repos |-> 0]
    /\ phase = "sleeping"
    /\ batch = <<>>
    /\ backoff = [p \in Paths |-> 0]
    /\ cli = NoPush
    /\ pushes = 0

-----------------------------------------------------------------------------
(* The machine's user: edits, moves and re-homes the working trees.        *)

Edit(p) ==
    /\ tree[p].version < MaxEdits
    /\ \E k \in {"source", "empty", "gone"}, r \in Repos :
          tree' = [tree EXCEPT ![p] = [id |-> r, kind |-> k, version |-> @.version + 1]]
    /\ UNCHANGED <<vars, serverVars, local, daemonVars, cli, pushes>>

\* An agent's query of r finds nothing.
Query(r) ==
    /\ Enqueue(r)
    /\ LET p == checkouts[r][Owner]
           fresh == \E x \in NewRequests(r) : x.machine = Owner
       IN  IF fresh
           THEN wanted' = [wanted EXCEPT ![r] = tree[p].version]
           ELSE UNCHANGED wanted
    /\ UNCHANGED <<tree, stored, indexed, local, daemonVars, cli, pushes>>

-----------------------------------------------------------------------------
(* The daemon.                                                             *)

Current == Head(batch).path

\* Go on with the next claimed path, or to sleep.
NextPath ==
    /\ batch' = Tail(batch)
    /\ phase' = IF Tail(batch) = <<>> THEN "sleeping" ELSE "working"

\* The claimed paths in the order of their requests, each once, with the slugs
\* of the repositories they were asked for. No two requests are as old.
Work(S) ==
    LET first == {x \in S : \A y \in S : y.path = x.path => x.at <= y.at}
        rows == {f \in BoundedSeq(first, ClaimLimit) :
                    /\ \A x \in first : \E i \in DOMAIN f : f[i] = x
                    /\ \A i, j \in DOMAIN f : i < j => f[i].at < f[j].at}
    IN  {[i \in DOMAIN f |-> [path |-> f[i].path, slug |-> slugs[f[i].repo]]] : f \in rows}

Poll ==
    /\ phase = "sleeping"
    /\ \E S \in SUBSET requests :
          /\ Claim(Owner, ClaimLimit, S)
          /\ \/ batch' \in Work(S)
             \/ Faulty /\ batch' = <<>>
    /\ phase' = IF batch' = <<>> THEN "sleeping" ELSE "working"
    /\ UNCHANGED <<tree, serverVars, local, backoff, parsed, cli, pushes>>

\* A path that failed less than INDEX_FAIL_BACKOFF ago is skipped in silence.
Skip ==
    /\ phase = "working"
    /\ backoff[Current] > 0
    /\ NextPath
    /\ UNCHANGED <<vars, tree, serverVars, local, backoff, parsed, cli, pushes>>

\* The attempt failed: remember the path and report it.
GiveUp ==
    /\ phase' = "reporting"
    /\ backoff' = [backoff EXCEPT ![Current] = Backoff]

\* The path is gone, or it cannot be parsed or sent.
Precheck ==
    /\ phase = "working" /\ backoff[Current] = 0
    /\ tree[Current].kind = "gone" \/ Faulty
    /\ GiveUp
    /\ UNCHANGED <<vars, tree, serverVars, local, batch, parsed, cli, pushes>>

\* run_index reads the tree; without source files it returns without a push.
Parse ==
    /\ phase = "working" /\ backoff[Current] = 0
    /\ \/ /\ tree[Current].kind = "empty"
          /\ NextPath
          /\ UNCHANGED parsed
       \/ /\ tree[Current].kind = "source"
          /\ parsed' = [id |-> tree[Current].id, version |-> tree[Current].version]
          /\ phase' = "pushing"
          /\ UNCHANGED batch
    /\ UNCHANGED <<vars, tree, serverVars, local, backoff, cli, pushes>>

\* The versions that the server's symbols of r may be of once a push has brought
\* the files of a tree of this version that were written after "since", or all.
\* An older file that an earlier push missed is still missing.
AfterPush(r, version, since) ==
    IF since = Nothing \/ (stored[r] # Nothing /\ since <= stored[r]) THEN {version}
    ELSE {v \in Versions : v <= version /\ (stored[r] = Nothing \/ stored[r] <= v)}

\* The symbols are stored and the files that came get the server's time.
StoreFiles(r, version, since) ==
    /\ \E v \in AfterPush(r, version, since) : stored' = [stored EXCEPT ![r] = v]
    /\ indexed' = [indexed EXCEPT ![r] = Now]

\* code_ingest_repo receives the push. It fails if the lock or the slug is taken.
DaemonPush ==
    /\ phase = "pushing"
    /\ \/ /\ IngestBegin(parsed.id, Owner, Current, Head(batch).slug)
          /\ StoreFiles(parsed.id, parsed.version, Nothing)
          /\ phase' = "waiting"
          /\ UNCHANGED backoff
       \/ /\ \/ IngestRefused(parsed.id, Owner, Current, Head(batch).slug)
             \/ (ingesting[parsed.id] # NoMachine \/ Faulty) /\ UNCHANGED vars
          /\ GiveUp
          /\ UNCHANGED <<stored, indexed>>
       \/ /\ Faulty
          /\ IngestFailed(parsed.id, Owner, Current, Head(batch).slug)
          /\ \/ StoreFiles(parsed.id, parsed.version, Nothing)
             \/ UNCHANGED <<stored, indexed>>
          /\ GiveUp
    /\ UNCHANGED <<tree, wanted, local, batch, parsed, cli, pushes>>

\* The push times out while the server still works on it.
Timeout ==
    /\ Faulty /\ phase = "waiting"
    /\ GiveUp
    /\ UNCHANGED <<vars, tree, serverVars, local, batch, parsed, cli, pushes>>

\* Plausible bug: a report that is not accepted is tried again.
ReportRetried ==
    /\ phase = "reporting"
    /\ Fail(Owner, Current)
    /\ NextPath
    /\ UNCHANGED <<tree, serverVars, local, backoff, parsed, cli, pushes>>

\* POST /api/code-index-requests/fail; 404 when no request of the path is open.
Report ==
    /\ phase = "reporting"
    /\ \/ Fail(Owner, Current)
       \/ /\ Faulty \/ ~\E x \in requests : IsReported(x, Owner, Current)
          /\ UNCHANGED vars
    /\ NextPath
    /\ UNCHANGED <<tree, serverVars, local, backoff, parsed, cli, pushes>>

\* The daemon dies and a session start spawns a new one, which remembers nothing.
DaemonRestart ==
    /\ Faulty
    /\ phase' = "sleeping"
    /\ batch' = <<>>
    /\ backoff' = [p \in Paths |-> 0]
    /\ UNCHANGED <<vars, tree, serverVars, local, parsed, cli, pushes>>

-----------------------------------------------------------------------------
(* Other processes of the machine.  "cortexmd index" pushes the whole tree; *)
(* incremental_push_blocking, which every read tool calls, what is newer    *)
(* than the last index, under the id that the CLI's own database has.       *)

\* The CLI's database takes over what the server has under the slug s. It refuses
\* a second repository of that slug, and an empty answer changes nothing.
CliPull(s) ==
    /\ \E r \in Repos :
          /\ slugs[r] = s
          /\ local[s] # Nothing => local[s].id = r /\ indexed[r] # Nothing
          /\ local' = [t \in Slugs |->
                IF t = s THEN [id |-> r, since |-> indexed[r]]
                ELSE IF local[t] # Nothing /\ local[t].id = r THEN Nothing ELSE local[t]]
    /\ UNCHANGED <<vars, tree, serverVars, daemonVars, cli, pushes>>

\* A push of p is prepared: of all its files, or of those written after "since".
CliPrepare(p, id, slug, since) ==
    /\ cli = NoPush
    /\ pushes < MaxPushes
    /\ tree[p].kind = "source"
    /\ since # Nothing => tree[p].version > since
    /\ pushes' = pushes + 1
    /\ cli' = [step |-> "parsed", path |-> p, id |-> id, slug |-> slug,
               version |-> tree[p].version, since |-> since]
    /\ UNCHANGED <<vars, tree, serverVars, local, daemonVars>>

CliIndex(p) == CliPrepare(p, tree[p].id, DirName[p], Nothing)

\* The path is one the server had for the slug in the last minute, on whatever
\* machine, that exists here: any. A push under an id that neither the first
\* commit nor the origin of the tree gives is refused and changes nothing.
CliIncrement(s, p) ==
    /\ local[s] # Nothing
    /\ CliPrepare(p, local[s].id, s,
                  IF local[s].since = Nothing THEN Nothing ELSE local[s].since[p])

CliPush ==
    /\ cli # NoPush /\ cli.step = "parsed"
    /\ \/ /\ IngestBegin(cli.id, Owner, cli.path, cli.slug)
          /\ StoreFiles(cli.id, cli.version, cli.since)
          /\ cli' = [cli EXCEPT !.step = "waiting"]
       \/ /\ \/ IngestRefused(cli.id, Owner, cli.path, cli.slug)
             \/ (ingesting[cli.id] # NoMachine \/ Faulty) /\ UNCHANGED vars
          /\ cli' = NoPush
          /\ UNCHANGED <<stored, indexed>>
       \/ /\ Faulty
          /\ IngestFailed(cli.id, Owner, cli.path, cli.slug)
          /\ \/ StoreFiles(cli.id, cli.version, cli.since)
             \/ UNCHANGED <<stored, indexed>>
          /\ cli' = NoPush
    /\ UNCHANGED <<tree, wanted, local, daemonVars, pushes>>

-----------------------------------------------------------------------------
(* The server.                                                             *)

\* The push of r is complete; whoever waits for it gets the answer.
Finish(r) ==
    /\ IngestEnd(r)
    /\ IF phase = "waiting" /\ parsed.id = r
       THEN /\ NextPath
            /\ backoff' = [backoff EXCEPT ![Current] = 0]
            /\ UNCHANGED cli
       ELSE /\ cli' = IF cli # NoPush /\ cli.step = "waiting" /\ cli.id = r
                      THEN NoPush ELSE cli
            /\ UNCHANGED <<phase, batch, backoff>>
    /\ UNCHANGED <<tree, serverVars, local, parsed, pushes>>

DropRepo(r) ==
    /\ Drop(r)
    /\ stored' = [stored EXCEPT ![r] = Nothing]
    /\ indexed' = [indexed EXCEPT ![r] = Nothing]
    /\ UNCHANGED <<tree, wanted, local, daemonVars, cli, pushes>>

\* Whoever waits for the server gets an error.
ServerRestart ==
    /\ Faulty
    /\ Restart
    /\ IF phase = "waiting" THEN GiveUp ELSE UNCHANGED <<phase, backoff>>
    /\ cli' = IF cli # NoPush /\ cli.step = "waiting" THEN NoPush ELSE cli
    /\ UNCHANGED <<tree, serverVars, local, batch, parsed, pushes>>

\* Time passes for the claims and for the daemon's backoff.
Pass ==
    /\ \/ Tick
       \/ /\ ~ENABLED Tick
          /\ \E p \in Paths : backoff[p] > 0
          /\ UNCHANGED vars
    /\ backoff' = [p \in Paths |-> IF backoff[p] > 0 THEN backoff[p] - 1 ELSE 0]
    /\ UNCHANGED <<tree, serverVars, local, phase, batch, parsed, cli, pushes>>

DNext ==
    \/ \E p \in Paths : Edit(p)
    \/ \E r \in Repos : Query(r)
    \/ Poll \/ Skip \/ Precheck \/ Parse \/ DaemonPush \/ Timeout \/ Report
    \/ DaemonRestart
    \/ \E s \in Slugs : CliPull(s) \/ \E p \in Paths : CliIncrement(s, p)
    \/ \E p \in Paths : CliIndex(p)
    \/ CliPush
    \/ \E r \in Repos : Finish(r) \/ DropRepo(r)
    \/ ServerRestart
    \/ Pass

\* A live daemon polls and works, a live server finishes its pushes, time passes.
Fairness ==
    /\ WF_dvars(Poll)
    /\ WF_dvars(Skip \/ Precheck \/ Parse \/ DaemonPush \/ Report)
    /\ WF_dvars(\E r \in Repos : Finish(r))
    /\ WF_dvars(Pass)

DSpec == DInit /\ [][DNext]_dvars /\ Fairness

-----------------------------------------------------------------------------
(* Properties.                                                             *)

\* A request ends well only while the server has symbols of its repository,
\* although failed pushes, lost answers and drops come between.
DoneHasSymbols ==
    \A x \in requests : x.status = "done" => stored[x.repo] # Nothing

\* No bad checkout keeps the daemon from its next poll: "one bad entry can't
\* stall the rest".
PollsAgain == phase # "sleeping" ~> phase = "sleeping"

\* Every request of a machine with a live daemon is done, given up or dropped in
\* the end, whatever happens to its checkout, its answers and the server.
RequestsEnd ==
    \A r \in Repos, n \in 0 .. MaxEnqueues - 1 :
        (\E x \in requests : x.repo = r /\ x.machine = Owner /\ x.at = n /\ Outstanding(x))
        ~> ~(\E x \in requests : x.repo = r /\ x.machine = Owner /\ x.at = n /\ Outstanding(x))

\* "Fresh symbols just arrived from this machine, so any outstanding re-index
\* request is fulfilled": the symbols are not older than the request. (A push
\* prepared before the edit that the query missed breaks this.)
DoneIsFresh ==
    \A x \in requests :
        x.status = "done" /\ x.at + 1 = enqueues => stored[x.repo] >= wanted[x.repo]
=============================================================================
