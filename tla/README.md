# CortexMD in TLA+

A verification project for CortexMD: a TypeScript server that keeps a vault of
Markdown notes, a memory with a bitemporal knowledge graph and an index of code
for agents, and a Rust CLI that indexes checkouts and pushes their symbols to
that server. The modules model the parts of it whose state is shared by several
callers or processes and that is changed over awaits, messages or restarts.

Paths below are relative to the repository; `server/` stands for
`packages/server/src/` and `cli/` for `crates/cli/src/`.

## 1. The system

One Node process serves MCP over HTTP, a REST API and a dashboard. All its
state is in memory, in SQLite databases used through better-sqlite3 (synchronous:
a transaction is atomic for every other handler) and in files (asynchronous:
every `await` lets other handlers run). CLI processes of any number of machines
talk to it over HTTP.

| Component | State | Operations | What is hard about it | What makes it correct |
|---|---|---|---|---|
| Proxy-index queue `server/lib/code-nav/index-requests.ts`, `db.ts` | `repos`, `repo_paths`, `index_requests` | enqueue, claim and reclaim, fail, complete, drop | four kinds of callers in any order, retries, restarts | one open request per repository and machine, bounded serves, resolved is final |
| Code tools `server/tools/code-nav.ts` | per-repository ingest locks, symbol tables | ingest, index, register, rename, drop, queries | an await between storing and completing, several transactions per call | a checkout belongs to one repository; done means there are symbols |
| Registry mirror `server/lib/code-nav/registry.ts` | a JSON file in the vault | rewrite after every change, load at boot | concurrent writers share one temporary file | the file is a state the table was in, and not an old one |
| HUD daemon `cli/inspect.rs` | claimed batch, backoff map | poll, skip, precheck, index, report | lost answers, timeouts, its own restarts | never stalls, every request ends |
| CLI index and sync `cli/lib.rs`, `sync.rs` | last index time | full and partial push | the tree changes between reading and pushing | symbols as fresh as the request they fulfil |
| Knowledge graph `server/lib/knowledge-graph.ts` | `triples`, `triple_evidence` | add, invalidate, supersede, query, repair | event times out of order, values that return | one open interval per fact, history kept, links end |
| Bitemporal ingest `server/lib/bitemporal.ts` | - | derive facts, supersede | late and repeated notes | the latest value holds |
| Note store `server/lib/vault.ts` | files, `noteWriteLocks` | read, write with If-Match, create, delete | truncate and fill, a lock made of promises | writes serial, no edit lost under If-Match, nobody waits for ever |
| MCP sessions `server/index.ts`, `lib/session-lru.ts`, `lib/persistence.ts` | live map, persisted metadata, `sessions.json` | initialise, re-initialise, call, delete, evict, sweep, flush, boot | awaits in initialisation, failing flushes, restarts | cap held, closed sessions forgotten, what is flushed is complete |
| Memory ingest and recall `server/lib/store-memory-api.ts`, `memory.ts`, `tools/memory-*.ts` | notes | store with duplicate check, recall, promote | check-then-act over awaits | no duplicate captures |
| Lifecycle and dream `server/lib/memory-lifecycle.ts`, `dream-engine.ts`, `operation-mutex.ts`, `tools/memory-consolidate*.ts` | notes, one mutex | consolidate (dream, tool, weekly series), decay, archive | three consolidations and several decays of the same notes at once; partial failure between summary and archive | no text lost, archived notes listed by their summary; heat lost by time alone |
| Scheduler and idle edge `server/lib/scheduler.ts`, `activity.ts` | jobs and their flags, the last activity | fire, skip, claim the idle edge | handlers that throw or outlast their interval, activity during a dream | no job stops for ever, every burst is dreamt of |
| Lexical index `server/lib/search.ts` | MiniSearch, `docMeta`, modification times | rebuild (full, incremental), index, remove | rebuilds overlap each other and single updates over many awaits | the two indexes agree, ghosts leave, a full rebuild repairs, the index comes to rest |
| Vector index `server/lib/embeddings.ts` | vectors, id maps, their files | load, boot sync, full build, embed, remove, save | ids read before an embedding and used after it, torn saves | an id has one note, hashes tell the truth, boot heals |
| Workers `server/lib/worker/` | slots, budgets | run | timeout against answer | slots released, budget held |
| Auth and OAuth `server/auth.ts`, `oauth.ts`, `lib/upload-tokens.ts` | codes, tokens | issue, exchange, refresh, expire | single use | a code or upload token is used once |
| Source vaults `server/lib/source-vaults.ts`, `lib/vault/` | remote trees, caches | refresh, list, read | refresh against readers | readers see one version |
| Parsers, resolution, link graph, ranking, dashboard, evaluation | derived | pure functions, views | text and grammar | out of scope |

The components meet in a few places. A symbol query that finds nothing
(`code-nav.ts`) enqueues a request, the daemon (`inspect.rs`) claims it over
HTTP, runs the indexer (`lib.rs`), whose push (`code_ingest_repo`) completes the
request. A note that is stored (`vault.ts`) yields facts (`bitemporal.ts`) that
supersede rows of the knowledge graph. Everything that writes notes (tools,
lifecycle, journal) is a client of the note store and then of the two indexes,
and the lifecycle chooses its notes by what the lexical index has of them.

## 2. Modules

| Module | Models | Composed with |
|---|---|---|
| `IndexJobs` | what the proxy-index queue promises: a job per repository and machine, served a bounded number of times | abstract specification |
| `IndexRequests` | the queue's tables and every handler that changes them | implements `IndexJobs` (`Jobs`, property `ImplementsJobs`) |
| `IndexDaemon` | the daemon of one machine, other pushes of that machine, its working trees, and the network between | extends `IndexRequests`: every step on the tables is an action of it |
| `IndexDaemon_proofs` | theorems about the queue, under any callers, and about the loop | |
| `KnowledgeGraph` | rows of `triples` and `triple_evidence`, supersession at ingest | |
| `KnowledgeGraph_proofs` | theorems about the graph | |
| `NoteStore` | files of the brain vault, the write lock, If-Match, creation, deletion, crash | |
| `NoteStore_proofs` | theorems about the store | |
| `Sessions` | live sessions, metadata from before the restart, dirty flag, `sessions.json` | |
| `Sessions_proofs` | theorems about the sessions | |
| `Consolidation` | the three consolidations of memories beside users' edits | uses what `NoteStore` establishes: writes of a path come one after the other, and truncate before they fill |
| `Consolidation_proofs` | theorems about them | |
| `SearchIndex` | the lexical index over the brain vault and the source vaults | |
| `SearchIndex_proofs` | theorems about it | |
| `VectorIndex` | the embeddings of notes and their files | its notes are the entries of the lexical index |
| `VectorIndex_proofs` | theorems about it | |
| `Dreams` | decay and archiving of memories, the scheduler's jobs, the idle edge | uses what `NoteStore` establishes; its index is as far behind as `SearchIndex` lets it be |
| `Dreams_proofs` | theorems about the heat of memories and the scheduler's flags | |
| `MC*` | instances for TLC | |

### IndexRequests

`slugs` is `repos`, `checkouts` is `repo_paths`, `requests` the rows of
`index_requests`, `ingesting` the map `indexLocks`. `requested_at` is a counter of
enqueue transactions; `claimed_at` is the age of the claim, cut off just beyond
`RECLAIM_AFTER_MS`. The actions are `diagnoseAndRequestReindex` with
`enqueueIndexRequestsForRepo` (`Enqueue`), `claimPendingRequests` (`Claim`),
`failIndexRequest` (`Fail`), `code_ingest_repo` in two halves around
`await writeVaultRegistry()` (`IngestBegin`, `IngestEnd`) and its two ways to
fail (`IngestRefused` at the UNIQUE slug, after the path has been taken over;
`IngestFailed` in a later transaction), `code_index_repo` (`LocalIndex`),
`code_repo_drop`, `code_repo_rename`, `code_repo_register`, and a restart that
loses the locks and stores the `CODE_REPOS` entries. The callers are not
restricted: any machine polls, reports and pushes at any time.

Assumed: the vault's registry is up to date (loading it at boot changes
nothing), and two requests of one machine never share a `requested_at`.

### IndexDaemon

The daemon is a small state machine (`phase`): poll, work through the claimed
paths, push, wait, report. A working tree has a repository id, a kind (with
source files, without, gone) and a version; `stored` is the version the server's
symbols are of, `indexed` the versions there were when their files got the
server's time. At first every checkout has been pushed under an id of its own
(`Home`).

`cli` is one push by another process of the machine, prepared from the tree and
sent later: `cortexmd index` pushes the whole tree (`CliIndex`), the push that
goes before every read only the files written since the last index
(`CliIncrement`), by the id and the time that the CLI's own database (`local`)
took over from the server (`CliPull`). What a push leaves the server with
(`AfterPush`) is the tree as it was read, unless an older file was missed before
and is not among what was written since.

With `Faulty`, poll answers and reports are lost, pushes fail or time out, and
both processes restart, the daemon also while it sleeps, which clears its
backoff; without, only what the code does by itself remains.

### KnowledgeGraph

A key is a subject and predicate. A row has an id (the fact's for its first
interval, else one made of fact, event time and source), `valid_from`, `valid_to`
with `invalidated_at`, its links in both directions, and its source. `Add` is
`kgAddTriple`, `Invalidate` `kgInvalidateTriple`, `Supersede` `kgSupersede`,
`Recreate` the outcome of `kgRepair` on a corrupt database. Where a query's
`ORDER BY` leaves ties the model takes any of the tied rows.

### NoteStore

The chain of promises is `tail` (the map) and `before` (the promise each client
awaits). A write is queued, checks the etag, truncates and fills: the last two
are separate because `writeFile` opens the file with truncation and then
writes, and readers take no lock. `createNote` and `deleteNote` take none
either. A text is the set of edits in it. A client that opened a file
that was deleted since writes into nothing (`linked`).

### Sessions

`live` is the map `sessions`, `meta` `persistedSessionMeta`, `dirty`
`sessionsDirty` and `disk` the file. An initialisation is two steps around the
transport (`InitBegin`, `InitEnd`, or `InitFails`), a `DELETE` two around its
own (`DeleteBegin`, whose transport drops the session or refuses; `DeleteEnd`,
which drops whatever session has the id by then). `Request` is
`updateSessionActivity`, `ToolCall` the tool hook, `Unknown` the 404, `Kill` the
dashboard's, `Cleanup` the sweep of idle sessions and old metadata, `Flush`
`persistSessionsIfDirty` with its failure as a stutter, `Restart` a shutdown or a
crash and the boot. Where the code sorts by activity, ties go either way.

A session is its last activity and the length of its history. `closed` is not
in the program: it remembers which ids were dropped since they were last
initialised. Left out are transports that two initialisations of one id leave
behind (nothing closes them), the request counter, client information and
the file's temporary copy (written and renamed in one synchronous call).

### Consolidation

A call of `applyAutoConsolidation`, of `distillCluster` or of the series goes
through phases: it looks at its target, reads its sources one by one, verifies
(the dream), writes the summary, archives the sources one by one, and indexes.
Every file operation is a step, may fail, and has other calls, users' edits and
crashes before it. A text is the set of edits in it, an etag is the note. The path
of a summary is a function of its kind and its sources, as slug and source
key make it, so two calls may meet at one target. What makes notes similar is
data: a group is any member of `Clusters` or `Series`.

`writeFile` truncates and then fills, so a write is two steps: one that checks
the etag under the lock and truncates (`WriteSummary`, `WriteRolling`,
`ArchiveSource`, `EditNote`, through `Put`) and one that fills (`FillSummary`,
`FillSource`, `SaveEdit`). In between a reader finds an empty file (`File`), and
a failure or a crash leaves one (`FailWrite`, `FailEdit`, `Crash`, through
`CutOff`), which is then read, edited, folded and archived like any other.
`createNote` takes no lock, so a write may meet it in the file; one of the two
texts wins. `torn` has the notes with a write that was cut off or met another.
`notes` has the notes as they are once the writes under way are done. `torn`
and `seen`, the text of each source that a summary was made from, are not in
the program.

### SearchIndex

`rebuildIndex` lists the registered vaults in order and walks each: claim a
path for the first vault that lists it and whose allowlist lets it in
(`allowed`), compare the modification time (incremental) or not (full), read,
store, stamp. `Rebuilds` of them overlap, as the interval, `/repair` and the
dashboard start them without waiting, beside `indexNote` (read, then store),
`removeFromIndex` and editors that change the files. `readNote`, and with it
`indexNote`, looks for a file in every vault and knows no allowlist, so it may
put another copy into the index than a rebuild does, or one that no rebuild
would (`Readable` beside `Indexable`). A file is the number of the write that
made it: text and modification time at once. `written` and `deleted` have the
paths that a tool has changed and not yet told the index of. `isFirstBuild` and
`changed` carry the forced full rebuild after a change of the source vaults.
`calm` is history: the full rebuilds that nothing has disturbed.

### VectorIndex

Ids are the labels of hnswlib; a vector that is marked deleted counts as none,
for a search never returns it and adding an id again makes it live. A sync or a
full build takes one note, awaits its embedding, and uses the id it read before;
`embedAndIndex` awaits first and then reads. `persistIndex` renames two files
one after the other, so a restart may find files of different indexes. Loading
the index and the begin of the boot sync are one step (`Ready`): the
continuation that starts the sync is queued before any request is served.
`sound` is history: no step mixed the ids of two indexes. The capacity of the
index is left out.

### Dreams

Time is the day; `quiet` says that `idleMs` have passed since the last activity.
A note is its heat, the day of its last access, the day until which it has
cooled (`last_decayed`, or none for captures) and its archived flag. A run is a
job of the scheduler, a tool call or the dashboard's button in the middle of
`decayMemories` or `autoArchiveColdMemories`: it has a clock and candidates of
the index, both from when the phase began, and the note that it has read and
not yet written. `DecayWrite` passes the etag, `ArchiveWrite` does not. A
call by a user (`promoteOnAccess`, `touchRecalledMemories`, `memory_promote`,
`notes_upsert`, `notes_archive`, the scores of `memory_temperature_refresh`) is a
read and a later write without the etag. `running` is the flag of `runJobOnce`;
`FireIdle` claims the edge and begins the dream. `since` and `dreamt` are history.

The index may be behind for good: `docMeta` is the entry of a note, `stamped`
the notes whose present modification time the index has recorded. An
incremental rebuild (`Rescan`) takes up what has another time, records it first
and may then fail to read; a full one reads (`RescanFull`), stores and records
the time of a file that may have been written since (`StoreFull`). A note whose
recorded time is its own and whose entry is not is `Forgotten`.

One unit of heat goes per unit of decay: the factors of category and importance,
and the shorter clock of low-importance captures, are left out. So are notes
without `last_accessed`, which a replacement by `notes_upsert` may make (it may
also drop `last_decayed`, which the model has). A write and the `indexNote` after
it are one step that may leave the index as it was.
Jobs that `main` registers are never replaced or cancelled.

## 3. Runs

| Run | Question | Instance | Result |
|---|---|---|---|
| `IndexRequests` | does the queue keep its promises under any callers, and implement `IndexJobs`? | 2 repositories, the server and one owner, 1 path, 2 slugs, 2 attempts, 3 enqueues | 719 444 states, holds |
| `IndexDaemon` | with faults, does every request end and the daemon always poll again? | 1 checkout that may change its id, 1 edit, 1 push by another process with its own database, 2 enqueues, 2 attempts | 337 494 states, holds |
| `IndexDaemon_fresh` | is a completed request as fresh as it was asked for? | no faults | violated: a push is prepared, the tree edited, a query misses the edit, the push completes its request |
| `KnowledgeGraph` | intervals, links, history, as-of answers | 2 functional keys, one of them edited by hand, 3 objects, 2 times, 4 rows | 209 305 states, holds |
| `NoteStore` | is the lock a lock, is If-Match kept, does everyone finish? | 2 writers, 1 creator, 1 path | 41 416 states, holds |
| `Sessions` | cap, forgetting, flushing | 3 ids, 2 initialisations at a time, 2 live, 2 records, 1 tool call, 2 ticks | 483 406 states (up to symmetry), holds |
| `Consolidation` | is text kept, are archived notes found from their summary, does the dream hide only what it read? | 2 notes, 2 clusters (one with the rolling summary), 4 selections of the series, 2 calls at a time, 1 edit, 2 notes with a write cut off | 389 087 states (up to symmetry), holds |
| `Consolidation_cycle` | does every archived note lead to an active one? | the same without edits and torn writes, 3 calls one after the other | violated |
| `SearchIndex` | do the indexes agree, do ghosts leave, does a full rebuild repair, does the index come to rest? | 1 path, 2 vaults, the second with any allowlist, 2 rebuilds and 1 `indexNote` at a time, 3 writes, 1 upset (a forced full rebuild, a change of the vaults or a failure) | 1 597 831 states, holds |
| `SearchIndex_edits` | is a note that is left alone indexed in the end? | 1 path, 1 vault, 1 rebuild, 2 writes, no upset | violated |
| `VectorIndex` | is an id of one note, is the recorded hash true, does a note stay findable, does a boot heal? | 2 notes, 2 builds and 1 embedding at a time, 3 ids, 2 writes, 2 repairs or restarts, 1 failure | 4.56 million states (up to symmetry), holds |
| `Dreams` | does heat follow time alone, does a note left alone cool, is every burst dreamt of, and once? | 1 note, 2 jobs, 1 tool, 1 user call at a time, 3 days, 2 activities, 1 failure or full rebuild | 1 445 418 states, holds |

Why the bounds are enough. *IndexRequests*: two repositories contend for one
path and for slugs; three enqueues give a resolved, a failed and an open row of
one repository; two attempts separate the first from the last serve; a
reclaim age of one tick separates a fresh from a lapsed claim. A second owner
would share nothing with the first but the repositories' slugs, which the
server's own machine already contends for. *IndexDaemon*: the backoff is longer
than the reclaim age, as in the code (one hour, five minutes); one edit is enough for a
tree to differ from what a push had read, and one push by another process is
prepared before or after the edit, whole or in part. *KnowledgeGraph*:
three objects give two rivals of a new value; four rows give a value that is
replaced, returns and is replaced again. *NoteStore*: clients touch one path and
its lock, so paths are independent; with two writers that come again the chain
grows at one end while it shrinks at the other (three writers were tried, 1.5
million states, with the same outcome). *Sessions*: one id more than may live
or be kept in the file makes both cuts frequent, and two initialisations at a
time may be of one id or of two that need the same room; two ticks separate
idle, old and fresh. *Consolidation*: the rolling summary can be distilled with
a note, and what comes of that is selected by the series, so every way in which a
summary becomes a source is there; two calls meet at one target or share
sources, and one meets what an edit, a crash or a failure of the other has left
(two files can be open at a time, so a crash may tear both). A third call
follows what two have left in the run of the cycle. *SearchIndex*: what a rebuild
does to a path depends on no other, and two vaults contend for it; two rebuilds
are enough for one to store what it read before the other began anew; three
writes give each vault a copy and one of them a second, and the one upset is
a disturbance of a system whose timers, tools and editors already overlap.
*VectorIndex*: with two notes an id can pass from one to the other, and three
ids let a note be embedded anew while both have theirs. *Dreams*: what a run does to a
note depends on no other; with thresholds of no, one and two days the three days
have one without decay, one of the first slope and one of the second, on which a
cold note is archived; two runs and a tool overlap, and the last day stands for
those that follow. One upset is a full rebuild that loses an edit, a note that
the index fails to read, or a failure of a write. Two
activities are enough for one during the dream that follows the other, or a
restart after it.

Deadlock is checked in every run but `VectorIndex`, where the bounds on ids,
writes and builds leave states in which nothing more may happen; it has no
liveness property. Only `Sessions`, `VectorIndex` and `Consolidation` use symmetry (of ids and of
initialisations, of notes and builds, of calls, which the models only ever
compare for equality), with invariants and properties of single steps; the runs with
liveness properties must not.

Fairness. `IndexDaemon` assumes that a running daemon polls and goes on with
its batch (its loop has no other wait than the HTTP timeouts), that the server
finishes a push it began (the handler's only await is on local files), and that
time passes. It does not assume that any call succeeds, that the user repairs a
checkout, or that nobody restarts. `NoteStore` assumes that a call that has begun
goes on: file operations complete or fail, and continuations of settled
promises run; `Fail` is an outcome of such a step, and new calls are not
required to begin. `SearchIndex` assumes that the file operations of a rebuild
or an update return, and that its timer fires (the interval rebuild and the reindex after a
change of the source vaults); nothing is assumed of editors or tools.
`Dreams` assumes that the file operations of jobs and rebuilds return, that the
timers of the registered jobs fire when their flag is down, that the interval
rebuilds the index, and that time passes: days go by, and a server that gets no
calls becomes quiet. Nothing is assumed of tools and users: no call has to
happen, and one that has begun may hang. Nor does a rebuild have to take up
what was written: `CoolsWithTime` says which note it is about instead. Which
step of a run succeeds is open; failures are bounded by `MaxFails`, as in every
run with liveness: a file that can never be written never cools.

## 4. Proofs

For any number of repositories, machines, paths, slugs and queries
(`IndexDaemon_proofs`), of keys, objects, times and rows
(`KnowledgeGraph_proofs`), of clients and paths (`NoteStore_proofs`), of
sessions and initialisations, caps and times (`Sessions_proofs`), of notes,
groups and calls (`Consolidation_proofs`), of paths, vaults, rebuilds and updates
(`SearchIndex_proofs`), of notes, builds, updates and files
(`VectorIndex_proofs`), of notes, days, heats, jobs, tools and users
(`Dreams_proofs`), from the named assumptions on the constants alone:

- *IndexRequests.* `TypeOK`; `OneOutstanding` (inductive with types: what the
  partial unique index does for the code, `NewRequests` does by looking at the
  open rows, and every other action only closes rows or changes them in place);
  `ServesBounded`, whose second conjunct, that a pending row has never been
  served, is what makes the third (a failed row was served `MaxAttempts` times)
  inductive; `CheckoutOwnedOnce`, which rests on `TakenOver` leaving no holder of
  the path but the incoming repository; the action property
  `ResolvedIsFinal`; and the refinement `ImplementsJobs`. For the last, each
  handler is shown to replace open rows by rows of the same identity or to add
  rows where none is open, so that at any repository and machine at most one job
  changes. That a job given up counts once needs `RowsApart`: no two rows of
  a repository and machine share `requested_at`, so a row that fails becomes one
  that was not there.
- *IndexDaemon.* Every step of the loop is a step of the queue or leaves its
  tables alone (`CallsAreLegal`): the daemon and the other processes name only
  paths, repositories and slugs that the queue knows, which needs the types of
  the loop's own variables (`DTypeOK`) and that a daemon that does not sleep has
  an entry to work on (`Busy`). So the invariants of the queue hold in the loop
  (`LoopKeepsQueue`), and it implements `IndexJobs` although it begins with
  checkouts that were pushed before (`LoopImplementsJobs`). `DoneHasSymbols`
  needs that checkouts and requests are of repositories that have a row
  (`ForeignKeys`), that what a push may leave is a version (`StoresTyped`), also
  under an id and a time that come from the CLI's database, and that a repository
  under a push has symbols as soon as it has a checkout or a request
  (`HasSymbols`): when it is dropped meanwhile,
  nothing can ask for it again before the push ends. `NobodyWaitsForNothing`
  is a part of `PollsAgain` that needs no fairness: who waits for a push waits
  for one that the server has under way, each for its own.
- *KnowledgeGraph.* `TypeOK` with unique ids, `OneOpenInterval`, `HistoryKept`,
  `SupersessionLeavesOne`, `LinksEnd`, `AsOfUnique`. Every action is first shown to be a
  `RowStep`: rows are closed or one open row is added, and links are set only
  on rows that close. `LinksEnd` needs more than itself: open rows have no link
  (`OpenUnlinked`) and a link once set stays (`LinksKept`); a new link leads
  from a row that had none to one that is open, so no set of linked rows can
  close a circle (`NoLinkCycle`). `AsOfUnique` is not inductive: two intervals that
  do not overlap may be made to by the next value. Its invariant (`OneValue`)
  describes the rows of a key as a chain: one is open as soon as there is any,
  and of two rows one is closed before the other begins, as long as the notes came
  in the order of their event times.
- *NoteStore.* `WritesSerial` says that a chain of promises is a lock. The
  inductive invariant `ChainInv` describes the chain: who waits, waits for an
  active client of the same path (`Waiters`), no two clients wait for the same
  one (`OneSuccessor`), the map holds a client nobody waits for (`TailIsEnd`) as
  long as anybody is active (`TailKept`), and every set of active clients of a
  path has one that waits for none of the set (`Grounded`), so that two
  clients without predecessor would both reach the one tail. TLC checked
  `ChainInv` with three writers before it was proved. `MatchedKeepsWrites`
  follows from the lock and from `CreatorsOnlyCreate`. `LockNeverBlocks` is what
  `WritersFinish` needs of the chain: the writers of a path are such a set, so one
  of them waits for nobody (`Grounded`), and who it waited for before is done.
- *Sessions.* `TypeOK`, which says that metadata exists only for ids that are neither
  live nor being initialised. `CapHeld` is inductive by a count: the end of an
  initialisation evicts at least as many sessions as the map would be too
  large by and stores one, and no other step adds a session. `ClosedForgotten`
  needs that a closed session is in neither map (`ClosedGone`), since a flush
  writes both; `ClosedGone` needs the type invariant for the metadata of an id
  whose initialisation ends.
  `CallsFlushed` follows from what a flush writes (`SaveWrites`) and from every
  other change of a history setting the flag (`ClosedSteps`).

- *Consolidation.* `TypeOK`, `LinkedBack`, `KeepsText`, `AutoHidesWhatItRead`, each
  of them for writes in two steps that may be cut off, and each saying nothing
  of a note whose own write was: it may have lost its text or its list, and a
  note archived into it has lost its way back. Nothing else is lost with it.
  The invariant adds to the types and to `LinkedBack` that what the dream and the
  tool make lists the sources its path is made of (`NamedBySources`), and what
  each call under way knows (`CallOK`), but of torn notes: its sources are read,
  the rolling summary still lists what the call saw listed (`ListKept`), and once
  it archives, its summary is in the vault, lists them and was made from what it read
  (`SummaryFirst`). Every action is first shown to be a step in which no note
  that is not torn loses text or list (`Grows`, `VaultStep`); what a call knows
  survives every such step of another.
- *SearchIndex.* `TypeOK` and `SameIds`, which needs that a rebuild about to
  store has a text (`StoresText`): a path with an empty text would be in one
  index only. `FullRebuildIsExact` says what the end of a full rebuild leaves; the
  invariant says what it has left so far (`ExactSoFar`): the vaults are walked in
  their order (`WalksInOrder`), a path is claimed by the first that has it, of
  those already walked (`ClaimsFirst`), the two indexes and the recorded times
  are those of the claimed copies (`MadeBy`), except for what is in the call's
  hand (`HoldsClaimed`). At the end all are walked, and the claimed copy is that
  of the first vault that has one which its allowlist lets in. That `readNote` finds the same
  copy is not claimed, and does not hold: it knows no allowlist.
- *VectorIndex.* `TypeOK` and `HashIsVector`. Ids are handed out in order, so an id
  below `nextId` is never given again (`Apart`, of the live maps and of the saved
  ones). A sync holds an id over its embedding; the invariant says that this id is
  of the note in its hand or of none any more (`OldIdsOwn`), so that `Put` cannot
  take another note's vector. It fails only when a full build starts the ids
  anew under a sync: `sound` is false then, and the id half of `HashIsVector`
  holds all the same. `StaysFindable` needs that a fresh id is nobody's (`Fresh`)
  and that the id in a call's hand leads to its note or nowhere (`OldIdsLead`), so
  that a new vector hides no other note. `Heals` is proved by how far an
  undisturbed build or sync has come (`HealingBy`): each note has one vector
  at most, what is left to do is what the vault holds, and what is passed is
  healed.
- *Dreams.* `TypeOK`, which bounds the heat, `DecayByTime` and `BurstsKept`. The
  invariant adds that a run that is about to write a note has found decay due in
  what it read (`DecayIsDue`). Two decays, one after the other, are as one
  (`TwoDecays`) only if the second has a later day in units than the first:
  otherwise the cut at zero between them would lose heat for good. The etag gives
  that the note is still what the run read (`DecayWriteStep`); every other write
  begins a new history. `BurstsKept` is the part of `EveryBurstDreams` that needs
  no fairness: the flag of a job is up exactly while its run is under way
  (`FlagsMatchRuns`), and the idle edge is claimed only together with a dream
  that begins (`ClaimedIsDreamt`), so a burst without a dream finds one under
  way or due.

Every invariant and every action property of the passing runs, and the
refinement, is stated by one of these theorems. Only model-checked is liveness
under fairness (`PollsAgain`, `RequestsEnd`, `WritersFinish`, `GhostsLeave`,
`Settles`, `CoolsWithTime`, `EveryBurstDreams`), since a proof of it rests on
ENABLED, which the prover does not have. `NobodyWaitsForNothing`,
`LockNeverBlocks` and `BurstsKept` say of three of them what needs no fairness:
nobody waits for what will not come.

## 5. Not modelled

The components with status `not_modelled` in `PROJECT.json`, with the reason.
Within the modelled ones: symbol, import and call rows (only their presence
and version), the text and the fuzzy matching of facts, id collisions by hash,
`moveNote` (no caller), directories, symbolic links and path checks, the lag of
the vault registry, queries and ranking over the indexes, the capacity of the
vector index, what makes notes similar, the phases of the dream that report,
link or demote, the factors of decay, notes without `last_accessed`.

In `IndexDaemon` the clocks of machine and server agree and an edit gives new
modification times; symbols that a partial push leaves of removed files are not
counted; which of the paths it has for a slug the CLI takes is left open, and
so is its local table of savings. In `Consolidation` a write that is cut off
leaves an empty file, never a part of the text, and of two writes that meet in
a file one wins; the date in a path is one day.

## 6. Disagreements found

Three have a run that TLC finds violated, with the quotation in `PROJECT.json`:

- a push completes requests that are younger than its snapshot: it is prepared,
  the tree edited, a query misses the edit and asks for it, and the push,
  stored before or after the query, completes the request (`DoneIsFresh`);
- the rolling summary and a note made of it are archived into each other, and
  recall shows neither (`NoSelfFold`);
- a note saved between the read and the stat of a full rebuild is taken to be
  indexed until it is saved again (`EditsArePickedUp`).

Others are in what the models do, and no run is kept for them:

- a checkout whose repository id changes but whose slug does not loses its
  path: `code_ingest_repo` takes it from the old repository before the UNIQUE
  slug refuses the new one, and the checkout belongs to nobody until it is
  registered anew or the old one is pushed again (`IngestRefused`);
- the CLI's own database refuses a second repository of a slug, so after a
  checkout changes its id partial pushes go on under the old one (`CliPull`,
  `CliIncrement`);
- the daemon's backoff of an hour uses up the attempts of a request that the
  server reclaims every five minutes (`Pass`, `Claim`);
- a late note of an older event replaces a later value (`Supersede`);
- a write of the rolling summary that is cut off empties it, with the list of
  sources that are archived already, and one of a source empties the source
  (`FailWrite`, `Crash`), where `server/lib/memory-lifecycle.ts:322` says
  "consolidation can never destroy unique information";
- a deletion and a creation may come between an If-Match check and its write
  (`Delete` and `Create` take no lock);
- the 404 after a restart deletes the metadata that the re-initialisation it
  asks for would restore, so the session comes back without its history
  (`Unknown`, `server/index.ts:2048`);
- an embedding that returns after its note was removed leaves a vector that is
  found until the next boot (`EmbedAndIndex` after `Remove`);
- `embedAndIndex` hashes the text without the title, the builds with it, so a
  note that was indexed alone is embedded again at the next boot (`Body`,
  `Doc`);
- a save of the vectors that is torn after a full build leaves vectors under the
  ids of other notes: a search finds the wrong note, and the boot sync leaves
  both alone while their hashes are the same (`Persist`, `sound` of `VectorIndex`);
- the allowlist of a source vault keeps a note from the index at a rebuild, and
  `indexNote` puts it there all the same, for it finds its note by `readNote`,
  which knows no allowlist (`Readable`);
- a note that a full rebuild has forgotten is no candidate of the decay by its
  present heat and keeps it (`Forgotten`);
- archiving and promoting write without the etag: a cold note that is promoted
  while the refresh has it in hand is archived all the same, with its old heat
  (`ArchiveWrite`);
- a dream follows the begin of a call, so what a long call changes after its
  idle dream waits for the next one (`MarkActivity`).

## 7. Plan

1. `Registry`: writers of the vault registry through one temporary file, and
   boot from it before `CODE_REPOS`.
2. `MemoryIngest` (duplicate checks over awaits), `Worker` (slots, budgets and
   the release of a slot on every exit), `SourceVaults` (refresh against
   readers).
3. Proofs: safety halves of the other liveness properties (a ghost of
   `SearchIndex` is seen by the next rebuild, a note that has not cooled is a
   candidate once the index has it), and the new modules' invariants.
