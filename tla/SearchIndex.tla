------------------------------ MODULE SearchIndex ------------------------------
(***************************************************************************)
(* The lexical search index (lib/search.ts): rebuildIndex over the brain   *)
(* vault and the source vaults, full or incremental by modification time,  *)
(* indexNote after a tool has written a note and removeFromIndex after one *)
(* has deleted it. A rebuild awaits the list of every vault and the stat   *)
(* and the read of every file, and others run in between: another rebuild  *)
(* (the interval does not wait for the last one, /repair and the dashboard *)
(* start theirs), indexNote, and editors that change the vaults.           *)
(*                                                                         *)
(* A vault is a number: 1 is the brain, the source vaults follow in the    *)
(* order in which rebuildIndex walks them and readNote looks for a file.   *)
(* A file is the number of the write that made it, which is its text and   *)
(* its modification time at once; 0 is no file. A list of a vault is one   *)
(* step. The allowlist of a source vault shortens its list; readNote, and  *)
(* with it indexNote, looks for a file in every vault, allowed or not. The *)
(* fields that an entry takes from a note are left out.                    *)
(***************************************************************************)
EXTENDS Naturals

CONSTANTS
    Paths,      \* vault-relative paths
    NumVaults,  \* the brain and the source vaults that may be registered
    Rebuilds,   \* calls of rebuildIndex that may overlap
    Indexers,   \* calls of indexNote that may overlap
    None,       \* no path
    MaxWrites,  \* bound: writes of files
    MaxUpsets   \* bound: forced full rebuilds, changes of the source vaults, and failing
                \* lists, stats and reads

ASSUME ConstantsTyped ==
    /\ NumVaults \in Nat \ {0} /\ MaxWrites \in Nat \ {0}
    /\ MaxUpsets \in Nat
    /\ None \notin Paths

Vaults == 1 .. NumVaults
Version == 0 .. MaxWrites

\* The brain has no allowlist; a source vault may have one, or none.
Allowlists == {a \in [Vaults -> SUBSET Paths] : a[1] = Paths}

VARIABLES
    files,      \* the vaults: the file at a path, or 0
    known,      \* listSourceVaultPaths: the registered vaults, with the brain
    allowed,    \* the paths that the allowlist of a vault lets into the index
    changed,    \* the source vaults changed and their reindex has not begun
    isFirstBuild,
    docMeta,    \* the text that docMeta has for a path, or 0
    miniSearch, \* the text that MiniSearch has for a path, or 0
    fileMtimes, \* the modification time last recorded for a file, or 0
    rebuild,    \* the rebuilds under way
    indexing,   \* the calls of indexNote that have read their file
    written,    \* paths that a tool has written and not yet called indexNote for
    deleted,    \* paths that a tool has deleted and not yet removed from the index
    up,         \* the first rebuild is over and the server accepts calls
    calm,       \* history: full rebuilds that nothing has disturbed since they began
    writes, forced, fails   \* counters, for the bounds

index == <<isFirstBuild, docMeta, miniSearch, fileMtimes>>
world == <<files, known, allowed, changed, written, deleted>>
counters == <<writes, forced, fails>>
state == <<world, index, rebuild, indexing, up, counters>>
vars == <<state, calm>>

Call == [at : {"idle", "walk", "stat", "read", "store", "stamp"},
         vaults : SUBSET Vaults, vault : Vaults, todo : SUBSET Paths,
         path : Paths \cup {None}, text : Version,
         claimedBy : [Paths -> 0 .. NumVaults], seenFiles : SUBSET (Vaults \X Paths)]

TypeOK ==
    /\ files \in [Vaults -> [Paths -> Version]]
    /\ known \in SUBSET Vaults /\ 1 \in known
    /\ allowed \in Allowlists
    /\ changed \in BOOLEAN /\ isFirstBuild \in BOOLEAN /\ up \in BOOLEAN
    /\ docMeta \in [Paths -> Version] /\ miniSearch \in [Paths -> Version]
    /\ fileMtimes \in [Vaults -> [Paths -> Version]]
    /\ rebuild \in [Rebuilds -> Call]
    /\ \A b \in Rebuilds :
         rebuild[b].at \in {"stat", "read", "store", "stamp"} => rebuild[b].path \in Paths
    /\ indexing \in [Indexers -> [path : Paths, text : Version \ {0}] \cup {None}]
    /\ written \subseteq Paths /\ deleted \subseteq Paths /\ calm \subseteq Rebuilds
    /\ writes \in Version /\ forced \in 0 .. MaxUpsets /\ fails \in 0 .. MaxUpsets

\* The first vault of a set, in the order of the walk.
First(S) == {v \in S : \A w \in S : v <= w}

Empty == [p \in Paths |-> 0]
Idle == [at |-> "idle", vaults |-> {}, vault |-> 1, todo |-> {}, path |-> None,
         text |-> 0, claimedBy |-> Empty, seenFiles |-> {}]

\* The process starts with some files in the vaults; nothing is kept of an older index.
Init ==
    /\ files \in [Vaults -> [Paths -> {0, 1}]]
    /\ known = Vaults /\ allowed \in Allowlists
    /\ changed = FALSE /\ isFirstBuild = TRUE
    /\ docMeta = Empty /\ miniSearch = Empty
    /\ fileMtimes = [v \in Vaults |-> Empty]
    /\ rebuild = [b \in Rebuilds |-> Idle]
    /\ indexing = [i \in Indexers |-> None]
    /\ written = {} /\ deleted = {}
    /\ up = FALSE /\ calm = {}
    /\ writes = 1 /\ forced = 0 /\ fails = 0

-----------------------------------------------------------------------------
(* rebuildIndex.                                                             *)

\* Plausible bug: MiniSearch is not created anew.
ClearHalf(full) ==
    IF full
    THEN /\ docMeta' = Empty
         /\ fileMtimes' = [v \in Vaults |-> Empty]
         /\ UNCHANGED miniSearch
    ELSE UNCHANGED <<docMeta, miniSearch, fileMtimes>>

\* What a rebuild clears before its first await.
Clear(full) ==
    IF full
    THEN /\ docMeta' = Empty /\ miniSearch' = Empty
         /\ fileMtimes' = [v \in Vaults |-> Empty]
    ELSE UNCHANGED <<docMeta, miniSearch, fileMtimes>>

Start(b, full) ==
    /\ rebuild[b].at = "idle"
    /\ Clear(full)
    /\ rebuild' = [rebuild EXCEPT ![b] = [Idle EXCEPT !.at = "walk", !.vaults = known]]

\* main() builds the index before it accepts calls.
Boot(b) ==
    /\ ~up /\ \A c \in Rebuilds : rebuild[c].at = "idle"
    /\ Start(b, isFirstBuild)
    /\ UNCHANGED <<world, isFirstBuild, indexing, up, counters>>

\* The interval, or the button of the dashboard.
Interval(b) ==
    /\ up
    /\ Start(b, isFirstBuild)
    /\ UNCHANGED <<world, isFirstBuild, indexing, up, counters>>

\* forceFullRebuild and rebuildIndex, from /repair and index_repair.
Repair(b) ==
    /\ up /\ forced + fails < MaxUpsets
    /\ Start(b, TRUE)
    /\ isFirstBuild' = TRUE
    /\ forced' = forced + 1
    /\ UNCHANGED <<world, indexing, up, writes, fails>>

\* reindexSourceVaults, some time after the source vaults changed.
Reindex(b) ==
    /\ up /\ changed
    /\ Start(b, TRUE)
    /\ isFirstBuild' = TRUE
    /\ changed' = FALSE
    /\ UNCHANGED <<files, known, allowed, written, deleted, indexing, up, counters>>

Walking(c) == c.at = "walk"

\* Plausible bug: the vaults are listed at once and walked as their lists arrive.
NextVaultAny(c) == c.vaults

\* The vaults are walked in their order.
NextVault(c) == First(c.vaults)

\* isPathIndexable: a vault that is no source vault, or is none any more, has no allowlist.
Indexable(v, p) == v \in known => p \in allowed[v]

\* The next vault is listed; one whose list fails is passed over.
ListVault(b) ==
    LET c == rebuild[b]
        Listed(v, todo) == [c EXCEPT !.vaults = @ \ {v}, !.vault = v, !.todo = todo]
    IN  /\ Walking(c) /\ c.todo = {} /\ c.vaults # {}
        /\ \E v \in NextVault(c) :
             \/ /\ rebuild' = [rebuild EXCEPT ![b] = Listed(v, {p \in Paths : files[v][p] # 0 /\ Indexable(v, p)})]
                /\ UNCHANGED fails
             \/ /\ forced + fails < MaxUpsets /\ fails' = fails + 1
                /\ rebuild' = [rebuild EXCEPT ![b] = Listed(v, {})]
        /\ UNCHANGED <<world, index, indexing, up, writes, forced>>

\* Plausible bug: a path that an earlier vault has claimed is visited again.
SkippedNever(c, p) == FALSE

Skipped(c, p) == c.claimedBy[p] \notin {0, c.vault}

\* The next file of the list. A path that an earlier vault has claimed is skipped; only an
\* incremental rebuild asks for the modification time.
NextFile(b) ==
    LET c == rebuild[b]
    IN  /\ Walking(c)
        /\ \E p \in c.todo :
             LET d == [c EXCEPT !.todo = @ \ {p}]
             IN  rebuild' = [rebuild EXCEPT ![b] =
                    IF Skipped(c, p) THEN d
                    ELSE [d EXCEPT !.claimedBy[p] = c.vault,
                                   !.seenFiles = @ \cup {<<c.vault, p>>},
                                   !.path = p,
                                   !.at = IF isFirstBuild THEN "read" ELSE "stat"]]
        /\ UNCHANGED <<world, index, indexing, up, counters>>

\* A file whose time is the recorded one is skipped. The time is recorded before the
\* file is read. A stat that fails, or finds no file, goes on to the read.
Stat(b) ==
    LET c == rebuild[b]  p == c.path  mtime == files[c.vault][p]
    IN  /\ c.at = "stat"
        /\ \/ /\ mtime # 0 /\ fileMtimes[c.vault][p] = mtime
              /\ rebuild' = [rebuild EXCEPT ![b].at = "walk"]
              /\ UNCHANGED <<fileMtimes, fails>>
           \/ /\ mtime # 0 /\ fileMtimes[c.vault][p] # mtime
              /\ rebuild' = [rebuild EXCEPT ![b].at = "read"]
              /\ fileMtimes' = [fileMtimes EXCEPT ![c.vault][p] = mtime]
              /\ UNCHANGED fails
           \/ /\ mtime = 0
              /\ rebuild' = [rebuild EXCEPT ![b].at = "read"]
              /\ UNCHANGED <<fileMtimes, fails>>
           \/ /\ forced + fails < MaxUpsets /\ fails' = fails + 1
              /\ rebuild' = [rebuild EXCEPT ![b].at = "read"]
              /\ UNCHANGED fileMtimes
        /\ UNCHANGED <<world, isFirstBuild, docMeta, miniSearch, indexing, up, writes, forced>>

\* A file that is gone or cannot be read is passed over.
Read(b) ==
    LET c == rebuild[b]  text == files[c.vault][c.path]
    IN  /\ c.at = "read"
        /\ \/ /\ text # 0
              /\ rebuild' = [rebuild EXCEPT ![b].at = "store", ![b].text = text]
              /\ UNCHANGED fails
           \/ /\ text = 0
              /\ rebuild' = [rebuild EXCEPT ![b].at = "walk"]
              /\ UNCHANGED fails
           \/ /\ text # 0 /\ forced + fails < MaxUpsets /\ fails' = fails + 1
              /\ rebuild' = [rebuild EXCEPT ![b].at = "walk"]
        /\ UNCHANGED <<world, index, indexing, up, writes, forced>>

\* The text that was read becomes the entry. MiniSearch refuses a path that it has: an
\* incremental rebuild discards that first, a full one has cleared the index before.
Store(b) ==
    LET c == rebuild[b]  p == c.path
        refused == miniSearch[p] # 0 /\ (isFirstBuild \/ docMeta[p] = 0)
    IN  /\ c.at = "store"
        /\ docMeta' = [docMeta EXCEPT ![p] = c.text]
        /\ IF refused
           THEN /\ rebuild' = [rebuild EXCEPT ![b].at = "walk", ![b].text = 0]
                /\ UNCHANGED miniSearch
           ELSE /\ miniSearch' = [miniSearch EXCEPT ![p] = c.text]
                /\ rebuild' = [rebuild EXCEPT ![b].text = 0,
                                  ![b].at = IF isFirstBuild THEN "stamp" ELSE "walk"]
        /\ UNCHANGED <<world, isFirstBuild, fileMtimes, indexing, up, counters>>

\* A full rebuild records the time after the read.
Stamp(b) ==
    LET c == rebuild[b]  mtime == files[c.vault][c.path]
    IN  /\ c.at = "stamp"
        /\ \/ /\ mtime # 0
              /\ fileMtimes' = [fileMtimes EXCEPT ![c.vault][c.path] = mtime]
              /\ UNCHANGED fails
           \/ /\ mtime = 0
              /\ UNCHANGED <<fileMtimes, fails>>
           \/ /\ forced + fails < MaxUpsets /\ fails' = fails + 1
              /\ UNCHANGED fileMtimes
        /\ rebuild' = [rebuild EXCEPT ![b].at = "walk"]
        /\ UNCHANGED <<world, isFirstBuild, docMeta, miniSearch, indexing, up, writes, forced>>

\* Plausible bug: the entries that no vault claimed are kept.
PrunedNever(text, c) == text

\* The entries of the paths that a vault has claimed.
Pruned(text, c) == [p \in Paths |-> IF c.claimedBy[p] = 0 THEN 0 ELSE text[p]]

\* Only an incremental rebuild prunes; both leave the next one incremental.
Finish(b) ==
    LET c == rebuild[b]
    IN  /\ Walking(c) /\ c.todo = {} /\ c.vaults = {}
        /\ IF isFirstBuild
           THEN UNCHANGED <<docMeta, miniSearch, fileMtimes>>
           ELSE /\ docMeta' = Pruned(docMeta, c)
                /\ miniSearch' = Pruned(miniSearch, c)
                /\ fileMtimes' = [v \in Vaults |-> [p \in Paths |->
                        IF <<v, p>> \in c.seenFiles THEN fileMtimes[v][p] ELSE 0]]
        /\ isFirstBuild' = FALSE
        /\ rebuild' = [rebuild EXCEPT ![b] = Idle]
        /\ up' = TRUE
        /\ UNCHANGED <<world, indexing, counters>>

-----------------------------------------------------------------------------
(* indexNote and removeFromIndex.                                            *)

\* Plausible bug: the vault is chosen without a look for the file.
ReadableBlind(p) == known

\* readNote takes the file of the first vault that has one.
Readable(p) == {v \in known : files[v][p] # 0}

\* A tool indexes the note that it has written; one that is gone by now cannot be read.
IndexNote(i, p) ==
    /\ p \in written /\ indexing[i] = None
    /\ written' = written \ {p}
    /\ \/ \E v \in First(Readable(p)) :
             indexing' = [indexing EXCEPT ![i] = [path |-> p, text |-> files[v][p]]]
       \/ Readable(p) = {} /\ UNCHANGED indexing
    /\ UNCHANGED <<files, known, allowed, changed, deleted, index, rebuild, up, counters>>

\* The old entry is discarded, so nothing is refused; fileMtimes is left alone.
IndexNoteStore(i) ==
    LET n == indexing[i]
    IN  /\ n # None
        /\ docMeta' = [docMeta EXCEPT ![n.path] = n.text]
        /\ miniSearch' = [miniSearch EXCEPT ![n.path] = n.text]
        /\ indexing' = [indexing EXCEPT ![i] = None]
        /\ UNCHANGED <<world, isFirstBuild, fileMtimes, rebuild, up, counters>>

RemoveFromIndex(p) ==
    /\ p \in deleted
    /\ deleted' = deleted \ {p}
    /\ docMeta' = [docMeta EXCEPT ![p] = 0]
    /\ miniSearch' = [miniSearch EXCEPT ![p] = 0]
    /\ UNCHANGED <<files, known, allowed, changed, written, isFirstBuild, fileMtimes, rebuild,
                   indexing, up, counters>>

-----------------------------------------------------------------------------
(* The vaults.                                                               *)

\* An editor, or a tool that does not index it, writes a file in any vault, or an editor
\* deletes one; a tool writes a note of the brain and indexes it next.
Write(v, p) ==
    /\ writes < MaxWrites
    /\ writes' = writes + 1
    /\ \/ /\ files' \in {[files EXCEPT ![v][p] = writes + 1], [files EXCEPT ![v][p] = 0]}
          /\ UNCHANGED written
       \/ /\ up /\ v = 1
          /\ files' = [files EXCEPT ![v][p] = writes + 1]
          /\ written' = written \cup {p}
    /\ UNCHANGED <<known, allowed, changed, deleted, index, rebuild, indexing, up, forced, fails>>

\* deleteNote of a tool that removes the note from the index next.
DeleteNote(p) ==
    /\ up /\ writes < MaxWrites /\ files[1][p] # 0
    /\ writes' = writes + 1
    /\ files' = [files EXCEPT ![1][p] = 0]
    /\ deleted' = deleted \cup {p}
    /\ UNCHANGED <<known, allowed, changed, written, index, rebuild, indexing, up, forced, fails>>

\* A source vault is added, with an allowlist or without, or removed while the server runs.
ChangeSources(v) ==
    /\ up /\ v # 1 /\ forced + fails < MaxUpsets
    /\ forced' = forced + 1
    /\ known' = IF v \in known THEN known \ {v} ELSE known \cup {v}
    /\ allowed' \in {a \in Allowlists : \A w \in Vaults : w # v \/ v \in known => a[w] = allowed[w]}
    /\ changed' = TRUE
    /\ UNCHANGED <<files, written, deleted, index, rebuild, indexing, up, writes, fails>>

Step(b) ==
    ListVault(b) \/ NextFile(b) \/ Stat(b) \/ Read(b) \/ Store(b) \/ Stamp(b) \/ Finish(b)

Begin(b) == Boot(b) \/ Interval(b) \/ Repair(b) \/ Reindex(b)

Other ==
    \/ \E i \in Indexers : IndexNoteStore(i) \/ \E p \in Paths : IndexNote(i, p)
    \/ \E p \in Paths : RemoveFromIndex(p) \/ DeleteNote(p)
    \/ \E v \in Vaults : ChangeSources(v) \/ \E p \in Paths : Write(v, p)

\* Nothing but rebuild b is under way.
Alone(b) ==
    /\ \A c \in Rebuilds \ {b} : rebuild[c].at = "idle"
    /\ \A i \in Indexers : indexing[i] = None
    /\ written = {} /\ deleted = {}

\* What the history records when a rebuild begins, goes on, and is disturbed.
Begun(b) == calm' = IF isFirstBuild' /\ Alone(b) THEN {b} ELSE {}
GoesOn(b) == calm' = IF fails' = fails THEN calm \cap {b} ELSE {}
Disturbed == calm' = {}

Next ==
    \/ \E b \in Rebuilds : (Begin(b) /\ Begun(b)) \/ (Step(b) /\ GoesOn(b))
    \/ Other /\ Disturbed

Spec == Init /\ [][Next]_vars

\* Calls end, timers fire: the I/O of a rebuild returns, and the interval and the reindex
\* after a change of the source vaults find the process running.
Fairness ==
    /\ \A b \in Rebuilds : WF_vars(Step(b) /\ GoesOn(b))
    /\ \A i \in Indexers : WF_vars(IndexNoteStore(i) /\ Disturbed)
    /\ \A p \in Paths : WF_vars(RemoveFromIndex(p) /\ Disturbed)
    /\ WF_vars(\E b \in Rebuilds : (Boot(b) \/ Interval(b)) /\ Begun(b))
    /\ WF_vars(\E b \in Rebuilds : Reindex(b) /\ Begun(b))

FairSpec == Spec /\ Fairness

-----------------------------------------------------------------------------
(* Properties.                                                               *)

\* docMeta and MiniSearch have the same paths at every step: recall filters by the one
\* what it finds in the other.
SameIds == \A p \in Paths : docMeta[p] = 0 <=> miniSearch[p] = 0

\* The copies of a path that may be indexed.
Copies(p) == {v \in known : files[v][p] # 0 /\ p \in allowed[v]}

\* A path that no registered vault has, or none whose allowlist lets it into the index,
\* leaves the index for ever, whatever rebuilds and calls of indexNote were under way when
\* it went.
GhostsLeave ==
    \A p \in Paths : <>[](Copies(p) = {}) => <>[](docMeta[p] = 0 /\ miniSearch[p] = 0)

\* A full rebuild that nothing disturbs repairs whatever the races before it left: each
\* path has the copy of the first vault that has one which its allowlist lets in, nothing
\* else is in the index, and the next incremental rebuild finds nothing to do.
FullRebuildIsExact ==
    [][\A b \in calm : rebuild[b].at # "idle" /\ rebuild'[b].at = "idle" =>
          \A p \in Paths :
             /\ Copies(p) = {} => docMeta'[p] = 0 /\ miniSearch'[p] = 0
             /\ \A v \in First(Copies(p)) :
                   docMeta'[p] = files[v][p] /\ miniSearch'[p] = files[v][p]
             /\ \A v \in Vaults : fileMtimes'[v][p] =
                   IF v \in First(Copies(p)) THEN files[v][p] ELSE 0]_vars

\* Once the vaults are left alone the index comes to rest under rebuilds and indexNote:
\* two copies of a path do not take turns in it.
Settles == <>[][UNCHANGED <<docMeta, miniSearch>>]_vars

\* "Your changes are picked up on the next index rebuild": a note that is left alone is
\* in the index with its text in the end.
EditsArePickedUp ==
    \A p \in Paths, t \in Version \ {0} :
        <>[](\E v \in First(Copies(p)) : files[v][p] = t) => <>[](docMeta[p] = t)
=============================================================================
