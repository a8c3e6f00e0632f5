----------------------------- MODULE Consolidation -----------------------------
(***************************************************************************)
(* The three ways memories are folded into a summary:                      *)
(*   auto     applyAutoConsolidation, run by the dream cycle               *)
(*            (lib/memory-lifecycle.ts)                                    *)
(*   distill  distillCluster, the tool memory_consolidate                  *)
(*            (tools/memory-consolidate.ts)                                *)
(*   series   the rolling weekly summary of memory_consolidate_series      *)
(*            (tools/memory-consolidate-series.ts)                         *)
(* Each reads its sources one by one, writes a summary and then archives   *)
(* the sources one by one, with an await at every file, beside users who   *)
(* edit notes, other consolidators, failing files and crashes.             *)
(*                                                                         *)
(* A text is the set of the edits in it; an etag is a digest of the whole  *)
(* note, so it is modelled by the note. A file is truncated first and      *)
(* filled later, with no temporary file: whoever reads it in between finds *)
(* it empty, and a write that fails or dies in between leaves it empty.    *)
(* `notes` has the notes as they are once the writes under way are done,   *)
(* File(p) what a reader finds. The lock of NoteStore makes a check of the *)
(* etag and the truncation one step, and a second writer wait.             *)
(* The date in the path of a summary is left out: all happens in one day   *)
(* (and in one ISO week). What decides which notes are similar is data,    *)
(* and nobody deletes notes.                                               *)
(***************************************************************************)
EXTENDS Naturals, Sequences, Functions, FiniteSets

CONSTANTS
    Memories,   \* the notes that users made
    Tagged,     \* those of them that carry the tag of the series
    Rolling,    \* the path of the rolling summary of the series
    Clusters,   \* sequences of paths that the dream or a caller may consolidate
    Series,     \* sequences of paths that tag and title may select
    Runs,       \* calls of the three functions that may overlap
    Absent,     \* there is no file
    Nowhere,    \* a note without consolidated_into
    MaxEdits,   \* bound: edits by users
    MaxCalls,   \* bound: calls
    MaxTorn     \* bound: notes with a write that was cut off

\* slug and sourceKey: the path of a summary is a function of its kind and sources.
Summary(kind, q) == [kind |-> kind, of |-> Range(q)]

Path == Memories \cup {Rolling}
            \cup {Summary(k, q) : k \in {"auto", "distill"}, q \in Clusters}

ASSUME PathsApart ==
    /\ Nowhere \notin Path /\ Rolling \notin Memories
    /\ \A q \in Clusters, k \in {"auto", "distill"} :
           Summary(k, q) \notin Memories \cup {Rolling}
ASSUME GroupsArePaths ==
    /\ \A q \in Clusters : q \in Seq(Path) /\ Len(q) >= 2 /\ IsInjective(q)
    /\ \A q \in Series : q \in Seq(Path) /\ Len(q) >= 1
ASSUME BoundsAreNat == MaxEdits \in Nat /\ MaxCalls \in Nat /\ MaxTorn \in Nat

VARIABLES
    notes,      \* the notes of the vault, what is being written included
    editing,    \* the notes that users are writing
    torn,       \* the notes with a write that was cut off or met another one
    hidden,     \* docMeta: the paths whose index entry says archived
    run,        \* the calls under way
    edits,      \* edits made so far
    calls       \* calls made so far

vars == <<notes, editing, torn, hidden, run, edits, calls>>
files == <<notes, editing, torn>>

Edits == 0 .. MaxEdits

\* `seen` is not in the file: the text of each source that the summary was made from.
Note == [text : SUBSET Edits, tagged : BOOLEAN, archived : BOOLEAN,
         into : Path \cup {Nowhere}, from : SUBSET Path, seen : [Path -> SUBSET Edits]]

ASSUME AbsentIsNoNote == Absent \notin Note

Vault == [Path -> Note \cup {Absent}]
Phases == {"idle", "target", "read", "verify", "write", "fill", "archive", "stamp", "index"}
Call == [phase : Phases, kind : {"auto", "distill", "series"},
         group : Clusters \cup Series \cup {<<>>}, at : Nat \ {0},
         read : Vault, folded : SUBSET Path]

TypeOK ==
    /\ notes \in Vault
    /\ editing \subseteq {p \in Path : notes[p] # Absent}
    /\ torn \subseteq {p \in Path : notes[p] # Absent}
    /\ hidden \subseteq {p \in Path : notes[p] # Absent}
    /\ run \in [Runs -> Call]
    /\ \A r \in Runs : run[r].phase # "idle" =>
         /\ run[r].group \in IF run[r].kind = "series" THEN Series ELSE Clusters
         /\ run[r].at \in DOMAIN run[r].group
    /\ edits \in 0 .. MaxEdits
    /\ calls \in 0 .. MaxCalls

Nothing == [p \in Path |-> Absent]
Unseen == [p \in Path |-> {}]
Idle == [phase |-> "idle", kind |-> "auto", group |-> <<>>, at |-> 1,
         read |-> Nothing, folded |-> {}]

Init ==
    /\ notes = [p \in Path |->
                  IF p \in Memories
                  THEN [text |-> {0}, tagged |-> p \in Tagged, archived |-> FALSE,
                        into |-> Nowhere, from |-> {}, seen |-> Unseen]
                  ELSE Absent]
    /\ editing = {}
    /\ torn = {}
    /\ hidden = {}
    /\ run = [r \in Runs |-> Idle]
    /\ edits = 0
    /\ calls = 0

-----------------------------------------------------------------------------
(* Helpers on a call c.                                                      *)

Target(c) == IF c.kind = "series" THEN Rolling ELSE Summary(c.kind, c.group)
Source(c) == c.group[c.at]

\* Plausible bug: the loop runs once too often.
AtEndLate(c) == c.at > Len(c.group)

AtEnd(c) == c.at = Len(c.group)
Sources(c) == Range(c.group)

\* The next source in the same phase, or the given phase from the first source on.
Onward(c, next) == IF AtEnd(c) THEN [c EXCEPT !.phase = next, !.at = 1]
                   ELSE [c EXCEPT !.at = @ + 1]

\* The next source to archive; the call is over after the last one.
NextSource(c) == IF AtEnd(c) THEN Idle ELSE [c EXCEPT !.phase = "archive", !.at = @ + 1]

\* What the rolling summary says it was folded from, as the call read it.
Listed(c) == IF c.read[Rolling] = Absent THEN {} ELSE c.read[Rolling].from

\* The sources that the fold adds to the rolling summary.
Chunks(c) == c.folded \ Listed(c)

\* A source with the two fields that archive it.
Archived(note, target) == [note EXCEPT !.archived = TRUE, !.into = target]

\* The rolling summary lies under Memories/consolidated/, and so does what auto makes.
InFolder(p) == p = Rolling \/ \E q \in Clusters : p = Summary("auto", q)

\* The notes that the index shows as not archived.
Shown == {p \in Path : notes[p] # Absent /\ p \notin hidden}

-----------------------------------------------------------------------------
(* Files.                                                                    *)

\* What an empty file parses to: no frontmatter and no body.
Emptied == [text |-> {}, tagged |-> FALSE, archived |-> FALSE, into |-> Nowhere,
            from |-> {}, seen |-> Unseen]

\* The call has truncated the file of p and not filled it yet.
Writing(c, p) == \/ c.phase = "fill" /\ p = Target(c)
                 \/ c.phase = "stamp" /\ p = Source(c)

\* ... with createNote, which takes no lock.
Creating(c) == c.phase = "fill" /\ (c.kind = "series" => c.read[Rolling] = Absent)

Open == editing \cup {p \in Path : \E r \in Runs : Writing(run[r], p)}
Locked(p) == p \in editing \/ \E r \in Runs : Writing(run[r], p) /\ ~Creating(run[r])

\* readNote, which takes no lock either.
File(p) == IF p \in Open THEN Emptied ELSE notes[p]

\* writeFile truncates the file and goes on to fill it with the note n. When createNote
\* is filling it, one of the two texts wins.
Put(p, n) ==
    IF p \in Open
    THEN /\ Cardinality(torn \cup {p}) <= MaxTorn
         /\ notes' \in {notes, [notes EXCEPT ![p] = n]}
         /\ torn' = torn \cup {p}
    ELSE notes' = [notes EXCEPT ![p] = n] /\ UNCHANGED torn

\* The writes to the files P are cut off between the two.
CutOff(P) ==
    /\ Cardinality(torn \cup P) <= MaxTorn
    /\ notes' = [p \in Path |-> IF p \in P THEN Emptied ELSE notes[p]]
    /\ torn' = torn \cup P

\* indexNote: docMeta takes the archived flag of the file as it is now.
Indexed(p) == IF File(p).archived THEN hidden \cup {p} ELSE hidden \ {p}

-----------------------------------------------------------------------------
(* A call.                                                                   *)

Begin(r, kind, q, phase) ==
    /\ run[r].phase = "idle" /\ calls < MaxCalls
    /\ run' = [run EXCEPT ![r] = [Idle EXCEPT !.kind = kind, !.group = q, !.phase = phase]]
    /\ calls' = calls + 1
    /\ UNCHANGED <<files, hidden, edits>>

\* findConsolidationCandidates and runDreamCycle: the index must not say archived.
BeginAuto(r, q) == Range(q) \subseteq Shown /\ Begin(r, "auto", q, "read")

\* memory_consolidate: sources named by the caller, or clusters of the index.
BeginDistill(r, q) == Begin(r, "distill", q, "read")

\* memory_consolidate_series: indexed as not archived, with the tag, outside the folder.
\* The index may still have the tags of a note whose file is empty.
BeginSeries(r, q) ==
    /\ \A p \in Range(q) :
           p \in Shown /\ (notes[p].tagged \/ p \in torn) /\ ~InFolder(p)
    /\ Begin(r, "series", q, "target")

\* The rolling summary as it is, or nothing when it is missing or cannot be read.
ReadTarget(r) ==
    /\ run[r].phase = "target"
    /\ \E n \in {File(Rolling), Absent} :
         run' = [run EXCEPT ![r].phase = "read", ![r].read[Rolling] = n]
    /\ UNCHANGED <<files, hidden, edits, calls>>

\* A source that is archived into another summary: distillCluster refuses the plan.
Taken(c) ==
    \E p \in Sources(c) : /\ c.read[p].archived
                          /\ c.read[p].into \notin {Nowhere, Target(c)}

\* auto, distill: all sources must be readable.
ReadSource(r) ==
    LET c == run[r]  p == Source(c)
        d == [c EXCEPT !.read[p] = File(p)]
    IN  /\ c.phase = "read" /\ c.kind # "series"
        /\ \/ /\ notes[p] # Absent
              /\ run' = [run EXCEPT ![r] =
                           IF AtEnd(c) /\ c.kind = "distill" /\ Taken(d) THEN Idle
                           ELSE Onward(d, "verify")]
           \/ run' = [run EXCEPT ![r] = Idle]
        /\ UNCHANGED <<files, hidden, edits, calls>>

\* series: after the last source there is nothing to do, or to fold, or there is.
AfterFold(c) ==
    IF AtEnd(c) /\ c.folded = {} THEN Idle
    ELSE Onward(c, IF Chunks(c) = {} THEN "archive" ELSE "write")

\* series: a source that the summary lists already is only archived again (resume);
\* one that cannot be read is left out.
FoldSource(r) ==
    LET c == run[r]  p == Source(c)
    IN  /\ c.phase = "read" /\ c.kind = "series"
        /\ \/ /\ p \in Listed(c)
              /\ run' = [run EXCEPT ![r] = AfterFold([c EXCEPT !.folded = @ \cup {p}])]
           \/ /\ p \notin Listed(c) /\ notes[p] # Absent
              /\ run' = [run EXCEPT ![r] = AfterFold([c EXCEPT !.folded = @ \cup {p},
                                                               !.read[p] = File(p)])]
           \/ /\ p \notin Listed(c)
              /\ run' = [run EXCEPT ![r] = AfterFold(c)]
        /\ UNCHANGED <<files, hidden, edits, calls>>

\* auto, distill: every source still is what the summary was made from.
Verify(r) ==
    LET c == run[r]
    IN  /\ c.phase = "verify"
        /\ \/ /\ File(Source(c)) = c.read[Source(c)]
              /\ run' = [run EXCEPT ![r] = Onward(c, "write")]
           \/ run' = [run EXCEPT ![r] = Idle]
        /\ UNCHANGED <<files, hidden, edits, calls>>

\* The summary of auto and distill: a digest with a link to each source.
Digest(c) == [text |-> {}, tagged |-> \E p \in Sources(c) : c.read[p].tagged,
              archived |-> FALSE, into |-> Nowhere, from |-> Sources(c),
              seen |-> [p \in Path |-> IF p \in Sources(c) THEN c.read[p].text ELSE {}]]

\* createNote. A summary that exists ends auto; distill goes on with it, as the same
\* operation after a partial archive. Any of the calls may fail.
WriteSummary(r) ==
    LET c == run[r]  t == Target(c)
    IN  /\ c.phase = "write" /\ c.kind # "series"
        /\ \/ /\ notes[t] = Absent
              /\ Put(t, Digest(c))
              /\ run' = [run EXCEPT ![r].phase = "fill"]
              /\ UNCHANGED hidden
           \/ /\ notes[t] # Absent /\ c.kind = "distill" /\ File(t).from = Sources(c)
              /\ run' = [run EXCEPT ![r].phase = "archive"]
              /\ hidden' = Indexed(t)
              /\ UNCHANGED <<notes, torn>>
           \/ /\ run' = [run EXCEPT ![r] = Idle]
              /\ UNCHANGED <<notes, torn, hidden>>
        /\ UNCHANGED <<editing, edits, calls>>

\* Plausible bug: a new fold forgets the sources of the earlier ones.
FoldedAfresh(c) ==
    LET old == c.read[Rolling]
        new == UNION {c.read[p].text : p \in Chunks(c)}
    IN  IF old = Absent
        THEN [text |-> new, tagged |-> TRUE, archived |-> FALSE, into |-> Nowhere,
              from |-> c.folded, seen |-> Unseen]
        ELSE [old EXCEPT !.text = @ \cup new, !.from = c.folded]

\* The rolling summary with the new chunks; the rest of its frontmatter is kept.
Folded(c) ==
    LET old == c.read[Rolling]
        new == UNION {c.read[p].text : p \in Chunks(c)}
        seen == [p \in Path |-> IF p \in Chunks(c) THEN c.read[p].text ELSE {}]
    IN  IF old = Absent
        THEN [text |-> new, tagged |-> TRUE, archived |-> FALSE, into |-> Nowhere,
              from |-> c.folded, seen |-> seen]
        ELSE [old EXCEPT !.text = @ \cup new, !.from = @ \cup c.folded,
                         !.seen = [p \in Path |-> @[p] \cup seen[p]]]

\* Plausible bug: the rolling summary is written without the etag that was read.
WriteRollingBlind(r) ==
    LET c == run[r]
    IN  /\ c.phase = "write" /\ c.kind = "series"
        /\ ~Locked(Rolling)
        /\ Put(Rolling, Folded(c))
        /\ run' = [run EXCEPT ![r].phase = "fill"]
        /\ UNCHANGED <<hidden, editing, edits, calls>>

\* writeNote under the etag that was read, or createNote where nothing was.
WriteRolling(r) ==
    LET c == run[r]
    IN  /\ c.phase = "write" /\ c.kind = "series"
        /\ \/ /\ ~Locked(Rolling) /\ File(Rolling) = c.read[Rolling]
              /\ Put(Rolling, Folded(c))
              /\ run' = [run EXCEPT ![r].phase = "fill"]
           \/ /\ run' = [run EXCEPT ![r] = Idle]
              /\ UNCHANGED <<notes, torn>>
        /\ UNCHANGED <<hidden, editing, edits, calls>>

\* The summary is filled and indexed, and its sources are next; the index may fail.
FillSummary(r) ==
    LET c == run[r]  t == Target(c)
    IN  /\ c.phase = "fill"
        /\ \/ /\ run' = [run EXCEPT ![r].phase = "archive"]
              /\ hidden' = IF notes[t].archived THEN hidden \cup {t} ELSE hidden \ {t}
           \/ /\ run' = [run EXCEPT ![r] = Idle]
              /\ UNCHANGED hidden
        /\ UNCHANGED <<files, edits, calls>>

\* Plausible bug: auto archives the version that it finds.
UnchangedReread(c, p) ==
    /\ notes[p] # Absent
    /\ c.kind = "distill" => File(p) = c.read[p] /\ ~c.read[p].archived

\* auto and distill archive the version they read and no other; distill leaves one
\* alone that is archived.
Unchanged(c, p) ==
    /\ File(p) = c.read[p]
    /\ c.kind = "distill" => ~c.read[p].archived

\* series reads the source again and archives what it finds.
MayArchive(c, p) ==
    IF c.kind = "series" THEN p \in c.folded /\ notes[p] # Absent ELSE Unchanged(c, p)

ArchiveSource(r) ==
    LET c == run[r]  p == Source(c)
    IN  /\ c.phase = "archive"
        /\ \/ /\ ~Locked(p) /\ MayArchive(c, p)
              /\ Put(p, Archived(File(p), Target(c)))
              /\ run' = [run EXCEPT ![r].phase = "stamp"]
           \/ /\ run' = [run EXCEPT ![r] = NextSource(c)]
              /\ UNCHANGED <<notes, torn>>
        /\ UNCHANGED <<hidden, editing, edits, calls>>

\* The archived source is filled.
FillSource(r) ==
    /\ run[r].phase = "stamp"
    /\ run' = [run EXCEPT ![r].phase = "index"]
    /\ UNCHANGED <<files, hidden, edits, calls>>

\* A write fails with the file truncated: the call is over without its summary, and
\* goes on without a source.
FailWrite(r) ==
    LET c == run[r]
    IN  /\ \/ /\ c.phase = "fill"
              /\ CutOff({Target(c)})
              /\ run' = [run EXCEPT ![r] = Idle]
           \/ /\ c.phase = "stamp"
              /\ CutOff({Source(c)})
              /\ run' = [run EXCEPT ![r] = NextSource(c)]
        /\ UNCHANGED <<hidden, editing, edits, calls>>

\* indexNote of the archived source, which may fail too.
IndexSource(r) ==
    LET c == run[r]
    IN  /\ c.phase = "index"
        /\ run' = [run EXCEPT ![r] = NextSource(c)]
        /\ hidden' \in {Indexed(Source(c)), hidden}
        /\ UNCHANGED <<files, edits, calls>>

-----------------------------------------------------------------------------
(* The rest of the program.                                                  *)

\* A user adds to a note, archived or not, through a tool that passes the etag.
EditNote(p) ==
    /\ edits < MaxEdits /\ notes[p] # Absent /\ ~Locked(p)
    /\ Put(p, [File(p) EXCEPT !.text = @ \cup {edits + 1}])
    /\ editing' = editing \cup {p}
    /\ edits' = edits + 1
    /\ UNCHANGED <<hidden, run, calls>>

\* The file is filled and indexed.
SaveEdit(p) ==
    /\ p \in editing
    /\ editing' = editing \ {p}
    /\ hidden' = IF notes[p].archived THEN hidden \cup {p} ELSE hidden \ {p}
    /\ UNCHANGED <<notes, torn, run, edits, calls>>

\* The write fails, with the file truncated.
FailEdit(p) ==
    /\ p \in editing
    /\ CutOff({p})
    /\ editing' = editing \ {p}
    /\ UNCHANGED <<hidden, run, edits, calls>>

\* rebuildIndex, as far as the archived flags go.
Reindex ==
    /\ hidden' = {p \in Path : notes[p] # Absent /\ File(p).archived}
    /\ UNCHANGED <<files, run, edits, calls>>

\* The process dies and comes back; boot builds the index. The files that were being
\* written stay empty.
Crash ==
    /\ CutOff(Open)
    /\ editing' = {}
    /\ run' = [r \in Runs |-> Idle]
    /\ hidden' = {p \in Path : notes'[p] # Absent /\ notes'[p].archived}
    /\ UNCHANGED <<edits, calls>>

Consolidate(r) ==
    \/ \E q \in Clusters : BeginAuto(r, q) \/ BeginDistill(r, q)
    \/ \E q \in Series : BeginSeries(r, q)
    \/ ReadTarget(r) \/ ReadSource(r) \/ FoldSource(r) \/ Verify(r)
    \/ WriteSummary(r) \/ WriteRolling(r) \/ FillSummary(r)
    \/ ArchiveSource(r) \/ FillSource(r) \/ IndexSource(r)
    \/ FailWrite(r)

Next ==
    \/ \E r \in Runs : Consolidate(r)
    \/ \E p \in Path : EditNote(p) \/ SaveEdit(p) \/ FailEdit(p)
    \/ Reindex
    \/ Crash

Spec == Init /\ [][Next]_vars

-----------------------------------------------------------------------------
(* Properties.                                                               *)

\* Whatever is archived with a link to a summary is listed by that summary, so the
\* text can be found from the active note: also after a summary that was written and
\* not indexed, a fold that was resumed, two calls at once and a crash. A summary with
\* a write that was cut off is excepted: it may have lost its list.
LinkedBack ==
    \A p \in Path :
        notes[p] # Absent /\ notes[p].into # Nowhere /\ notes[p].into \notin torn =>
            /\ notes[notes[p].into] # Absent
            /\ p \in notes[notes[p].into].from

\* No call loses an edit, also when it overlaps others and users' edits, reads a file
\* that is being written, or dies between two writes. A write that is itself cut off
\* empties its note; of such a note, and of no other, nothing is claimed.
KeepsText ==
    [][\A p \in Path : notes[p] # Absent =>
          /\ notes'[p] # Absent
          /\ p \notin torn' => notes[p].text \subseteq notes'[p].text]_vars

\* What the dream hides from recall is what it had read when it made the summary: an
\* edit made in between keeps the source active.
AutoHidesWhatItRead ==
    [][\A p \in Path, q \in Clusters :
          LET t == Summary("auto", q)
          IN  notes[p] # Absent /\ notes[p].into # t /\ notes'[p].into = t /\ t \notin torn'
                => notes'[t].seen[p] = notes'[p].text]_vars

\* "Skip already-consolidated targets to prevent folding a rolling note into itself":
\* no set of archived notes is folded only into notes of that set, so every archived
\* note leads to one that recall still shows.
NoSelfFold ==
    \A S \in SUBSET {p \in Path : notes[p] # Absent /\ notes[p].archived} :
        S # {} => \E p \in S : notes[p].into \notin S
=============================================================================
