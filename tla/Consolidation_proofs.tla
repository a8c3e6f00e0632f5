-------------------------- MODULE Consolidation_proofs --------------------------
(***************************************************************************)
(* Proofs about the consolidation of memories, for any notes, any groups   *)
(* of them, any number of overlapping calls and writes cut off anywhere.   *)
(***************************************************************************)
EXTENDS Consolidation, TLAPS

\* A call under way works on a group of its kind, at a place of that group.
Placed(c) ==
    c.phase # "idle" =>
        /\ c.group \in IF c.kind = "series" THEN Series ELSE Clusters
        /\ c.at \in DOMAIN c.group

\* What auto and distill have read of their sources.
SourcesRead(c) ==
    c.kind # "series" /\ c.phase # "idle" =>
        /\ c.phase # "target"
        /\ c.phase = "read" => \A i \in 1 .. (c.at - 1) : c.read[c.group[i]] # Absent
        /\ c.phase # "read" => \A p \in Sources(c) : c.read[p] # Absent

\* What series has read: its group is outside the folder, and a chunk has a text.
ChunksRead(c) ==
    c.kind = "series" /\ c.phase # "idle" =>
        /\ c.phase # "verify"
        /\ c.phase = "target" => c.folded = {}
        /\ Rolling \notin Sources(c)
        /\ \A p \in Chunks(c) : c.read[p] # Absent

\* The rolling summary of the vault v still lists what a call saw listed, unless a write
\* of it was cut off: it is in the set T of such notes.
ListKept(v, T, c) ==
    c.kind = "series" /\ c.phase # "idle" /\ c.read[Rolling] # Absent =>
        /\ v[Rolling] # Absent
        /\ Rolling \notin T => c.read[Rolling].from \subseteq v[Rolling].from

\* What the summary of a call lists.
Lists(v, c) ==
    /\ c.kind = "series" => c.folded \subseteq v[Rolling].from
    /\ c.kind # "series" => v[Target(c)].from = Sources(c)
    /\ c.kind = "auto" => \A p \in Sources(c) : v[Target(c)].seen[p] = c.read[p].text

\* Nothing is archived before the summary is in the vault and lists it.
SummaryFirst(v, T, c) ==
    c.phase \in {"fill", "archive", "stamp", "index"} =>
        /\ v[Target(c)] # Absent
        /\ c.phase \in {"stamp", "index"} => v[Source(c)] # Absent
        /\ Target(c) \notin T => Lists(v, c)

CallOK(v, T, c) ==
    /\ Placed(c) /\ SourcesRead(c) /\ ChunksRead(c)
    /\ ListKept(v, T, c) /\ SummaryFirst(v, T, c)

\* What auto and distill make lists the sources its path is made of.
NamedBySources(v, T) ==
    \A q \in Clusters, k \in {"auto", "distill"} :
        v[Summary(k, q)] # Absent /\ Summary(k, q) \notin T =>
            v[Summary(k, q)].from = Range(q)

\* Whatever is archived in the vault v is listed by its summary (LinkedBack of a vault).
Linked(v, T) ==
    \A p \in Path : v[p] # Absent /\ v[p].into # Nowhere /\ v[p].into \notin T =>
        v[v[p].into] # Absent /\ p \in v[v[p].into].from

Inv ==
    /\ TypeOK
    /\ Linked(notes, torn)
    /\ NamedBySources(notes, torn)
    /\ \A r \in Runs : CallOK(notes, torn, run[r])

\* The note n of the path p grows into m: it loses nothing, and only the rolling summary
\* is folded into again.
GrowsInto(p, n, m) ==
    /\ n.text \subseteq m.text
    /\ n.from \subseteq m.from
    /\ p # Rolling => m.from = n.from /\ m.seen = n.seen

\* From vault v to vault w a note grows, unless a write of it was cut off by then.
Grows(v, w, T, p) ==
    v[p] # Absent => w[p] # Absent /\ (p \notin T => GrowsInto(p, v[p], w[p]))

\* What every step does to the vault.
VaultStep ==
    /\ notes' \in Vault /\ torn \subseteq torn'
    /\ torn' \subseteq {p \in Path : notes'[p] # Absent}
    /\ \A p \in Path : Grows(notes, notes', torn', p)
    /\ Linked(notes', torn') /\ NamedBySources(notes', torn')

\* ... and what every step but archiving does: no note is archived into another summary.
IntoKept ==
    \A p \in Path : notes[p] # Absent =>
        notes'[p] # Absent /\ notes'[p].into \in {notes[p].into, Nowhere}

\* What a step of the call r does to the calls.
CallStep(r, d) ==
    d \in Call /\ run' = [run EXCEPT ![r] = d] /\ CallOK(notes', torn', d)

-----------------------------------------------------------------------------
\* Groups are sequences of paths that are not empty.
LEMMA GroupTyped ==
  ASSUME NEW q \in Clusters \cup Series
  PROVE  /\ q \in Seq(Path) /\ Len(q) \in Nat /\ Len(q) >= 1 /\ DOMAIN q = 1 .. Len(q)
         /\ \A i \in DOMAIN q : q[i] \in Path /\ q[i] \in Range(q)
         /\ Range(q) \subseteq Path
<1>1. q \in Seq(Path) /\ Len(q) >= 1
  BY GroupsArePaths
<1>2. Len(q) \in Nat /\ DOMAIN q = 1 .. Len(q) /\ \A i \in DOMAIN q : q[i] \in Path
  BY <1>1
<1> QED
  BY <1>1, <1>2 DEF Range

\* Paths of summaries are paths.
LEMMA SummaryTyped ==
  /\ Rolling \in Path
  /\ \A q \in Clusters, k \in {"auto", "distill"} :
        Summary(k, q) \in Path /\ Summary(k, q) # Rolling
BY PathsApart DEF Path

\* A note that a vault holds.
LEMMA NoteTyped ==
  ASSUME NEW v \in Vault, NEW p \in Path, v[p] # Absent
  PROVE  v[p] \in Note
BY DEF Vault

\* What a place of a call under way is.
LEMMA PlaceTyped ==
  ASSUME NEW c \in Call, Placed(c), c.phase # "idle"
  PROVE  /\ c.group \in Clusters \cup Series
         /\ Source(c) \in Path /\ Source(c) \in Sources(c) /\ Sources(c) \subseteq Path
         /\ Target(c) \in Path
         /\ c.at \in 1 .. Len(c.group) /\ Len(c.group) \in Nat
<1>1. c.group \in Clusters \cup Series /\ c.at \in DOMAIN c.group
  BY DEF Placed
<1>2. Target(c) \in Path
  <2>1. CASE c.kind = "series"
    BY <2>1, SummaryTyped DEF Target
  <2>2. CASE c.kind # "series"
    <3>1. c.kind \in {"auto", "distill"} /\ c.group \in Clusters
      BY <2>2 DEF Call, Placed
    <3> QED
      BY <2>2, <3>1, SummaryTyped DEF Target
  <2> QED BY <2>1, <2>2
<1> QED
  BY <1>1, <1>2, GroupTyped DEF Source, Sources

\* What is left of a note is one.
LEMMA EmptiedTyped ==
  Emptied \in Note /\ Emptied # Absent /\ Emptied.into = Nowhere /\ Emptied.text = {}
  /\ Emptied.from = {}
<1>1. Unseen \in [Path -> SUBSET Edits]
  BY DEF Unseen
<1>2. Emptied \in Note
  BY <1>1 DEF Emptied, Note
<1> QED
  BY <1>2, AbsentIsNoNote DEF Emptied

\* The initial states satisfy the invariant.
LEMMA InitInv == Init => Inv
<1> SUFFICES ASSUME Init PROVE Inv
  OBVIOUS
<1>1. Idle \in Call
  BY DEF Idle, Call, Phases, Vault, Nothing
<1>2. notes \in Vault
  <2>1. 0 \in Edits
    BY BoundsAreNat DEF Edits
  <2>2. ASSUME NEW p \in Path PROVE notes[p] \in Note \cup {Absent}
    BY <2>1 DEF Init, Note, Unseen
  <2> QED
    BY <2>2 DEF Init, Vault
<1>3. TypeOK
  <2>1. hidden \subseteq {p \in Path : notes[p] # Absent}
        /\ editing \subseteq {p \in Path : notes[p] # Absent}
        /\ torn \subseteq {p \in Path : notes[p] # Absent}
    BY DEF Init
  <2>2. run \in [Runs -> Call] /\ \A r \in Runs : run[r].phase = "idle"
    BY <1>1 DEF Init, Idle
  <2>3. edits \in 0 .. MaxEdits /\ calls \in 0 .. MaxCalls
    BY BoundsAreNat DEF Init
  <2> QED
    BY <1>2, <2>1, <2>2, <2>3 DEF TypeOK
<1>4. Linked(notes, torn)
  BY DEF Linked, Init
<1>5. NamedBySources(notes, torn)
  BY SummaryTyped, PathsApart DEF NamedBySources, Init
<1>6. \A r \in Runs : CallOK(notes, torn, run[r])
  BY DEF Init, Idle, CallOK, Placed, SourcesRead, ChunksRead, ListKept, SummaryFirst
<1> QED
  BY <1>3, <1>4, <1>5, <1>6 DEF Inv

-----------------------------------------------------------------------------
(* What the writes do to the vault.                                          *)

\* A vault that does not change.
LEMMA VaultSame ==
  ASSUME Inv, UNCHANGED <<notes, torn>>
  PROVE  VaultStep /\ IntoKept
<1>1. \A p \in Path : Grows(notes, notes', torn', p)
  BY DEF Grows, GrowsInto
<1> QED
  BY <1>1 DEF VaultStep, IntoKept, Inv, TypeOK

\* What a reader finds is the note, or nothing where its file is being written.
LEMMA FileTyped ==
  ASSUME Inv, NEW p \in Path
  PROVE  /\ File(p) \in Note \cup {Absent} /\ (File(p) = Absent <=> notes[p] = Absent)
         /\ p \notin Open => File(p) = notes[p]
         /\ p \in Open => File(p) = Emptied /\ notes[p] # Absent
<1>1. p \in Open => notes[p] # Absent
  <2>1. p \in editing => notes[p] # Absent
    BY DEF Inv, TypeOK
  <2>2. ASSUME NEW r \in Runs, Writing(run[r], p) PROVE notes[p] # Absent
    BY <2>2 DEF Writing, Inv, CallOK, SummaryFirst
  <2> QED
    BY <2>1, <2>2 DEF Open
<1>2. notes[p] \in Note \cup {Absent}
  BY DEF Inv, TypeOK, Vault
<1> QED
  BY <1>1, <1>2, EmptiedTyped DEF File

\* A note is written. Where no write was under way the new note follows from the old one;
\* a link that is new is to a summary that has the note.
LEMMA PutStep ==
  ASSUME Inv, NEW p \in Path, NEW n \in Note, Put(p, n),
         p \notin Open /\ notes[p] # Absent => GrowsInto(p, notes[p], n),
         p \notin Open /\ notes[p] = Absent =>
            \A q \in Clusters, k \in {"auto", "distill"} :
               p = Summary(k, q) => n.from = Range(q),
         \/ n.into = Nowhere
         \/ notes[p] # Absent /\ n.into = notes[p].into
         \/ /\ notes[n.into] # Absent
            /\ n.into \notin torn => p \in notes[n.into].from
  PROVE  /\ VaultStep
         /\ notes'[p] # Absent /\ notes'[p] \in {notes[p], n} /\ (p \notin torn' => notes'[p] = n)
         /\ \A x \in Path : x # p => notes'[x] = notes[x]
         /\ \A x \in Path : notes[x] # Absent => notes'[x] # Absent
<1>1. notes \in Vault /\ torn \subseteq {x \in Path : notes[x] # Absent} /\ n # Absent
      /\ Linked(notes, torn) /\ NamedBySources(notes, torn)
  BY AbsentIsNoNote DEF Inv, TypeOK
<1>2. p \in Open => notes[p] # Absent
  BY FileTyped
<1>3. /\ notes'[p] \in {notes[p], n} /\ notes'[p] # Absent
      /\ \A x \in Path : x # p => notes'[x] = notes[x]
      /\ notes' \in Vault /\ torn \subseteq torn' /\ torn' \subseteq torn \cup {p}
      /\ p \notin torn' => p \notin Open /\ notes'[p] = n
  <2>1. CASE p \in Open
    BY <1>1, <1>2, <2>1 DEF Put, Vault
  <2>2. CASE p \notin Open
    BY <1>1, <2>2 DEF Put, Vault
  <2> QED
    BY <2>1, <2>2
<1>4. \A x \in Path : notes[x] # Absent => notes'[x] # Absent
  BY <1>3
<1>5. \A x \in Path : Grows(notes, notes', torn', x)
  <2> SUFFICES ASSUME NEW x \in Path, notes[x] # Absent PROVE Grows(notes, notes', torn', x)
    BY DEF Grows
  <2>1. CASE x = p
    BY <1>3, <2>1 DEF Grows
  <2>2. CASE x # p
    BY <1>3, <2>2 DEF Grows, GrowsInto
  <2> QED BY <2>1, <2>2
<1>6. Linked(notes', torn')
  <2> SUFFICES ASSUME NEW x \in Path, notes'[x] # Absent, notes'[x].into # Nowhere,
                      notes'[x].into \notin torn'
               PROVE  notes'[notes'[x].into] # Absent /\ x \in notes'[notes'[x].into].from
    BY DEF Linked
  <2> DEFINE t == notes'[x].into
  <2>1. t \in Path /\ t \notin torn
    BY <1>3 DEF Vault, Note
  <2>2. notes[t] # Absent /\ x \in notes[t].from
    <3>1. CASE notes[x] # Absent /\ t = notes[x].into
      BY <1>1, <2>1, <3>1 DEF Linked
    <3>2. CASE ~(notes[x] # Absent /\ t = notes[x].into)
      <4>1. x = p /\ notes'[x] = n
        BY <1>3, <3>2
      <4> QED
        BY <2>1, <3>2, <4>1
    <3> QED BY <3>1, <3>2
  <2>3. Grows(notes, notes', torn', t)
    BY <1>5, <2>1
  <2> HIDE DEF t
  <2>4. notes'[t] # Absent /\ notes[t].from \subseteq notes'[t].from
    <3>1. t \notin torn'
      BY DEF t
    <3> QED BY <2>2, <2>3, <3>1 DEF Grows, GrowsInto
  <2> QED
    BY <2>2, <2>4 DEF t
<1>7. NamedBySources(notes', torn')
  <2> SUFFICES ASSUME NEW q \in Clusters, NEW k \in {"auto", "distill"},
                      notes'[Summary(k, q)] # Absent, Summary(k, q) \notin torn'
               PROVE  notes'[Summary(k, q)].from = Range(q)
    BY DEF NamedBySources
  <2>1. PICK s \in Path : s = Summary(k, q) /\ s # Rolling
    BY SummaryTyped
  <2>2. CASE notes[s] = Absent
    BY <1>3, <2>1, <2>2
  <2>3. CASE notes[s] # Absent
    <3>1. notes[s].from = Range(q)
      BY <1>1, <1>3, <2>1, <2>3 DEF NamedBySources
    <3> QED
      BY <1>5, <2>1, <2>3, <3>1 DEF Grows, GrowsInto
  <2> QED BY <2>2, <2>3
<1> QED
  BY <1>1, <1>3, <1>4, <1>5, <1>6, <1>7 DEF VaultStep

\* Writes that are cut off empty their notes and do nothing else.
LEMMA CutOffStep ==
  ASSUME Inv, NEW P \in SUBSET Path, \A p \in P : notes[p] # Absent, CutOff(P)
  PROVE  VaultStep /\ IntoKept
<1>1. notes \in Vault /\ torn \subseteq {x \in Path : notes[x] # Absent}
      /\ Linked(notes, torn) /\ NamedBySources(notes, torn)
  BY DEF Inv, TypeOK
<1>2. \A x \in Path : notes'[x] = IF x \in P THEN Emptied ELSE notes[x]
  BY DEF CutOff
<1>3. notes' \in Vault /\ torn' = torn \cup P
  BY <1>1, EmptiedTyped DEF CutOff, Vault
<1>4. \A x \in Path : notes'[x] # Absent <=> notes[x] # Absent
  BY <1>2, EmptiedTyped
<1>5. \A x \in Path : Grows(notes, notes', torn', x)
  BY <1>2, <1>3, EmptiedTyped DEF Grows, GrowsInto
<1>6. Linked(notes', torn')
  <2> SUFFICES ASSUME NEW x \in Path, notes'[x] # Absent, notes'[x].into # Nowhere,
                      notes'[x].into \notin torn'
               PROVE  notes'[notes'[x].into] # Absent /\ x \in notes'[notes'[x].into].from
    BY DEF Linked
  <2>1. notes'[x] = notes[x] /\ notes[x].into \in Path
    BY <1>1, <1>2, EmptiedTyped, NoteTyped DEF Note
  <2>2. notes'[notes[x].into] = notes[notes[x].into] /\ notes[x].into \notin torn
    BY <1>2, <1>3, <2>1
  <2> QED
    BY <1>1, <2>1, <2>2 DEF Linked
<1>7. NamedBySources(notes', torn')
  BY <1>1, <1>2, <1>3, SummaryTyped DEF NamedBySources
<1>8. IntoKept
  BY <1>2, EmptiedTyped DEF IntoKept
<1> QED
  BY <1>1, <1>3, <1>4, <1>5, <1>6, <1>7, <1>8 DEF VaultStep

\* A call that a step leaves alone stays in order.
LEMMA CallKept ==
  ASSUME VaultStep, NEW c \in Call, CallOK(notes, torn, c)
  PROVE  CallOK(notes', torn', c)
<1>1. ListKept(notes', torn', c)
  BY SummaryTyped DEF CallOK, ListKept, VaultStep, Grows, GrowsInto
<1>2. SummaryFirst(notes', torn', c)
  <2> SUFFICES ASSUME c.phase \in {"fill", "archive", "stamp", "index"}
               PROVE  SummaryFirst(notes', torn', c)
    BY DEF SummaryFirst
  <2> DEFINE t == Target(c)
  <2>1. t \in Path /\ Source(c) \in Path
    BY PlaceTyped DEF CallOK
  <2>2. Grows(notes, notes', torn', t) /\ Grows(notes, notes', torn', Source(c))
        /\ torn \subseteq torn'
    BY <2>1 DEF VaultStep
  <2>3. /\ notes[t] # Absent
        /\ c.phase \in {"stamp", "index"} => notes[Source(c)] # Absent
        /\ t \notin torn => Lists(notes, c)
    BY DEF CallOK, SummaryFirst
  <2>4. ASSUME t \notin torn' PROVE Lists(notes', c)
    <3>1. Lists(notes, c) /\ GrowsInto(t, notes[t], notes'[t])
      BY <2>2, <2>3, <2>4 DEF Grows
    <3>2. CASE c.kind = "series"
      BY <3>1, <3>2 DEF Lists, GrowsInto, Target
    <3>3. CASE c.kind # "series"
      <4>1. t # Rolling
        <5>1. c.group \in Clusters /\ c.kind \in {"auto", "distill"}
          BY <3>3 DEF CallOK, Placed, Call
        <5> QED BY <3>3, <5>1, SummaryTyped DEF Target
      <4> QED
        BY <3>1, <3>3, <4>1 DEF Lists, GrowsInto
    <3> QED BY <3>2, <3>3
  <2> QED
    BY <2>2, <2>3, <2>4 DEF SummaryFirst, Grows
<1> QED
  BY <1>1, <1>2 DEF CallOK

\* Steps of one call, from what they do to the vault and to that call.
LEMMA CallStepInv ==
  ASSUME Inv, NEW r \in Runs, NEW d \in Call, CallStep(r, d), VaultStep, UNCHANGED editing,
         hidden' \subseteq {p \in Path : notes'[p] # Absent},
         edits' \in 0 .. MaxEdits, calls' \in 0 .. MaxCalls
  PROVE  Inv'
<1>1. run' \in [Runs -> Call] /\ run'[r] = d /\ \A s \in Runs \ {r} : run'[s] = run[s]
  BY DEF Inv, TypeOK, CallStep
<1>2. ASSUME NEW s \in Runs PROVE CallOK(notes', torn', run'[s])
  <2>1. CASE s = r
    BY <1>1, <2>1 DEF CallStep
  <2>2. CASE s # r
    <3>1. run[s] \in Call /\ CallOK(notes, torn, run[s])
      BY DEF Inv, TypeOK
    <3>2. CallOK(notes', torn', run[s])
      BY <3>1, CallKept
    <3> QED
      BY <1>1, <2>2, <3>2
  <2> QED BY <2>1, <2>2
<1>3. editing' \subseteq {p \in Path : notes'[p] # Absent}
  BY DEF Inv, TypeOK, VaultStep, Grows
<1>4. TypeOK'
  BY <1>1, <1>2, <1>3 DEF TypeOK, CallOK, Placed, VaultStep
<1> QED
  BY <1>2, <1>4 DEF Inv, VaultStep

\* Steps that leave the files, the index and the counters alone.
LEMMA QuietStep ==
  ASSUME Inv, NEW r \in Runs, NEW d \in Call, CallOK(notes, torn, d),
         run' = [run EXCEPT ![r] = d], UNCHANGED <<files, hidden>>,
         edits' \in 0 .. MaxEdits, calls' \in 0 .. MaxCalls
  PROVE  Inv' /\ VaultStep /\ IntoKept
<1>1. VaultStep /\ IntoKept
  BY VaultSame DEF files
<1>2. hidden' \subseteq {p \in Path : notes'[p] # Absent}
  BY DEF Inv, TypeOK, files
<1>3. CallStep(r, d)
  BY DEF CallStep, files
<1> QED
  BY <1>1, <1>2, <1>3, CallStepInv DEF files

\* A call that is over is in order.
LEMMA IdleOK ==
  ASSUME NEW v, NEW T
  PROVE  Idle \in Call /\ CallOK(v, T, Idle)
<1>1. Idle \in Call
  BY DEF Idle, Call, Phases, Vault, Nothing
<1>2. CallOK(v, T, Idle)
  BY DEF Idle, CallOK, Placed, SourcesRead, ChunksRead, ListKept, SummaryFirst
<1> QED
  BY <1>1, <1>2

\* Where a call goes after a source.
LEMMA OnwardEnds ==
  ASSUME NEW c \in Call, NEW ph \in Phases, AtEnd(c)
  PROVE  /\ Onward(c, ph) \in Call /\ Onward(c, ph).phase = ph /\ Onward(c, ph).at = 1
         /\ Onward(c, ph).kind = c.kind /\ Onward(c, ph).group = c.group
         /\ Onward(c, ph).read = c.read /\ Onward(c, ph).folded = c.folded
<1>1. PICK i \in Nat \ {0} : i = 1
  OBVIOUS
<1>2. Onward(c, ph) = [c EXCEPT !.phase = ph, !.at = i]
  BY <1>1 DEF Onward
<1> QED
  BY <1>1, <1>2 DEF Call

LEMMA OnwardGoesOn ==
  ASSUME NEW c \in Call, NEW ph \in Phases, ~AtEnd(c)
  PROVE  /\ Onward(c, ph) \in Call /\ Onward(c, ph).phase = c.phase
         /\ Onward(c, ph).at = c.at + 1
         /\ Onward(c, ph).kind = c.kind /\ Onward(c, ph).group = c.group
         /\ Onward(c, ph).read = c.read /\ Onward(c, ph).folded = c.folded
BY DEF Call, Onward

\* What the invariant says of the call r.
LEMMA CallFacts ==
  ASSUME Inv, NEW r \in Runs
  PROVE  /\ run[r] \in Call /\ CallOK(notes, torn, run[r]) /\ notes \in Vault
         /\ Linked(notes, torn) /\ NamedBySources(notes, torn)
         /\ edits \in 0 .. MaxEdits /\ calls \in 0 .. MaxCalls
BY DEF Inv, TypeOK

\* A call begins.
LEMMA BeginStep ==
  ASSUME Inv, NEW r \in Runs,
         \/ \E q \in Clusters : BeginAuto(r, q) \/ BeginDistill(r, q)
         \/ \E q \in Series : BeginSeries(r, q)
  PROVE  Inv' /\ VaultStep /\ IntoKept
<1>1. ASSUME NEW q \in Clusters, NEW k \in {"auto", "distill"}, Begin(r, k, q, "read")
      PROVE  Inv' /\ VaultStep /\ IntoKept
  <2> DEFINE d == [Idle EXCEPT !.kind = k, !.group = q, !.phase = "read"]
  <2>1. 1 \in DOMAIN q
    BY GroupTyped
  <2>2. d \in Call
    BY IdleOK DEF Call, Phases, Idle
  <2>3. CallOK(notes, torn, d)
    BY <2>1 DEF Idle, CallOK, Placed, SourcesRead, ChunksRead, ListKept, SummaryFirst
  <2> HIDE DEF d
  <2>4. run' = [run EXCEPT ![r] = d] /\ calls' = calls + 1 /\ calls < MaxCalls
        /\ UNCHANGED <<files, hidden, edits>>
    BY <1>1 DEF Begin, d
  <2>5. edits' \in 0 .. MaxEdits /\ calls' \in 0 .. MaxCalls
    BY <2>4, CallFacts, BoundsAreNat
  <2> QED
    BY <2>2, <2>3, <2>4, <2>5, QuietStep
<1>2. ASSUME NEW q \in Series, BeginSeries(r, q)
      PROVE  Inv' /\ VaultStep /\ IntoKept
  <2> DEFINE d == [Idle EXCEPT !.kind = "series", !.group = q, !.phase = "target"]
  <2>1. 1 \in DOMAIN q
    BY GroupTyped
  <2>2. d \in Call
    BY IdleOK DEF Call, Phases, Idle
  <2>3. Rolling \notin Range(q)
    BY <1>2 DEF BeginSeries, InFolder
  <2>4. CallOK(notes, torn, d)
    BY <2>1, <2>3, SummaryTyped
       DEF Idle, CallOK, Placed, SourcesRead, ChunksRead, ListKept, SummaryFirst,
           Sources, Chunks, Nothing
  <2> HIDE DEF d
  <2>5. run' = [run EXCEPT ![r] = d] /\ calls' = calls + 1 /\ calls < MaxCalls
        /\ UNCHANGED <<files, hidden, edits>>
    BY <1>2 DEF Begin, BeginSeries, d
  <2>6. edits' \in 0 .. MaxEdits /\ calls' \in 0 .. MaxCalls
    BY <2>5, CallFacts, BoundsAreNat
  <2> QED
    BY <2>2, <2>4, <2>5, <2>6, QuietStep
<1> QED
  BY <1>1, <1>2 DEF BeginAuto, BeginDistill

\* The rolling summary is read.
LEMMA ReadTargetStep ==
  ASSUME Inv, NEW r \in Runs, ReadTarget(r)
  PROVE  Inv' /\ VaultStep /\ IntoKept
<1>1. PICK n \in {File(Rolling), Absent} :
         run' = [run EXCEPT ![r].phase = "read", ![r].read[Rolling] = n]
  BY DEF ReadTarget
<1> DEFINE c == run[r]
           d == [c EXCEPT !.phase = "read", !.read[Rolling] = n]
<1>2. c \in Call /\ CallOK(notes, torn, c) /\ notes \in Vault /\ c.phase = "target"
  BY CallFacts DEF ReadTarget
<1>3. c.kind = "series" /\ c.folded = {}
  BY <1>2 DEF CallOK, SourcesRead, ChunksRead
<1>4. d \in Call /\ d.kind = "series" /\ d.phase = "read" /\ d.group = c.group
      /\ d.at = c.at /\ d.folded = {} /\ d.read[Rolling] = n
  <2>1. n \in Note \cup {Absent}
    BY SummaryTyped, FileTyped
  <2> QED
    BY <1>2, <1>3, <2>1, SummaryTyped DEF Call, Phases, Vault
<1>5. run' = [run EXCEPT ![r] = d]
  BY <1>1 DEF Inv, TypeOK
<1> HIDE DEF d
<1>6. n # Absent => notes[Rolling] # Absent /\ n.from \subseteq notes[Rolling].from
  BY SummaryTyped, FileTyped, EmptiedTyped
<1>7. CallOK(notes, torn, d)
  BY <1>2, <1>3, <1>4, <1>6
     DEF CallOK, Placed, SourcesRead, ChunksRead, ListKept, SummaryFirst, Sources, Chunks
<1> QED
  BY <1>4, <1>5, <1>7, QuietStep, CallFacts DEF ReadTarget

\* A source of auto or distill is read.
LEMMA ReadSourceStep ==
  ASSUME Inv, NEW r \in Runs, ReadSource(r)
  PROVE  Inv' /\ VaultStep /\ IntoKept
<1> DEFINE c == run[r]
           p == Source(c)
           d == [c EXCEPT !.read[p] = File(p)]
           e == Onward(d, "verify")
<1>1. c \in Call /\ CallOK(notes, torn, c) /\ notes \in Vault /\ c.phase = "read" /\ c.kind # "series"
  BY CallFacts DEF ReadSource
<1>2. p \in Path /\ c.at \in 1 .. Len(c.group) /\ Len(c.group) \in Nat
      /\ c.group \in Clusters \cup Series
  BY <1>1, PlaceTyped DEF CallOK
<1>3. CASE run' = [run EXCEPT ![r] = Idle]
  BY <1>3, IdleOK, QuietStep, CallFacts DEF ReadSource
<1>4. CASE notes[p] # Absent /\ run' = [run EXCEPT ![r] = e]
  <2>1. d \in Call /\ d.kind = c.kind /\ d.phase = "read" /\ d.group = c.group
        /\ d.at = c.at /\ d.folded = c.folded
        /\ \A x \in Path : d.read[x] = IF x = p THEN File(p) ELSE c.read[x]
    <3>1. PICK n \in Note \cup {Absent} : n = File(p)
      BY <1>2, FileTyped
    <3>2. d = [c EXCEPT !.read[p] = n]
      BY <3>1
    <3> HIDE DEF d
    <3> QED
      BY <1>1, <1>2, <3>1, <3>2 DEF Call, Vault
  <2>2. \A i \in 1 .. c.at : d.read[c.group[i]] # Absent
    <3>1. \A i \in 1 .. (c.at - 1) : c.read[c.group[i]] # Absent
      BY <1>1 DEF CallOK, SourcesRead
    <3>2. \A i \in 1 .. c.at : c.group[i] \in Path
      BY <1>2, GroupTyped
    <3> QED
      BY <1>2, <1>4, <2>1, <3>1, <3>2, FileTyped DEF Source
  <2> HIDE DEF d
  <2>3. CASE AtEnd(d)
    <3>1. d \in Call /\ "verify" \in Phases
      BY <2>1 DEF Phases
    <3>2. e \in Call /\ e.kind = c.kind /\ e.phase = "verify" /\ e.group = c.group
          /\ e.at = 1 /\ e.folded = c.folded /\ e.read = d.read
      BY <2>1, <2>3, <3>1, OnwardEnds
    <3>3. \A x \in Sources(e) : e.read[x] # Absent
      <4>1. c.at = Len(c.group) /\ DOMAIN c.group = 1 .. Len(c.group)
        BY <1>2, <2>1, <2>3, GroupTyped DEF AtEnd
      <4>2. \A x \in Range(c.group) : \E i \in 1 .. c.at : x = c.group[i]
        BY <4>1 DEF Range
      <4> HIDE DEF e
      <4> QED BY <2>2, <3>2, <4>2 DEF Sources
    <3>4. 1 \in DOMAIN e.group
      BY <1>2, <3>2, GroupTyped
    <3> HIDE DEF e
    <3>5. CallOK(notes, torn, e)
      BY <1>1, <3>2, <3>3, <3>4
         DEF CallOK, Placed, SourcesRead, ChunksRead, ListKept, SummaryFirst
    <3> QED
      BY <1>4, <3>2, <3>5, QuietStep, CallFacts DEF ReadSource
  <2>4. CASE ~AtEnd(d)
    <3>1. d \in Call /\ "verify" \in Phases
      BY <2>1 DEF Phases
    <3>2. e \in Call /\ e.kind = c.kind /\ e.phase = "read" /\ e.group = c.group
          /\ e.at = c.at + 1 /\ e.folded = c.folded /\ e.read = d.read
      BY <2>1, <2>4, <3>1, OnwardGoesOn
    <3>3. e.at \in DOMAIN e.group
      BY <1>2, <2>1, <2>4, <3>2, GroupTyped DEF AtEnd
    <3> HIDE DEF e
    <3>4. CallOK(notes, torn, e)
      BY <1>1, <1>2, <2>2, <3>2, <3>3
         DEF CallOK, Placed, SourcesRead, ChunksRead, ListKept, SummaryFirst
    <3> QED
      BY <1>4, <3>2, <3>4, QuietStep, CallFacts DEF ReadSource
  <2> QED BY <2>3, <2>4
<1> QED
  BY <1>3, <1>4 DEF ReadSource

\* Where a call is while it works.
LEMMA Working ==
  ASSUME Inv, NEW r \in Runs, run[r].phase # "idle"
  PROVE  /\ Source(run[r]) \in Path /\ Source(run[r]) \in Sources(run[r])
         /\ Sources(run[r]) \subseteq Path /\ Target(run[r]) \in Path
         /\ run[r].at \in 1 .. Len(run[r].group) /\ Len(run[r].group) \in Nat
         /\ run[r].group \in Clusters \cup Series
         /\ DOMAIN run[r].group = 1 .. Len(run[r].group)
<1>1. run[r] \in Call /\ Placed(run[r])
  BY CallFacts DEF CallOK
<1>2. run[r].group \in Clusters \cup Series
  BY <1>1, PlaceTyped
<1> QED
  BY <1>1, <1>2, PlaceTyped, GroupTyped

\* A source is folded, resumed or left out.
LEMMA FoldSourceStep ==
  ASSUME Inv, NEW r \in Runs, FoldSource(r)
  PROVE  Inv' /\ VaultStep /\ IntoKept
<1> DEFINE c == run[r]
           p == Source(c)
<1>1. c \in Call /\ CallOK(notes, torn, c) /\ notes \in Vault /\ c.phase = "read" /\ c.kind = "series"
  BY CallFacts DEF FoldSource
<1>2. p \in Path /\ p \in Sources(c) /\ c.at \in 1 .. Len(c.group) /\ Len(c.group) \in Nat
      /\ DOMAIN c.group = 1 .. Len(c.group) /\ p # Rolling
  BY <1>1, Working DEF CallOK, ChunksRead
<1>3. ASSUME NEW d \in Call, d.kind = "series", d.phase = "read", d.group = c.group,
             d.at = c.at, d.read[Rolling] = c.read[Rolling],
             \A x \in Chunks(d) : d.read[x] # Absent,
             run' = [run EXCEPT ![r] = AfterFold(d)]
      PROVE  Inv' /\ VaultStep /\ IntoKept
  <2> DEFINE ph == IF Chunks(d) = {} THEN "archive" ELSE "write"
             e == Onward(d, ph)
  <2>1. Placed(d) /\ Rolling \notin Sources(d) /\ ListKept(notes, torn, d)
    BY <1>1, <1>3 DEF CallOK, Placed, ChunksRead, ListKept, Sources
  <2>2. ph \in Phases
    BY DEF Phases
  <2>3. CASE AfterFold(d) = Idle
    BY <1>3, <2>3, IdleOK, QuietStep, CallFacts DEF FoldSource
  <2>4. CASE AfterFold(d) = e /\ AtEnd(d)
    <3>1. e \in Call /\ e.kind = "series" /\ e.phase = ph /\ e.group = c.group
          /\ e.at = 1 /\ e.folded = d.folded /\ e.read = d.read
      BY <1>3, <2>2, <2>4, OnwardEnds
    <3>2. Placed(e) /\ ListKept(notes, torn, e) /\ ChunksRead(e) /\ SourcesRead(e)
      <4> HIDE DEF e
      <4> QED
        BY <1>2, <1>3, <2>1, <3>1
           DEF Placed, ListKept, ChunksRead, SourcesRead, Sources, Chunks, Listed
    <3>3. SummaryFirst(notes, torn, e)
      <4> SUFFICES ASSUME e.phase \in {"fill", "archive", "stamp", "index"} PROVE SummaryFirst(notes, torn, e)
        BY DEF SummaryFirst
      <4>1. Chunks(d) = {} /\ d.folded # {}
        <5>1. AtEnd(d) /\ d.folded = {} => e = Idle
          BY <2>4 DEF AfterFold
        <5> QED
          BY <2>4, <3>1, <5>1 DEF Idle
      <4>2. e.read[Rolling] # Absent /\ e.folded \subseteq e.read[Rolling].from
        BY <3>1, <4>1 DEF Chunks, Listed
      <4> HIDE DEF e
      <4> QED
        BY <3>1, <3>2, <4>2 DEF SummaryFirst, Lists, ListKept, Target
    <3> HIDE DEF e
    <3>4. CallOK(notes, torn, e)
      BY <3>2, <3>3 DEF CallOK
    <3> QED
      BY <1>3, <2>4, <3>1, <3>4, QuietStep, CallFacts DEF FoldSource
  <2>5. CASE AfterFold(d) = e /\ ~AtEnd(d)
    <3>1. e \in Call /\ e.kind = "series" /\ e.phase = "read" /\ e.group = c.group
          /\ e.at = c.at + 1 /\ e.folded = d.folded /\ e.read = d.read
      BY <1>3, <2>2, <2>5, OnwardGoesOn
    <3>2. e.at \in DOMAIN e.group
      BY <1>2, <1>3, <2>5, <3>1 DEF AtEnd
    <3> HIDE DEF e
    <3>3. CallOK(notes, torn, e)
      BY <1>3, <2>1, <3>1, <3>2
         DEF CallOK, Placed, SourcesRead, ChunksRead, ListKept, SummaryFirst,
             Sources, Chunks, Listed
    <3> QED
      BY <1>3, <2>5, <3>1, <3>3, QuietStep, CallFacts DEF FoldSource
  <2> QED
    BY <2>3, <2>4, <2>5 DEF AfterFold
<1>4. CASE p \in Listed(c) /\ run' = [run EXCEPT ![r] = AfterFold([c EXCEPT !.folded = @ \cup {p}])]
  <2> DEFINE d == [c EXCEPT !.folded = @ \cup {p}]
  <2>1. d \in Call /\ d.kind = "series" /\ d.phase = "read" /\ d.group = c.group
        /\ d.at = c.at /\ d.read = c.read /\ d.folded = c.folded \cup {p}
    BY <1>1, <1>2 DEF Call
  <2> HIDE DEF d
  <2>2. Chunks(d) \subseteq Chunks(c)
    BY <1>4, <2>1 DEF Chunks, Listed
  <2>3. \A x \in Chunks(d) : d.read[x] # Absent
    BY <1>1, <2>1, <2>2 DEF CallOK, ChunksRead
  <2>4. run' = [run EXCEPT ![r] = AfterFold(d)]
    BY <1>4 DEF d
  <2> QED
    BY <1>3, <2>1, <2>3, <2>4
<1>5. CASE /\ notes[p] # Absent
           /\ run' = [run EXCEPT ![r] = AfterFold([c EXCEPT !.folded = @ \cup {p},
                                                            !.read[p] = File(p)])]
  <2> DEFINE d == [c EXCEPT !.folded = @ \cup {p}, !.read[p] = File(p)]
  <2>1. d \in Call /\ d.kind = "series" /\ d.phase = "read" /\ d.group = c.group
        /\ d.at = c.at /\ d.folded = c.folded \cup {p}
        /\ \A x \in Path : d.read[x] = IF x = p THEN File(p) ELSE c.read[x]
    <3>1. PICK n \in Note \cup {Absent} : n = File(p)
      BY <1>2, FileTyped
    <3>2. d = [c EXCEPT !.folded = c.folded \cup {p}, !.read[p] = n]
      BY <3>1
    <3> HIDE DEF d
    <3> QED
      BY <1>1, <1>2, <3>1, <3>2 DEF Call, Vault
  <2> HIDE DEF d
  <2>2. d.read[Rolling] = c.read[Rolling] /\ Chunks(d) \subseteq Chunks(c) \cup {p}
    BY <1>2, <2>1, SummaryTyped DEF Chunks, Listed
  <2>3. \A x \in Chunks(d) : d.read[x] # Absent
    <3>1. Chunks(d) \subseteq Path
      BY <2>1 DEF Chunks, Call
    <3> QED
      BY <1>1, <1>2, <1>5, <2>1, <2>2, <3>1, FileTyped DEF CallOK, ChunksRead
  <2>4. run' = [run EXCEPT ![r] = AfterFold(d)]
    BY <1>5 DEF d
  <2> QED
    BY <1>3, <2>1, <2>2, <2>3, <2>4
<1>6. CASE run' = [run EXCEPT ![r] = AfterFold(c)]
  <2>1. \A x \in Chunks(c) : c.read[x] # Absent
    BY <1>1 DEF CallOK, ChunksRead
  <2> QED
    BY <1>1, <1>3, <1>6, <2>1
<1> QED
  BY <1>4, <1>5, <1>6 DEF FoldSource

\* A source is compared with what was read.
LEMMA VerifyStep ==
  ASSUME Inv, NEW r \in Runs, Verify(r)
  PROVE  Inv' /\ VaultStep /\ IntoKept
<1> DEFINE c == run[r]
           e == Onward(c, "write")
<1>1. c \in Call /\ CallOK(notes, torn, c) /\ notes \in Vault /\ c.phase = "verify"
  BY CallFacts DEF Verify
<1>2. c.at \in 1 .. Len(c.group) /\ Len(c.group) \in Nat
      /\ DOMAIN c.group = 1 .. Len(c.group) /\ "write" \in Phases /\ c.kind # "series"
  BY <1>1, Working DEF Phases, CallOK, ChunksRead
<1>3. CASE run' = [run EXCEPT ![r] = Idle]
  BY <1>3, IdleOK, QuietStep, CallFacts DEF Verify
<1>4. CASE run' = [run EXCEPT ![r] = e]
  <2>1. e \in Call /\ e.kind = c.kind /\ e.phase \in {"verify", "write"}
        /\ e.group = c.group /\ e.folded = c.folded /\ e.read = c.read
        /\ e.at \in DOMAIN e.group
    BY <1>1, <1>2, OnwardEnds, OnwardGoesOn DEF AtEnd
  <2> HIDE DEF e
  <2>2. CallOK(notes, torn, e)
    BY <1>1, <1>2, <2>1
       DEF CallOK, Placed, SourcesRead, ChunksRead, ListKept, SummaryFirst, Sources
  <2> QED
    BY <1>4, <2>1, <2>2, QuietStep, CallFacts DEF Verify
<1> QED
  BY <1>3, <1>4 DEF Verify

\* The summary of auto or distill is a note.
LEMMA DigestTyped ==
  ASSUME NEW v, NEW T, NEW c \in Call, CallOK(v, T, c), c.phase = "write", c.kind # "series"
  PROVE  /\ Digest(c) \in Note /\ Digest(c) # Absent
         /\ Digest(c).into = Nowhere /\ Digest(c).from = Sources(c)
         /\ \A p \in Sources(c) : Digest(c).seen[p] = c.read[p].text
<1>1. Sources(c) \subseteq Path
  BY PlaceTyped DEF CallOK
<1>2. \A p \in Sources(c) : c.read[p] \in Note
  BY <1>1 DEF CallOK, SourcesRead, Call, Vault
<1>3. Digest(c).seen \in [Path -> SUBSET Edits]
  BY <1>1, <1>2 DEF Digest, Note
<1>4. Digest(c).tagged \in BOOLEAN
  BY DEF Digest
<1>5. Digest(c) \in Note
  BY <1>1, <1>3, <1>4 DEF Digest, Note
<1>6. \A p \in Sources(c) : Digest(c).seen[p] = c.read[p].text
  BY <1>1 DEF Digest
<1> QED
  BY <1>5, <1>6, AbsentIsNoNote DEF Digest

\* The rolling summary after a fold is a note that has lost nothing.
LEMMA FoldedTyped ==
  ASSUME NEW v, NEW T, NEW c \in Call, CallOK(v, T, c), c.phase = "write", c.kind = "series"
  PROVE  /\ Folded(c) \in Note /\ Folded(c) # Absent /\ c.folded \subseteq Folded(c).from
         /\ c.read[Rolling] = Absent => Folded(c).into = Nowhere
         /\ c.read[Rolling] # Absent =>
              /\ Folded(c).into = c.read[Rolling].into
              /\ GrowsInto(Rolling, c.read[Rolling], Folded(c))
<1> DEFINE old == c.read[Rolling]
           new == UNION {c.read[p].text : p \in Chunks(c)}
           seen == [p \in Path |-> IF p \in Chunks(c) THEN c.read[p].text ELSE {}]
<1>1. Chunks(c) \subseteq Path /\ \A p \in Chunks(c) : c.read[p] \in Note
  BY DEF Chunks, CallOK, ChunksRead, Call, Vault
<1>2. new \subseteq Edits /\ seen \in [Path -> SUBSET Edits] /\ c.folded \subseteq Path
  BY <1>1 DEF Note, Call
<1>3. old \in Note \cup {Absent}
  BY SummaryTyped DEF Call, Vault
<1>4. CASE c.read[Rolling] = Absent
  <2>1. Folded(c) = [text |-> new, tagged |-> TRUE, archived |-> FALSE, into |-> Nowhere,
                     from |-> c.folded, seen |-> seen]
    BY <1>4 DEF Folded
  <2> HIDE DEF new, seen
  <2>2. Folded(c) \in Note
    BY <1>2, <2>1 DEF Note
  <2>3. Folded(c).from = c.folded /\ Folded(c).into = Nowhere
    BY <2>1
  <2> QED
    BY <1>4, <2>2, <2>3, AbsentIsNoNote
<1>5. CASE c.read[Rolling] # Absent
  <2> DEFINE more == [p \in Path |-> old.seen[p] \cup seen[p]]
  <2>1. old \in Note
    BY <1>3, <1>5
  <2>2. Folded(c) = [old EXCEPT !.text = @ \cup new, !.from = @ \cup c.folded,
                                !.seen = more]
    BY <1>5 DEF Folded
  <2>3. more \in [Path -> SUBSET Edits]
    BY <1>2, <2>1 DEF Note
  <2> HIDE DEF old, new, seen, more
  <2>4. Folded(c) \in Note /\ Folded(c).into = old.into
        /\ Folded(c).text = old.text \cup new /\ Folded(c).from = old.from \cup c.folded
    BY <1>2, <2>1, <2>2, <2>3 DEF Note
  <2> QED
    BY <1>5, <2>4, AbsentIsNoNote DEF old, GrowsInto
<1> QED
  <2>1. CASE c.read[Rolling] = Absent
    BY <1>4, <2>1
  <2>2. CASE c.read[Rolling] # Absent
    BY <1>5, <2>2
  <2> QED
    BY <2>1, <2>2

\* The index follows a vault in which notes are written.
LEMMA HiddenTyped ==
  ASSUME Inv, VaultStep, hidden' \subseteq hidden \cup {p \in Path : notes[p] # Absent}
  PROVE  hidden' \subseteq {p \in Path : notes'[p] # Absent}
BY DEF Inv, TypeOK, VaultStep, Grows

\* The summary of auto or distill is begun, found or refused.
LEMMA WriteSummaryStep ==
  ASSUME Inv, NEW r \in Runs, WriteSummary(r)
  PROVE  Inv' /\ VaultStep /\ IntoKept
<1> DEFINE c == run[r]
           t == Target(c)
           e == [c EXCEPT !.phase = "fill"]
           f == [c EXCEPT !.phase = "archive"]
<1>1. c \in Call /\ CallOK(notes, torn, c) /\ c.phase = "write" /\ c.kind # "series"
      /\ NamedBySources(notes, torn) /\ edits \in 0 .. MaxEdits /\ calls \in 0 .. MaxCalls
      /\ UNCHANGED <<editing, edits, calls>>
  BY CallFacts DEF WriteSummary
<1>2. t \in Path /\ Sources(c) \subseteq Path
  BY <1>1, Working
<1>3. c.group \in Clusters /\ c.kind \in {"auto", "distill"} /\ t = Summary(c.kind, c.group)
      /\ Sources(c) = Range(c.group)
  BY <1>1 DEF CallOK, Placed, Call, Target, Sources
<1>4. CASE UNCHANGED <<notes, torn, hidden>> /\ run' = [run EXCEPT ![r] = Idle]
  BY <1>1, <1>4, IdleOK, QuietStep DEF files
<1>5. CASE /\ notes[t] = Absent /\ Put(t, Digest(c))
           /\ run' = [run EXCEPT ![r] = e] /\ UNCHANGED hidden
  <2>1. /\ Digest(c) \in Note /\ Digest(c).into = Nowhere /\ Digest(c).from = Sources(c)
        /\ \A p \in Sources(c) : Digest(c).seen[p] = c.read[p].text
    BY <1>1, DigestTyped
  <2>2. \A q \in Clusters, k \in {"auto", "distill"} :
           t = Summary(k, q) => Digest(c).from = Range(q)
    BY <1>3, <2>1 DEF Summary
  <2>3. /\ VaultStep /\ notes'[t] # Absent /\ (t \notin torn' => notes'[t] = Digest(c))
        /\ \A x \in Path : x # t => notes'[x] = notes[x]
    <3> HIDE DEF t, c
    <3> QED BY <1>2, <1>5, <2>1, <2>2, PutStep
  <2>4. IntoKept
    BY <1>5, <2>3 DEF IntoKept
  <2>5. e \in Call /\ e.kind = c.kind /\ e.phase = "fill" /\ e.group = c.group
        /\ e.at = c.at /\ e.folded = c.folded /\ e.read = c.read
    BY <1>1 DEF Call, Phases
  <2> HIDE DEF e
  <2>6. CallOK(notes', torn', e)
    <3>1. CallOK(notes', torn', c)
      BY <1>1, <2>3, CallKept
    <3>2. Target(e) = t /\ Sources(e) = Sources(c)
      BY <2>5 DEF Target, Sources
    <3>3. t \notin torn' => Lists(notes', e)
      BY <1>1, <2>1, <2>3, <2>5, <3>2 DEF Lists
    <3> QED
      BY <1>1, <2>3, <2>5, <3>1, <3>2, <3>3
         DEF CallOK, Placed, SourcesRead, ChunksRead, ListKept, SummaryFirst, Sources
  <2>7. hidden' \subseteq {p \in Path : notes'[p] # Absent}
    BY <1>5, <2>3, HiddenTyped
  <2> QED
    BY <1>1, <1>5, <2>3, <2>4, <2>5, <2>6, <2>7, CallStepInv DEF CallStep
<1>6. CASE /\ notes[t] # Absent /\ UNCHANGED <<notes, torn>>
           /\ run' = [run EXCEPT ![r] = f] /\ hidden' = Indexed(t)
           /\ c.kind = "distill" /\ File(t).from = Sources(c)
  <2>1. VaultStep /\ IntoKept
    BY <1>6, VaultSame
  <2>2. f \in Call /\ f.kind = c.kind /\ f.phase = "archive" /\ f.group = c.group
        /\ f.at = c.at /\ f.folded = c.folded /\ f.read = c.read
    BY <1>1 DEF Call, Phases
  <2> HIDE DEF f
  <2>3. CallOK(notes, torn, f)
    <3>1. Target(f) = t /\ Sources(f) = Sources(c)
      BY <2>2 DEF Target, Sources
    <3>2. t \notin torn => Lists(notes, f)
      BY <1>1, <1>3, <1>6, <2>2, <3>1 DEF Lists, NamedBySources
    <3> QED
      BY <1>1, <1>6, <2>2, <3>1, <3>2
         DEF CallOK, Placed, SourcesRead, ChunksRead, ListKept, SummaryFirst, Sources
  <2>4. hidden' \subseteq {p \in Path : notes'[p] # Absent}
    BY <1>2, <1>6, <2>1, HiddenTyped DEF Indexed
  <2> QED
    BY <1>1, <1>6, <2>1, <2>2, <2>3, <2>4, CallStepInv DEF CallStep
<1> QED
  BY <1>4, <1>5, <1>6 DEF WriteSummary

\* The rolling summary is begun or refused.
LEMMA WriteRollingStep ==
  ASSUME Inv, NEW r \in Runs, WriteRolling(r)
  PROVE  Inv' /\ VaultStep /\ IntoKept
<1> DEFINE c == run[r]
           e == [c EXCEPT !.phase = "fill"]
<1>1. c \in Call /\ CallOK(notes, torn, c) /\ c.phase = "write" /\ c.kind = "series"
      /\ edits \in 0 .. MaxEdits /\ calls \in 0 .. MaxCalls
      /\ UNCHANGED <<editing, edits, calls, hidden>>
  BY CallFacts DEF WriteRolling
<1>2. CASE UNCHANGED <<notes, torn>> /\ run' = [run EXCEPT ![r] = Idle]
  BY <1>1, <1>2, IdleOK, QuietStep DEF files
<1>3. CASE /\ File(Rolling) = c.read[Rolling] /\ Put(Rolling, Folded(c))
           /\ run' = [run EXCEPT ![r] = e]
  <2>1. /\ Folded(c) \in Note /\ c.folded \subseteq Folded(c).from
        /\ c.read[Rolling] = Absent => Folded(c).into = Nowhere
        /\ c.read[Rolling] # Absent =>
             Folded(c).into = c.read[Rolling].into /\ GrowsInto(Rolling, c.read[Rolling], Folded(c))
    BY <1>1, FoldedTyped
  <2>2. \/ Folded(c).into = Nowhere
        \/ notes[Rolling] # Absent /\ Folded(c).into = notes[Rolling].into
    BY <1>3, <2>1, SummaryTyped, FileTyped, EmptiedTyped
  <2>3. Rolling \notin Open /\ notes[Rolling] # Absent => GrowsInto(Rolling, notes[Rolling], Folded(c))
    BY <1>3, <2>1, SummaryTyped, FileTyped
  <2>4. /\ VaultStep /\ notes'[Rolling] # Absent /\ notes'[Rolling] \in {notes[Rolling], Folded(c)}
        /\ Rolling \notin torn' => notes'[Rolling] = Folded(c)
        /\ \A x \in Path : x # Rolling => notes'[x] = notes[x]
    <3> HIDE DEF c
    <3> QED BY <1>3, <2>1, <2>2, <2>3, SummaryTyped, PutStep
  <2>5. IntoKept
    BY <2>2, <2>4 DEF IntoKept
  <2>6. e \in Call /\ e.kind = c.kind /\ e.phase = "fill" /\ e.group = c.group
        /\ e.at = c.at /\ e.folded = c.folded /\ e.read = c.read
    BY <1>1 DEF Call, Phases
  <2> HIDE DEF e
  <2>7. CallOK(notes', torn', e)
    <3>1. CallOK(notes', torn', c)
      BY <1>1, <2>4, CallKept
    <3>2. Target(e) = Rolling
      BY <1>1, <2>6 DEF Target
    <3>3. Rolling \notin torn' => Lists(notes', e)
      BY <1>1, <2>1, <2>4, <2>6 DEF Lists
    <3> QED
      BY <1>1, <2>4, <2>6, <3>1, <3>2, <3>3
         DEF CallOK, Placed, SourcesRead, ChunksRead, ListKept, SummaryFirst,
             Sources, Chunks, Listed
  <2>8. hidden' \subseteq {p \in Path : notes'[p] # Absent}
    BY <1>1, <2>4, HiddenTyped
  <2> QED
    BY <1>1, <1>3, <2>4, <2>5, <2>6, <2>7, <2>8, CallStepInv DEF CallStep
<1> QED
  BY <1>2, <1>3 DEF WriteRolling

\* The summary is filled.
LEMMA FillSummaryStep ==
  ASSUME Inv, NEW r \in Runs, FillSummary(r)
  PROVE  Inv' /\ VaultStep /\ IntoKept
<1> DEFINE c == run[r]
           e == [c EXCEPT !.phase = "archive"]
<1>1. c \in Call /\ CallOK(notes, torn, c) /\ c.phase = "fill"
      /\ edits \in 0 .. MaxEdits /\ calls \in 0 .. MaxCalls
      /\ UNCHANGED <<files, edits, calls>>
  BY CallFacts DEF FillSummary
<1>2. VaultStep /\ IntoKept
  BY <1>1, VaultSame DEF files
<1>3. CASE UNCHANGED hidden /\ run' = [run EXCEPT ![r] = Idle]
  BY <1>1, <1>3, IdleOK, QuietStep
<1>4. CASE /\ run' = [run EXCEPT ![r] = e]
           /\ hidden' \in {hidden \cup {Target(c)}, hidden \ {Target(c)}}
  <2>1. Target(c) \in Path /\ notes[Target(c)] # Absent
    BY <1>1, Working DEF CallOK, SummaryFirst
  <2>2. hidden' \subseteq {p \in Path : notes'[p] # Absent}
    BY <1>2, <1>4, <2>1, HiddenTyped
  <2>3. e \in Call /\ e.kind = c.kind /\ e.phase = "archive" /\ e.group = c.group
        /\ e.at = c.at /\ e.folded = c.folded /\ e.read = c.read
    BY <1>1 DEF Call, Phases
  <2> HIDE DEF e
  <2>4. CallOK(notes, torn, e)
    BY <1>1, <2>3
       DEF CallOK, Placed, SourcesRead, ChunksRead, ListKept, SummaryFirst, Lists,
           Sources, Chunks, Listed, Target
  <2> QED
    BY <1>1, <1>2, <1>4, <2>2, <2>3, <2>4, CallStepInv DEF CallStep, files
<1> QED
  BY <1>3, <1>4 DEF FillSummary

\* Where a call goes after an archived source.
LEMMA NextSourceOK ==
  ASSUME NEW v, NEW T, NEW c \in Call, CallOK(v, T, c),
         c.phase \in {"archive", "stamp", "index"}
  PROVE  NextSource(c) \in Call /\ CallOK(v, T, NextSource(c))
<1> DEFINE e == [c EXCEPT !.phase = "archive", !.at = @ + 1]
<1>1. CASE AtEnd(c)
  BY <1>1, IdleOK DEF NextSource
<1>2. CASE ~AtEnd(c)
  <2>1. c.at \in 1 .. Len(c.group) /\ Len(c.group) \in Nat /\ DOMAIN c.group = 1 .. Len(c.group)
    BY PlaceTyped, GroupTyped DEF CallOK
  <2>2. e \in Call /\ e.kind = c.kind /\ e.phase = "archive" /\ e.group = c.group
        /\ e.at = c.at + 1 /\ e.folded = c.folded /\ e.read = c.read
    <3>1. PICK ph \in Phases : ph = "archive"
      BY DEF Phases
    <3>2. PICK i \in Nat \ {0} : i = c.at + 1
      BY <2>1
    <3>3. e = [c EXCEPT !.phase = ph, !.at = i]
      BY <3>1, <3>2
    <3> HIDE DEF e
    <3> QED
      BY <3>1, <3>2, <3>3 DEF Call
  <2>3. e.at \in DOMAIN e.group
    <3> HIDE DEF e
    <3> QED BY <1>2, <2>1, <2>2 DEF AtEnd
  <2>4. NextSource(c) = e
    BY <1>2 DEF NextSource
  <2> HIDE DEF e
  <2>5. CallOK(v, T, e)
    BY <2>2, <2>3
       DEF CallOK, Placed, SourcesRead, ChunksRead, ListKept, SummaryFirst, Lists,
           Sources, Chunks, Listed, Target
  <2> QED
    BY <2>2, <2>4, <2>5
<1> QED
  BY <1>1, <1>2

\* What a call of auto may archive is what its summary was made from.
Hides ==
    \A p \in Path, q \in Clusters :
        notes[p] # Absent /\ notes[p].into # Summary("auto", q)
          /\ notes'[p].into = Summary("auto", q) /\ Summary("auto", q) \notin torn'
            => notes'[Summary("auto", q)].seen[p] = notes'[p].text

\* The write that archives a source is begun, or the source is left alone.
LEMMA ArchiveSourceStep ==
  ASSUME Inv, NEW r \in Runs, ArchiveSource(r)
  PROVE  Inv' /\ VaultStep /\ (IntoKept \/ Hides)
<1> DEFINE c == run[r]
           p == Source(c)
           t == Target(c)
           e == [c EXCEPT !.phase = "stamp"]
           n == Archived(File(p), t)
<1>1. c \in Call /\ CallOK(notes, torn, c) /\ c.phase = "archive"
      /\ edits \in 0 .. MaxEdits /\ calls \in 0 .. MaxCalls
      /\ UNCHANGED <<editing, edits, calls, hidden>>
  BY CallFacts DEF ArchiveSource
<1>2. p \in Path /\ p \in Sources(c) /\ t \in Path
  BY <1>1, Working
<1>3. CASE UNCHANGED <<notes, torn>> /\ run' = [run EXCEPT ![r] = NextSource(c)]
  BY <1>1, <1>3, NextSourceOK, QuietStep DEF files
<1>4. CASE MayArchive(c, p) /\ Put(p, n) /\ run' = [run EXCEPT ![r] = e]
  <2>1. /\ notes[p] # Absent
        /\ c.kind = "series" => p \in c.folded
        /\ c.kind # "series" => File(p) = c.read[p]
    <3>1. c.kind # "series" => c.read[p] # Absent
      BY <1>1, <1>2 DEF CallOK, SourcesRead
    <3>2. c.kind = "series" => p \in c.folded /\ notes[p] # Absent
      BY <1>4 DEF MayArchive
    <3>3. c.kind # "series" => File(p) = c.read[p]
      BY <1>4 DEF MayArchive, Unchanged
    <3> QED
      BY <1>2, <3>1, <3>2, <3>3, FileTyped
  <2>2. notes[t] # Absent /\ (t \notin torn => Lists(notes, c) /\ p \in notes[t].from)
    <3>1. notes[t] # Absent /\ (t \notin torn => Lists(notes, c))
      BY <1>1 DEF CallOK, SummaryFirst
    <3>2. CASE c.kind = "series"
      BY <2>1, <3>1, <3>2 DEF Lists, Target
    <3>3. CASE c.kind # "series"
      BY <1>2, <3>1, <3>3 DEF Lists
    <3> QED
      BY <3>1, <3>2, <3>3
  <2>3. /\ n \in Note /\ n.into = t /\ n.text = File(p).text
        /\ n.from = File(p).from /\ n.seen = File(p).seen
    <3>1. File(p) \in Note
      BY <1>2, <2>1, FileTyped
    <3>2. PICK b \in BOOLEAN : b = TRUE
      OBVIOUS
    <3>3. n = [File(p) EXCEPT !.archived = b, !.into = t]
      BY <3>2 DEF Archived
    <3> HIDE DEF n, t, p
    <3> QED
      BY <1>2, <3>1, <3>3 DEF Note
  <2>4. p \notin Open => GrowsInto(p, notes[p], n)
    BY <1>2, <2>3, FileTyped DEF GrowsInto
  <2>5. /\ VaultStep /\ notes'[p] # Absent /\ notes'[p] \in {notes[p], n}
        /\ \A x \in Path : x # p => notes'[x] = notes[x]
        /\ \A x \in Path : notes[x] # Absent => notes'[x] # Absent
    <3> HIDE DEF n, t, p, c
    <3> QED BY <1>2, <1>4, <2>1, <2>2, <2>3, <2>4, PutStep
  <2>6. e \in Call /\ e.kind = c.kind /\ e.phase = "stamp" /\ e.group = c.group
        /\ e.at = c.at /\ e.folded = c.folded /\ e.read = c.read
    BY <1>1 DEF Call, Phases
  <2> HIDE DEF e
  <2>7. CallOK(notes', torn', e)
    <3>1. CallOK(notes', torn', c)
      BY <1>1, <2>5, CallKept
    <3>2. notes'[Source(e)] # Absent
      BY <2>5, <2>6 DEF Source
    <3> QED
      BY <1>1, <2>6, <3>1, <3>2
         DEF CallOK, Placed, SourcesRead, ChunksRead, ListKept, SummaryFirst, Lists,
             Sources, Chunks, Listed, Target
  <2>8. Inv'
    <3>1. hidden' \subseteq {x \in Path : notes'[x] # Absent}
      BY <1>1, <2>5, HiddenTyped
    <3> QED
      BY <1>1, <1>4, <2>5, <2>6, <2>7, <3>1, CallStepInv DEF CallStep
  <2>9. Hides
    <3> SUFFICES ASSUME NEW x \in Path, NEW q \in Clusters, notes[x] # Absent,
                        notes[x].into # Summary("auto", q), notes'[x].into = Summary("auto", q),
                        Summary("auto", q) \notin torn'
                 PROVE  notes'[Summary("auto", q)].seen[x] = notes'[x].text
      BY DEF Hides
    <3>1. x = p /\ t = Summary("auto", q) /\ notes'[p] = n
      BY <2>3, <2>5
    <3>2. c.kind = "auto"
      <4>1. c.kind # "series"
        BY <3>1, SummaryTyped DEF Target
      <4> QED
        BY <3>1, <4>1 DEF Target, Summary
    <3>3. t \notin torn /\ t \notin torn' /\ t # Rolling
      BY <2>5, <3>1, SummaryTyped DEF VaultStep
    <3>4. notes[t].seen[p] = c.read[p].text /\ n.text = c.read[p].text
      BY <1>2, <2>1, <2>2, <2>3, <3>2, <3>3 DEF Lists
    <3>5. notes'[t].seen = notes[t].seen
      BY <1>2, <2>2, <2>5, <3>3 DEF VaultStep, Grows, GrowsInto
    <3> HIDE DEF n, p, t
    <3> QED
      BY <3>1, <3>4, <3>5
  <2> QED
    BY <2>5, <2>8, <2>9
<1> QED
  BY <1>3, <1>4 DEF ArchiveSource

\* The archived source is filled.
LEMMA FillSourceStep ==
  ASSUME Inv, NEW r \in Runs, FillSource(r)
  PROVE  Inv' /\ VaultStep /\ IntoKept
<1> DEFINE c == run[r]
           e == [c EXCEPT !.phase = "index"]
<1>1. c \in Call /\ CallOK(notes, torn, c) /\ c.phase = "stamp"
      /\ edits \in 0 .. MaxEdits /\ calls \in 0 .. MaxCalls
  BY CallFacts DEF FillSource
<1>2. e \in Call /\ e.kind = c.kind /\ e.phase = "index" /\ e.group = c.group
      /\ e.at = c.at /\ e.folded = c.folded /\ e.read = c.read
  BY <1>1 DEF Call, Phases
<1>3. run' = [run EXCEPT ![r] = e]
  BY DEF FillSource
<1> HIDE DEF e
<1>4. CallOK(notes, torn, e)
  BY <1>1, <1>2
     DEF CallOK, Placed, SourcesRead, ChunksRead, ListKept, SummaryFirst, Lists,
         Sources, Source, Chunks, Listed, Target
<1> QED
  BY <1>1, <1>2, <1>3, <1>4, QuietStep DEF FillSource

\* A write is cut off and its call goes on.
LEMMA FailWriteStep ==
  ASSUME Inv, NEW r \in Runs, FailWrite(r)
  PROVE  Inv' /\ VaultStep /\ IntoKept
<1> DEFINE c == run[r]
<1>1. c \in Call /\ CallOK(notes, torn, c) /\ c.phase \in {"fill", "stamp"}
      /\ edits \in 0 .. MaxEdits /\ calls \in 0 .. MaxCalls
      /\ UNCHANGED <<editing, edits, calls, hidden>>
  BY CallFacts DEF FailWrite
<1>2. Target(c) \in Path /\ Source(c) \in Path /\ notes[Target(c)] # Absent
      /\ (c.phase = "stamp" => notes[Source(c)] # Absent)
  BY <1>1, Working DEF CallOK, SummaryFirst
<1>3. PICK d \in {Idle, NextSource(c)} :
         run' = [run EXCEPT ![r] = d] /\ (c.phase = "fill" => d = Idle)
  BY DEF FailWrite
<1>4. VaultStep /\ IntoKept
  BY <1>1, <1>2, CutOffStep DEF FailWrite
<1>5. d \in Call /\ CallOK(notes', torn', d)
  <2>1. CASE d = Idle
    BY <2>1, IdleOK
  <2>2. CASE d = NextSource(c) /\ c.phase = "stamp"
    BY <1>1, <1>4, <2>2, CallKept, NextSourceOK
  <2> QED BY <1>1, <1>3, <2>1, <2>2
<1>6. hidden' \subseteq {p \in Path : notes'[p] # Absent}
  BY <1>1, <1>4, HiddenTyped
<1> QED
  BY <1>1, <1>3, <1>4, <1>5, <1>6, CallStepInv DEF CallStep

\* An archived source is indexed, or that fails.
LEMMA IndexSourceStep ==
  ASSUME Inv, NEW r \in Runs, IndexSource(r)
  PROVE  Inv' /\ VaultStep /\ IntoKept
<1> DEFINE c == run[r]
           e == NextSource(c)
<1>1. c \in Call /\ CallOK(notes, torn, c) /\ c.phase = "index"
      /\ edits \in 0 .. MaxEdits /\ calls \in 0 .. MaxCalls
      /\ UNCHANGED <<files, edits, calls>> /\ run' = [run EXCEPT ![r] = e]
  BY CallFacts DEF IndexSource
<1>2. e \in Call /\ CallOK(notes, torn, e)
  BY <1>1, NextSourceOK
<1>3. VaultStep /\ IntoKept
  BY <1>1, VaultSame DEF files
<1>4. hidden' \subseteq {p \in Path : notes'[p] # Absent}
  <2>1. notes[Source(c)] # Absent /\ Source(c) \in Path
    BY <1>1, Working DEF CallOK, SummaryFirst
  <2> QED
    BY <1>3, <2>1, HiddenTyped DEF IndexSource, Indexed
<1> HIDE DEF e
<1> QED
  BY <1>1, <1>2, <1>3, <1>4, CallStepInv DEF CallStep, files

\* Steps that leave the calls alone.
LEMMA OtherStepInv ==
  ASSUME Inv, VaultStep, UNCHANGED run,
         hidden' \subseteq {p \in Path : notes'[p] # Absent},
         editing' \subseteq {p \in Path : notes'[p] # Absent},
         edits' \in 0 .. MaxEdits, calls' \in 0 .. MaxCalls
  PROVE  Inv'
<1>1. ASSUME NEW s \in Runs PROVE CallOK(notes', torn', run'[s])
  BY CallFacts, CallKept
<1>2. TypeOK'
  BY <1>1 DEF Inv, TypeOK, VaultStep
<1> QED
  BY <1>1, <1>2 DEF Inv, VaultStep

\* A user begins to write a note.
LEMMA EditNoteStep ==
  ASSUME Inv, NEW p \in Path, EditNote(p)
  PROVE  Inv' /\ VaultStep /\ IntoKept
<1> DEFINE n == [File(p) EXCEPT !.text = @ \cup {edits + 1}]
<1>1. notes[p] # Absent /\ File(p) \in Note /\ edits \in 0 .. MaxEdits
      /\ calls \in 0 .. MaxCalls /\ Put(p, n)
  BY FileTyped DEF Inv, TypeOK, EditNote
<1>2. edits + 1 \in Edits /\ edits' = edits + 1
  BY <1>1, BoundsAreNat DEF EditNote, Edits
<1>3. n \in Note /\ n.into = File(p).into /\ File(p).text \subseteq n.text
      /\ n.from = File(p).from /\ n.seen = File(p).seen
  BY <1>1, <1>2 DEF Note
<1> HIDE DEF n
<1>4. n.into \in {notes[p].into, Nowhere}
  BY <1>3, FileTyped, EmptiedTyped
<1>5. p \notin Open => GrowsInto(p, notes[p], n)
  BY <1>3, FileTyped DEF GrowsInto
<1>6. /\ VaultStep /\ notes'[p] # Absent /\ notes'[p] \in {notes[p], n}
      /\ \A x \in Path : x # p => notes'[x] = notes[x]
      /\ \A x \in Path : notes[x] # Absent => notes'[x] # Absent
  BY <1>1, <1>3, <1>4, <1>5, PutStep
<1>7. IntoKept
  BY <1>4, <1>6 DEF IntoKept
<1>8. hidden' \subseteq {x \in Path : notes'[x] # Absent}
      /\ editing' \subseteq {x \in Path : notes'[x] # Absent}
  BY <1>6 DEF EditNote, Inv, TypeOK
<1>9. edits' \in 0 .. MaxEdits
  BY <1>2 DEF Edits
<1> QED
  BY <1>1, <1>6, <1>7, <1>8, <1>9, OtherStepInv DEF EditNote

\* A user's file is filled, or that is cut off.
LEMMA SaveEditStep ==
  ASSUME Inv, NEW p \in Path, SaveEdit(p) \/ FailEdit(p)
  PROVE  Inv' /\ VaultStep /\ IntoKept
<1>1. notes[p] # Absent /\ edits \in 0 .. MaxEdits /\ calls \in 0 .. MaxCalls
      /\ UNCHANGED <<run, edits, calls>> /\ editing' \subseteq editing
  BY DEF Inv, TypeOK, SaveEdit, FailEdit
<1>2. VaultStep /\ IntoKept
  BY <1>1, VaultSame, CutOffStep DEF SaveEdit, FailEdit
<1>3. hidden' \subseteq hidden \cup {p}
  BY DEF SaveEdit, FailEdit
<1>4. hidden' \subseteq {x \in Path : notes'[x] # Absent}
  BY <1>1, <1>2, <1>3, HiddenTyped
<1>5. editing' \subseteq {x \in Path : notes'[x] # Absent}
  BY <1>1, <1>2 DEF Inv, TypeOK, IntoKept
<1> QED
  BY <1>1, <1>2, <1>4, <1>5, OtherStepInv

\* The index is built again.
LEMMA ReindexStep ==
  ASSUME Inv, Reindex
  PROVE  Inv' /\ VaultStep /\ IntoKept
<1>1. VaultStep /\ IntoKept /\ UNCHANGED <<notes, editing, run, edits, calls>>
  BY VaultSame DEF Reindex, files
<1>2. hidden' \subseteq {p \in Path : notes'[p] # Absent}
  BY <1>1 DEF Reindex
<1> QED
  BY <1>1, <1>2, OtherStepInv DEF Inv, TypeOK

\* The process dies, with its writes cut off, and comes back.
LEMMA CrashStep ==
  ASSUME Inv, Crash
  PROVE  Inv' /\ VaultStep /\ IntoKept
<1>1. Open \subseteq Path
  BY DEF Open, Inv, TypeOK
<1>2. VaultStep /\ IntoKept
  BY <1>1, FileTyped, CutOffStep DEF Crash
<1>3. run' \in [Runs -> Call] /\ \A s \in Runs : CallOK(notes', torn', run'[s]) /\ run'[s].phase = "idle"
  BY IdleOK DEF Idle, Crash
<1>4. TypeOK'
  BY <1>2, <1>3 DEF Inv, TypeOK, Crash, VaultStep
<1> QED
  BY <1>2, <1>3, <1>4 DEF Inv, VaultStep

-----------------------------------------------------------------------------
(* The theorems.                                                             *)

\* Every step keeps the invariant, loses nothing and hides only what was read.
LEMMA StepInv == Inv /\ [Next]_vars => Inv' /\ VaultStep /\ Hides
<1> SUFFICES ASSUME Inv, [Next]_vars
             PROVE  Inv' /\ VaultStep /\ Hides
  OBVIOUS
<1>1. IntoKept => Hides
  BY SummaryTyped, PathsApart DEF IntoKept, Hides
<1>2. CASE UNCHANGED vars
  <2>1. VaultStep /\ IntoKept
    BY <1>2, VaultSame DEF vars
  <2> QED
    BY <1>1, <1>2, <2>1, OtherStepInv DEF vars, Inv, TypeOK
<1>3. ASSUME NEW r \in Runs, Consolidate(r)
      PROVE  Inv' /\ VaultStep /\ Hides
  <2>1. CASE \/ \E q \in Clusters : BeginAuto(r, q) \/ BeginDistill(r, q)
             \/ \E q \in Series : BeginSeries(r, q)
    BY <1>1, <2>1, BeginStep
  <2>2. CASE ReadTarget(r)
    BY <1>1, <2>2, ReadTargetStep
  <2>3. CASE ReadSource(r)
    BY <1>1, <2>3, ReadSourceStep
  <2>4. CASE FoldSource(r)
    BY <1>1, <2>4, FoldSourceStep
  <2>5. CASE Verify(r)
    BY <1>1, <2>5, VerifyStep
  <2>6. CASE WriteSummary(r)
    BY <1>1, <2>6, WriteSummaryStep
  <2>7. CASE WriteRolling(r)
    BY <1>1, <2>7, WriteRollingStep
  <2>8. CASE FillSummary(r)
    BY <1>1, <2>8, FillSummaryStep
  <2>9. CASE ArchiveSource(r)
    BY <1>1, <2>9, ArchiveSourceStep
  <2>10. CASE FillSource(r)
    BY <1>1, <2>10, FillSourceStep
  <2>11. CASE IndexSource(r)
    BY <1>1, <2>11, IndexSourceStep
  <2>12. CASE FailWrite(r)
    BY <1>1, <2>12, FailWriteStep
  <2> QED
    BY <1>3, <2>1, <2>2, <2>3, <2>4, <2>5, <2>6, <2>7, <2>8, <2>9, <2>10, <2>11, <2>12
       DEF Consolidate
<1>4. ASSUME NEW p \in Path, EditNote(p) \/ SaveEdit(p) \/ FailEdit(p)
      PROVE  Inv' /\ VaultStep /\ Hides
  BY <1>1, <1>4, EditNoteStep, SaveEditStep
<1>5. CASE Reindex
  BY <1>1, <1>5, ReindexStep
<1>6. CASE Crash
  BY <1>1, <1>6, CrashStep
<1> QED
  BY <1>2, <1>3, <1>4, <1>5, <1>6 DEF Next

\* The invariant holds in every behaviour of the consolidators.
THEOREM Invariant == Spec => []Inv
<1>1. Inv /\ [Next]_vars => Inv'
  BY StepInv
<1> QED
  BY InitInv, <1>1, PTL DEF Spec

\* The vault, the index and the calls keep their types.
THEOREM TypeCorrect == Spec => []TypeOK
<1>1. Inv => TypeOK
  BY DEF Inv
<1> QED
  BY Invariant, <1>1, PTL

\* Whatever is archived into a summary is listed by it, unless a write of the summary was
\* itself cut off: for any groups of notes, any number of overlapping calls, failures at
\* every file and crashes at every point.
THEOREM ArchivedIsLinkedBack == Spec => []LinkedBack
<1>1. Inv => LinkedBack
  BY DEF Inv, Linked, LinkedBack
<1> QED
  BY Invariant, <1>1, PTL

\* No step of any consolidator, reader, failure or crash loses an edit that a user made,
\* but for the notes with a write that was itself cut off.
THEOREM TextIsKept == Spec => KeepsText
<1>1. Inv /\ [Next]_vars =>
        [\A p \in Path : notes[p] # Absent =>
            /\ notes'[p] # Absent
            /\ p \notin torn' => notes[p].text \subseteq notes'[p].text]_vars
  BY StepInv DEF VaultStep, Grows, GrowsInto
<1> QED
  BY Invariant, <1>1, PTL DEF Spec, KeepsText

\* The dream hides a source only with the text that its summary was made from.
THEOREM AutoHidesOnlyWhatItRead == Spec => AutoHidesWhatItRead
<1>1. Inv /\ [Next]_vars =>
        [\A p \in Path, q \in Clusters :
            LET t == Summary("auto", q)
            IN  notes[p] # Absent /\ notes[p].into # t /\ notes'[p].into = t /\ t \notin torn'
                  => notes'[t].seen[p] = notes'[p].text]_vars
  BY StepInv DEF Hides
<1> QED
  BY Invariant, <1>1, PTL DEF Spec, AutoHidesWhatItRead

=============================================================================
