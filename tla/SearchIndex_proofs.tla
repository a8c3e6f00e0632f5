--------------------------- MODULE SearchIndex_proofs ---------------------------
(***************************************************************************)
(* Proofs about the search index, for any paths, any number of vaults and  *)
(* any number of overlapping rebuilds and calls of indexNote: the types,   *)
(* SameIds and FullRebuildIsExact. The last needs an account of how far a  *)
(* full rebuild has come that nothing has disturbed: the vaults it has     *)
(* left, the path it has in hand, and what it has made of the others.      *)
(***************************************************************************)
EXTENDS SearchIndex, TLAPS

\* What a rebuild is about to store is the text of a file.
StoresText == \A b \in Rebuilds : rebuild[b].at = "store" => rebuild[b].text # 0

Inv == TypeOK /\ StoresText /\ SameIds

\* The invariant by parts.
CallOK(c) ==
    /\ c.at \in {"stat", "read", "store", "stamp"} => c.path \in Paths
    /\ c.at = "store" => c.text # 0

RebuildsOK == rebuild \in [Rebuilds -> Call] /\ \A b \in Rebuilds : CallOK(rebuild[b])

IndexOK ==
    /\ isFirstBuild \in BOOLEAN
    /\ docMeta \in [Paths -> Version] /\ miniSearch \in [Paths -> Version]
    /\ fileMtimes \in [Vaults -> [Paths -> Version]]
    /\ SameIds

WorldOK ==
    /\ files \in [Vaults -> [Paths -> Version]]
    /\ known \in SUBSET Vaults /\ 1 \in known /\ allowed \in Allowlists
    /\ changed \in BOOLEAN /\ written \subseteq Paths /\ deleted \subseteq Paths

RestOK ==
    /\ indexing \in [Indexers -> [path : Paths, text : Version \ {0}] \cup {None}]
    /\ up \in BOOLEAN
    /\ writes \in Version /\ forced \in 0 .. MaxUpsets /\ fails \in 0 .. MaxUpsets

-----------------------------------------------------------------------------
\* Zero and one are versions where they have to be.
LEMMA Zero == 0 \in Version /\ 1 \in Vaults /\ Empty \in [Paths -> Version]
BY ConstantsTyped DEF Version, Vaults, Empty

\* A call that is over.
LEMMA IdleTyped == Idle \in Call /\ Idle.at = "idle"
<1>1. Empty \in [Paths -> 0 .. NumVaults]
  BY ConstantsTyped DEF Empty
<1> QED
  BY <1>1, Zero DEF Idle, Call

\* The initial states satisfy the invariant.
LEMMA InitInv == Init => Inv
<1> SUFFICES ASSUME Init PROVE Inv
  OBVIOUS
<1>1. files \in [Vaults -> [Paths -> Version]] /\ writes \in Version
  <2>1. {0, 1} \subseteq Version
    BY ConstantsTyped DEF Version
  <2> QED
    BY <2>1 DEF Init
<1>2. TypeOK
  <2>1. known \in SUBSET Vaults /\ 1 \in known /\ allowed \in Allowlists
        /\ written \subseteq Paths /\ deleted \subseteq Paths /\ calm \subseteq Rebuilds
    BY Zero DEF Init
  <2>2. changed \in BOOLEAN /\ isFirstBuild \in BOOLEAN /\ up \in BOOLEAN
    BY DEF Init
  <2>3. docMeta \in [Paths -> Version] /\ miniSearch \in [Paths -> Version]
        /\ fileMtimes \in [Vaults -> [Paths -> Version]]
    BY Zero DEF Init
  <2>4. rebuild \in [Rebuilds -> Call] /\ \A b \in Rebuilds : rebuild[b].at = "idle"
    BY IdleTyped DEF Init
  <2>5. indexing \in [Indexers -> [path : Paths, text : Version \ {0}] \cup {None}]
    BY DEF Init
  <2>6. forced \in 0 .. MaxUpsets /\ fails \in 0 .. MaxUpsets
    BY ConstantsTyped DEF Init
  <2> QED
    BY <1>1, <2>1, <2>2, <2>3, <2>4, <2>5, <2>6 DEF TypeOK
<1>3. StoresText /\ SameIds
  BY IdleTyped DEF Init, StoresText, SameIds, Empty
<1> QED
  BY <1>2, <1>3 DEF Inv

\* The parts are the whole.
LEMMA Parts == (calm \subseteq Rebuilds /\ RebuildsOK /\ IndexOK /\ WorldOK /\ RestOK) <=> Inv
BY DEF RebuildsOK, CallOK, IndexOK, WorldOK, RestOK, Inv, TypeOK, StoresText

LEMMA PartsAfter ==
  (calm' \subseteq Rebuilds /\ RebuildsOK' /\ IndexOK' /\ WorldOK' /\ RestOK') => Inv'
BY DEF RebuildsOK, CallOK, IndexOK, WorldOK, RestOK, Inv, TypeOK, StoresText

\* A step of one rebuild.
LEMMA RebuildGoes ==
  ASSUME RebuildsOK, NEW b \in Rebuilds, NEW d \in Call, CallOK(d),
         rebuild' = [rebuild EXCEPT ![b] = d]
  PROVE  RebuildsOK'
<1>1. rebuild' \in [Rebuilds -> Call]
  BY DEF RebuildsOK
<1>2. ASSUME NEW c \in Rebuilds PROVE CallOK(rebuild'[c])
  BY DEF RebuildsOK
<1> QED
  BY <1>1, <1>2 DEF RebuildsOK

\* A rebuild begins.
LEMMA BeginParts ==
  ASSUME RebuildsOK, IndexOK, WorldOK, RestOK, NEW b \in Rebuilds, Begin(b)
  PROVE  RebuildsOK' /\ IndexOK' /\ WorldOK' /\ RestOK'
<1> DEFINE d == [Idle EXCEPT !.at = "walk", !.vaults = known]
<1>1. d \in Call /\ CallOK(d)
  BY IdleTyped, Zero DEF Idle, Call, CallOK, WorldOK
<1>2. \E full \in BOOLEAN : Start(b, full)
  BY DEF Begin, Boot, Interval, Repair, Reindex, IndexOK
<1>3. PICK full \in BOOLEAN : Start(b, full)
  BY <1>2
<1>4. RebuildsOK'
  <2>1. rebuild' = [rebuild EXCEPT ![b] = d]
    BY <1>3 DEF Start
  <2> HIDE DEF d
  <2> QED BY <1>1, <2>1, RebuildGoes
<1>5. isFirstBuild' \in BOOLEAN
  BY DEF Begin, Boot, Interval, Repair, Reindex, IndexOK
<1>6. IndexOK'
  <2>1. CASE full
    <3>1. docMeta' = Empty /\ miniSearch' = Empty /\ fileMtimes' = [v \in Vaults |-> Empty]
      BY <1>3, <2>1 DEF Start, Clear
    <3> QED
      BY <1>5, <3>1, Zero DEF IndexOK, SameIds
  <2>2. CASE ~full
    BY <1>3, <1>5, <2>2 DEF Start, Clear, IndexOK, SameIds
  <2> QED BY <2>1, <2>2
<1>7. WorldOK'
  BY DEF Begin, Boot, Interval, Repair, Reindex, WorldOK, world
<1>8. RestOK'
  <2>1. writes' \in Version /\ forced' \in 0 .. MaxUpsets /\ fails' \in 0 .. MaxUpsets
    <3>1. UNCHANGED <<writes, fails>> /\ (UNCHANGED forced \/ (forced + fails < MaxUpsets /\ forced' = forced + 1))
      BY DEF Begin, Boot, Interval, Repair, Reindex, counters
    <3> QED
      BY <3>1, ConstantsTyped DEF RestOK
  <2> QED
    BY <2>1 DEF Begin, Boot, Interval, Repair, Reindex, RestOK
<1> QED
  BY <1>4, <1>6, <1>7, <1>8

\* A list that fails or not is a set of paths, of one vault.
LEMMA ListSets ==
  ASSUME RebuildsOK, NEW b \in Rebuilds, ListVault(b)
  PROVE  \E v \in Vaults, todo \in SUBSET Paths : rebuild' = [rebuild EXCEPT ![b] =
            [rebuild[b] EXCEPT !.vaults = @ \ {v}, !.vault = v, !.todo = todo]]
<1>1. NextVault(rebuild[b]) \subseteq Vaults
  BY DEF NextVault, First, Call, RebuildsOK
<1>2. \A v \in Vaults : {p \in Paths : files[v][p] # 0 /\ Indexable(v, p)} \in SUBSET Paths /\ {} \in SUBSET Paths
  OBVIOUS
<1> QED
  BY <1>1, <1>2 DEF ListVault

\* A vault is listed.
LEMMA ListVaultParts ==
  ASSUME RebuildsOK, IndexOK, WorldOK, RestOK, NEW b \in Rebuilds, ListVault(b)
  PROVE  RebuildsOK' /\ IndexOK' /\ WorldOK' /\ RestOK'
<1> DEFINE c == rebuild[b]
           Listed(v, todo) == [c EXCEPT !.vaults = @ \ {v}, !.vault = v, !.todo = todo]
<1>1. c \in Call /\ CallOK(c) /\ c.at = "walk"
  BY DEF RebuildsOK, ListVault, Walking
<1>3. PICK v \in Vaults, todo \in SUBSET Paths : rebuild' = [rebuild EXCEPT ![b] = Listed(v, todo)]
  BY ListSets
<1>4. Listed(v, todo) \in Call /\ CallOK(Listed(v, todo))
  BY <1>1 DEF Call, CallOK
<1>5. RebuildsOK'
  BY <1>3, <1>4, RebuildGoes
<1>6. IndexOK' /\ WorldOK'
  BY DEF ListVault, index, world, IndexOK, WorldOK, SameIds
<1>7. RestOK'
  BY ConstantsTyped DEF ListVault, RestOK
<1> QED
  BY <1>5, <1>6, <1>7

\* A file of the list is taken up or skipped.
LEMMA NextFileParts ==
  ASSUME RebuildsOK, IndexOK, WorldOK, RestOK, NEW b \in Rebuilds, NextFile(b)
  PROVE  RebuildsOK' /\ IndexOK' /\ WorldOK' /\ RestOK'
<1> DEFINE c == rebuild[b]
<1>1. c \in Call /\ c.at = "walk"
  BY DEF RebuildsOK, NextFile, Walking
<1>2. PICK p \in c.todo :
        LET d == [c EXCEPT !.todo = @ \ {p}]
        IN  rebuild' = [rebuild EXCEPT ![b] =
                    IF Skipped(c, p) THEN d
                    ELSE [d EXCEPT !.claimedBy[p] = c.vault,
                                   !.seenFiles = @ \cup {<<c.vault, p>>},
                                   !.path = p,
                                   !.at = IF isFirstBuild THEN "read" ELSE "stat"]]
  BY DEF NextFile
<1> DEFINE d == [c EXCEPT !.todo = @ \ {p}]
           at == IF isFirstBuild THEN "read" ELSE "stat"
           e == [d EXCEPT !.claimedBy[p] = c.vault, !.seenFiles = @ \cup {<<c.vault, p>>},
                          !.path = p, !.at = at]
<1>3. p \in Paths /\ c.vault \in Vaults /\ c.vault \in 0 .. NumVaults /\ at \in {"read", "stat"}
  BY <1>1, ConstantsTyped DEF Call, Vaults
<1>4. d \in Call /\ d.at = "walk"
  BY <1>1 DEF Call
<1> HIDE DEF d, at
<1>5. e \in Call /\ e.path = p /\ e.at = at
  <2> DEFINE claims == [d.claimedBy EXCEPT ![p] = c.vault]
             seen == d.seenFiles \cup {<<c.vault, p>>}
  <2>1. claims \in [Paths -> 0 .. NumVaults] /\ seen \subseteq Vaults \X Paths
    BY <1>3, <1>4 DEF Call
  <2>2. e = [d EXCEPT !.claimedBy = claims, !.seenFiles = seen, !.path = p, !.at = at]
    OBVIOUS
  <2> HIDE DEF e, claims, seen
  <2> QED
    BY <1>3, <1>4, <2>1, <2>2 DEF Call
<1>6. RebuildsOK'
  <2>1. CallOK(d) /\ CallOK(e)
    BY <1>3, <1>4, <1>5 DEF CallOK
  <2>2. rebuild' = [rebuild EXCEPT ![b] = d] \/ rebuild' = [rebuild EXCEPT ![b] = e]
    BY <1>2 DEF d, at
  <2> HIDE DEF e
  <2> QED BY <1>4, <1>5, <2>1, <2>2, RebuildGoes
<1>7. IndexOK' /\ WorldOK' /\ RestOK'
  BY DEF NextFile, index, world, counters, IndexOK, WorldOK, RestOK, SameIds
<1> QED
  BY <1>6, <1>7

\* A file is compared with its recorded time.
LEMMA StatParts ==
  ASSUME RebuildsOK, IndexOK, WorldOK, RestOK, NEW b \in Rebuilds, Stat(b)
  PROVE  RebuildsOK' /\ IndexOK' /\ WorldOK' /\ RestOK'
<1> DEFINE c == rebuild[b]
<1>1. c \in Call /\ CallOK(c) /\ c.at = "stat" /\ c.path \in Paths /\ c.vault \in Vaults
  BY DEF RebuildsOK, Stat, CallOK, Call
<1>2. \E at \in {"walk", "read"} : rebuild' = [rebuild EXCEPT ![b] = [c EXCEPT !.at = at]]
  BY DEF Stat
<1>3. \A at \in {"walk", "read"} : [c EXCEPT !.at = at] \in Call /\ CallOK([c EXCEPT !.at = at])
  BY <1>1 DEF Call, CallOK
<1>4. RebuildsOK'
  BY <1>2, <1>3, RebuildGoes
<1>5. fileMtimes' \in [Vaults -> [Paths -> Version]]
  <2> DEFINE mtime == files[c.vault][c.path]
  <2>1. mtime \in Version
    BY <1>1 DEF WorldOK
  <2>2. fileMtimes' = fileMtimes \/ fileMtimes' = [fileMtimes EXCEPT ![c.vault][c.path] = mtime]
    BY DEF Stat
  <2> HIDE DEF mtime
  <2> QED
    BY <1>1, <2>1, <2>2 DEF IndexOK
<1>6. IndexOK'
  BY <1>5 DEF Stat, IndexOK, SameIds
<1>7. WorldOK' /\ RestOK'
  BY ConstantsTyped DEF Stat, world, WorldOK, RestOK
<1> QED
  BY <1>4, <1>6, <1>7

\* A file is read.
LEMMA ReadParts ==
  ASSUME RebuildsOK, IndexOK, WorldOK, RestOK, NEW b \in Rebuilds, Read(b)
  PROVE  RebuildsOK' /\ IndexOK' /\ WorldOK' /\ RestOK'
<1> DEFINE c == rebuild[b]
           text == files[c.vault][c.path]
           d == [c EXCEPT !.at = "store", !.text = text]
           e == [c EXCEPT !.at = "walk"]
<1>1. c \in Call /\ CallOK(c) /\ c.at = "read" /\ c.path \in Paths /\ c.vault \in Vaults
      /\ text \in Version
  BY DEF RebuildsOK, Read, CallOK, Call, WorldOK
<1>2. d \in Call /\ d.at = "store" /\ d.text = text /\ d.path = c.path /\ e \in Call /\ e.at = "walk"
  <2> HIDE DEF text
  <2> QED BY <1>1 DEF Call
<1>3. (text # 0 /\ rebuild' = [rebuild EXCEPT ![b] = d]) \/ rebuild' = [rebuild EXCEPT ![b] = e]
  BY DEF Read
<1>4. RebuildsOK'
  <2> HIDE DEF d, e, text
  <2> QED BY <1>1, <1>2, <1>3, RebuildGoes DEF CallOK
<1>5. IndexOK' /\ WorldOK' /\ RestOK'
  BY ConstantsTyped DEF Read, index, world, IndexOK, WorldOK, RestOK, SameIds
<1> QED
  BY <1>4, <1>5

\* The text that was read becomes the entry.
LEMMA StoreParts ==
  ASSUME RebuildsOK, IndexOK, WorldOK, RestOK, NEW b \in Rebuilds, Store(b)
  PROVE  RebuildsOK' /\ IndexOK' /\ WorldOK' /\ RestOK'
<1> DEFINE c == rebuild[b]
           refused == miniSearch[c.path] # 0 /\ (isFirstBuild \/ docMeta[c.path] = 0)
<1>1. c \in Call /\ CallOK(c) /\ c.at = "store" /\ c.path \in Paths /\ c.text \in Version \ {0}
  BY DEF RebuildsOK, Store, CallOK, Call
<1>2. \E at \in {"walk", "stamp"}, t \in {0} :
        rebuild' = [rebuild EXCEPT ![b] = [c EXCEPT !.at = at, !.text = t]]
  BY DEF Store
<1>3. PICK at \in {"walk", "stamp"}, t \in {0} :
        rebuild' = [rebuild EXCEPT ![b] = [c EXCEPT !.at = at, !.text = t]]
  BY <1>2
<1> DEFINE d == [c EXCEPT !.at = at, !.text = t]
<1>4. d \in Call /\ CallOK(d)
  BY <1>1, Zero DEF Call, CallOK
<1>5. RebuildsOK'
  <2> HIDE DEF d
  <2> QED BY <1>3, <1>4, RebuildGoes DEF d
<1>6. docMeta' = [docMeta EXCEPT ![c.path] = c.text]
      /\ (refused => UNCHANGED miniSearch)
      /\ (~refused => miniSearch' = [miniSearch EXCEPT ![c.path] = c.text])
  BY DEF Store
<1>7. IndexOK'
  <2>1. docMeta' \in [Paths -> Version] /\ miniSearch' \in [Paths -> Version]
    BY <1>1, <1>6 DEF IndexOK
  <2>2. SameIds'
    BY <1>1, <1>6 DEF IndexOK, SameIds
  <2> QED
    BY <2>1, <2>2 DEF Store, IndexOK
<1>8. WorldOK' /\ RestOK'
  BY DEF Store, world, counters, WorldOK, RestOK
<1> QED
  BY <1>5, <1>7, <1>8

\* A full rebuild records the time of the file that it has stored.
LEMMA StampParts ==
  ASSUME RebuildsOK, IndexOK, WorldOK, RestOK, NEW b \in Rebuilds, Stamp(b)
  PROVE  RebuildsOK' /\ IndexOK' /\ WorldOK' /\ RestOK'
<1> DEFINE c == rebuild[b]
           mtime == files[c.vault][c.path]
<1>1. c \in Call /\ CallOK(c) /\ c.at = "stamp" /\ c.path \in Paths /\ c.vault \in Vaults
      /\ mtime \in Version
  BY DEF RebuildsOK, Stamp, CallOK, Call, WorldOK
<1>2. RebuildsOK'
  <2>1. rebuild' = [rebuild EXCEPT ![b] = [c EXCEPT !.at = "walk"]]
    BY DEF Stamp
  <2>2. [c EXCEPT !.at = "walk"] \in Call /\ CallOK([c EXCEPT !.at = "walk"])
    BY <1>1 DEF Call, CallOK
  <2> QED BY <2>1, <2>2, RebuildGoes
<1>3. fileMtimes' \in [Vaults -> [Paths -> Version]]
  <2>1. fileMtimes' = fileMtimes \/ fileMtimes' = [fileMtimes EXCEPT ![c.vault][c.path] = mtime]
    BY DEF Stamp
  <2> HIDE DEF mtime
  <2> QED
    BY <1>1, <2>1 DEF IndexOK
<1>4. IndexOK'
  BY <1>3 DEF Stamp, IndexOK, SameIds
<1>5. WorldOK' /\ RestOK'
  BY ConstantsTyped DEF Stamp, world, WorldOK, RestOK
<1> QED
  BY <1>2, <1>4, <1>5

\* A rebuild ends.
LEMMA FinishParts ==
  ASSUME RebuildsOK, IndexOK, WorldOK, RestOK, NEW b \in Rebuilds, Finish(b)
  PROVE  RebuildsOK' /\ IndexOK' /\ WorldOK' /\ RestOK'
<1> DEFINE c == rebuild[b]
<1>1. RebuildsOK'
  <2>1. rebuild' = [rebuild EXCEPT ![b] = Idle]
    BY DEF Finish
  <2>2. CallOK(Idle)
    BY IdleTyped DEF CallOK
  <2> QED BY <2>1, <2>2, IdleTyped, RebuildGoes
<1>2. IndexOK'
  <2>1. CASE isFirstBuild
    BY <2>1 DEF Finish, IndexOK, SameIds
  <2>2. CASE ~isFirstBuild
    <3>1. docMeta' = Pruned(docMeta, c) /\ miniSearch' = Pruned(miniSearch, c)
          /\ fileMtimes' = [v \in Vaults |-> [p \in Paths |->
                        IF <<v, p>> \in c.seenFiles THEN fileMtimes[v][p] ELSE 0]]
          /\ isFirstBuild' = FALSE
      BY <2>2 DEF Finish
    <3>2. docMeta' \in [Paths -> Version] /\ miniSearch' \in [Paths -> Version]
      BY <3>1, Zero DEF Pruned, IndexOK
    <3>3. fileMtimes' \in [Vaults -> [Paths -> Version]]
      BY <3>1, Zero DEF IndexOK
    <3>4. SameIds'
      BY <3>1 DEF Pruned, IndexOK, SameIds
    <3> QED
      BY <3>1, <3>2, <3>3, <3>4 DEF IndexOK
  <2> QED BY <2>1, <2>2
<1>3. WorldOK' /\ RestOK'
  BY DEF Finish, world, counters, WorldOK, RestOK
<1> QED
  BY <1>1, <1>2, <1>3

\* indexNote and removeFromIndex.
LEMMA NotesParts ==
  ASSUME RebuildsOK, IndexOK, WorldOK, RestOK,
         \/ \E i \in Indexers : IndexNoteStore(i) \/ \E p \in Paths : IndexNote(i, p)
         \/ \E p \in Paths : RemoveFromIndex(p)
  PROVE  RebuildsOK' /\ IndexOK' /\ WorldOK' /\ RestOK'
<1> DEFINE Note == [path : Paths, text : Version \ {0}]
<1>1. ASSUME NEW i \in Indexers, IndexNoteStore(i)
      PROVE  RebuildsOK' /\ IndexOK' /\ WorldOK' /\ RestOK'
  <2> DEFINE n == indexing[i]
  <2>1. n \in Note
    BY <1>1 DEF IndexNoteStore, RestOK
  <2>2. docMeta' \in [Paths -> Version] /\ miniSearch' \in [Paths -> Version]
    BY <1>1, <2>1 DEF IndexNoteStore, IndexOK
  <2>3. SameIds'
    BY <1>1, <2>1 DEF IndexNoteStore, IndexOK, SameIds
  <2>4. IndexOK'
    BY <1>1, <2>2, <2>3 DEF IndexNoteStore, IndexOK
  <2> QED
    BY <1>1, <2>4 DEF IndexNoteStore, world, counters, RebuildsOK, WorldOK, RestOK
<1>2. ASSUME NEW i \in Indexers, NEW p \in Paths, IndexNote(i, p)
      PROVE  RebuildsOK' /\ IndexOK' /\ WorldOK' /\ RestOK'
  <2>1. \A v \in First(Readable(p)) : [path |-> p, text |-> files[v][p]] \in Note
    BY DEF First, Readable, WorldOK
  <2>2. \/ UNCHANGED indexing
        \/ \E n \in Note : indexing' = [indexing EXCEPT ![i] = n]
    BY <1>2, <2>1 DEF IndexNote
  <2>3. RestOK'
    BY <1>2, <2>2 DEF IndexNote, counters, RestOK
  <2> QED
    BY <1>2, <2>3 DEF IndexNote, world, index, RebuildsOK, WorldOK, IndexOK, SameIds
<1>3. ASSUME NEW p \in Paths, RemoveFromIndex(p)
      PROVE  RebuildsOK' /\ IndexOK' /\ WorldOK' /\ RestOK'
  <2>1. docMeta' \in [Paths -> Version] /\ miniSearch' \in [Paths -> Version]
    BY <1>3, Zero DEF RemoveFromIndex, IndexOK
  <2>2. SameIds'
    BY <1>3 DEF RemoveFromIndex, IndexOK, SameIds
  <2> QED
    BY <1>3, <2>1, <2>2 DEF RemoveFromIndex, counters, RebuildsOK, IndexOK, WorldOK, RestOK
<1> QED
  BY <1>1, <1>2, <1>3

\* The vaults change.
LEMMA VaultsParts ==
  ASSUME RebuildsOK, IndexOK, WorldOK, RestOK,
         \/ \E p \in Paths : DeleteNote(p)
         \/ \E v \in Vaults : ChangeSources(v) \/ \E p \in Paths : Write(v, p)
  PROVE  RebuildsOK' /\ IndexOK' /\ WorldOK' /\ RestOK'
<1>1. ASSUME NEW p \in Paths, DeleteNote(p)
      PROVE  RebuildsOK' /\ IndexOK' /\ WorldOK' /\ RestOK'
  <2>1. files' \in [Vaults -> [Paths -> Version]]
    BY <1>1, Zero DEF DeleteNote, WorldOK
  <2>2. writes' \in Version
    BY <1>1, ConstantsTyped DEF DeleteNote, RestOK, Version
  <2> QED
    BY <1>1, <2>1, <2>2 DEF DeleteNote, index, RebuildsOK, IndexOK, SameIds, WorldOK, RestOK
<1>2. ASSUME NEW v \in Vaults, ChangeSources(v)
      PROVE  RebuildsOK' /\ IndexOK' /\ WorldOK' /\ RestOK'
  <2>1. known' \in SUBSET Vaults /\ 1 \in known'
    BY <1>2 DEF ChangeSources, WorldOK
  <2>2. forced' \in 0 .. MaxUpsets
    BY <1>2, ConstantsTyped DEF ChangeSources, RestOK
  <2> QED
    BY <1>2, <2>1, <2>2 DEF ChangeSources, index, RebuildsOK, IndexOK, SameIds, WorldOK, RestOK
<1>3. ASSUME NEW v \in Vaults, NEW p \in Paths, Write(v, p)
      PROVE  RebuildsOK' /\ IndexOK' /\ WorldOK' /\ RestOK'
  <2>1. writes' \in Version /\ writes + 1 \in Version
    BY <1>3, ConstantsTyped DEF Write, RestOK, Version
  <2>2. files' \in [Vaults -> [Paths -> Version]]
    <3> DEFINE w == writes + 1
    <3>1. files' = [files EXCEPT ![v][p] = w] \/ files' = [files EXCEPT ![v][p] = 0]
      BY <1>3 DEF Write
    <3>2. w \in Version /\ 0 \in Version
      BY <2>1, Zero
    <3> HIDE DEF w
    <3> QED BY <3>1, <3>2 DEF WorldOK
  <2> QED
    BY <1>3, <2>1, <2>2 DEF Write, index, RebuildsOK, IndexOK, SameIds, WorldOK, RestOK
<1> QED
  BY <1>1, <1>2, <1>3

-----------------------------------------------------------------------------
\* Every step preserves the invariant.
LEMMA StepInv == Inv /\ [Next]_vars => Inv'
<1> SUFFICES ASSUME Inv, [Next]_vars PROVE Inv'
  OBVIOUS
<1>1. calm \subseteq Rebuilds /\ RebuildsOK /\ IndexOK /\ WorldOK /\ RestOK
  BY Parts
<1>2. ASSUME NEW b \in Rebuilds, Begin(b), Begun(b)
      PROVE  Inv'
  <2>1. calm' \subseteq Rebuilds
    BY <1>2 DEF Begun
  <2> QED
    BY <1>1, <1>2, <2>1, BeginParts, PartsAfter
<1>3. ASSUME NEW b \in Rebuilds, Step(b), GoesOn(b)
      PROVE  Inv'
  <2>1. calm' \subseteq Rebuilds
    BY <1>1, <1>3 DEF GoesOn
  <2>2. RebuildsOK' /\ IndexOK' /\ WorldOK' /\ RestOK'
    BY <1>1, <1>3, ListVaultParts, NextFileParts, StatParts, ReadParts, StoreParts, StampParts,
       FinishParts DEF Step
  <2> QED
    BY <2>1, <2>2, PartsAfter
<1>4. ASSUME Other, Disturbed PROVE Inv'
  <2>1. calm' \subseteq Rebuilds
    BY <1>4 DEF Disturbed
  <2>2. RebuildsOK' /\ IndexOK' /\ WorldOK' /\ RestOK'
    BY <1>1, <1>4, NotesParts, VaultsParts DEF Other
  <2> QED
    BY <2>1, <2>2, PartsAfter
<1>5. CASE UNCHANGED vars
  BY <1>5 DEF vars, state, world, index, counters, Inv, TypeOK, StoresText, SameIds
<1> QED
  BY <1>2, <1>3, <1>4, <1>5 DEF Next

\* The invariant holds in every reachable state.
THEOREM Invariant == Spec => []Inv
BY InitInv, StepInv, PTL DEF Spec

\* Every variable keeps its type, whatever rebuilds, indexers and editors overlap.
THEOREM TypeCorrect == Spec => []TypeOK
<1>1. Inv => TypeOK
  BY DEF Inv
<1> QED
  BY <1>1, Invariant, PTL

\* docMeta and MiniSearch have the same paths at every step, for any number of overlapping
\* rebuilds and calls of indexNote: the refused add of a full rebuild leaves an entry behind.
THEOREM IndexesAgree == Spec => []SameIds
<1>1. Inv => SameIds
  BY DEF Inv
<1> QED
  BY <1>1, Invariant, PTL

-----------------------------------------------------------------------------
\* The copies of a path that the call c has come to.
Reached(c, p) ==
    {v \in known \ c.vaults :
        files[v][p] # 0 /\ p \in allowed[v] /\ (v = c.vault => p \notin c.todo)}

\* The vaults are walked in their order, and the files of one that is left are there.
WalksInOrder(c) ==
    /\ c.vaults \subseteq known
    /\ \A v \in known \ c.vaults : v <= c.vault /\ \A w \in c.vaults : v < w
    /\ c.todo # {} \/ c.at # "walk" => c.vault \in known \ c.vaults
    /\ \A p \in c.todo : files[c.vault][p] # 0 /\ p \in allowed[c.vault]

\* A path is claimed by the first vault that has it, of those the call has come to.
ClaimsFirst(c, p) ==
    IF c.claimedBy[p] = 0 THEN Reached(c, p) = {} ELSE c.claimedBy[p] \in First(Reached(c, p))

\* The entry and the recorded times that the call has made for a path by now.
EntryBy(c, p) ==
    IF c.claimedBy[p] = 0 \/ (p = c.path /\ c.at \in {"read", "store"}) THEN 0
    ELSE files[c.claimedBy[p]][p]
StampedBy(c, p) ==
    IF p = c.path /\ c.at # "walk" THEN 0 ELSE c.claimedBy[p]
MadeBy(c, p) ==
    /\ docMeta[p] = EntryBy(c, p) /\ miniSearch[p] = EntryBy(c, p)
    /\ \A v \in Vaults : fileMtimes[v][p] = IF v = StampedBy(c, p) THEN files[v][p] ELSE 0

\* The file in the call's hand is the one that it claimed, and what it read of it.
HoldsClaimed(c) ==
    /\ c.at \in {"walk", "read", "store", "stamp"}
    /\ c.at # "walk" => c.claimedBy[c.path] = c.vault
    /\ c.at = "store" => c.text = files[c.vault][c.path]

\* How far a full rebuild has come, when nothing has disturbed it.
ExactSoFar(c) ==
    /\ isFirstBuild
    /\ WalksInOrder(c) /\ HoldsClaimed(c)
    /\ \A p \in Paths : ClaimsFirst(c, p) /\ MadeBy(c, p)

\* What makes FullRebuildIsExact an action of every reachable state.
CalmInv == \A b \in calm : rebuild[b].at # "idle" => ExactSoFar(rebuild[b])

\* What a step of the call changes of the rest.
Kept == UNCHANGED <<files, known, allowed, isFirstBuild>>

\* The vaults are numbers.
LEMMA VaultNumbers ==
  ASSUME WorldOK, RebuildsOK, NEW b \in Rebuilds
  PROVE  /\ Vaults \subseteq Nat /\ known \subseteq Vaults /\ 0 \notin Vaults
         /\ rebuild[b] \in Call /\ rebuild[b].vaults \subseteq Vaults
         /\ rebuild[b].vault \in Vaults /\ rebuild[b].todo \subseteq Paths
         /\ \A p \in Paths : rebuild[b].claimedBy[p] \in 0 .. NumVaults
BY ConstantsTyped DEF WorldOK, RebuildsOK, Call, Vaults

\* A step that leaves the index alone.
LEMMA SameExact ==
  ASSUME NEW c, ExactSoFar(c), Kept, UNCHANGED index
  PROVE  ExactSoFar(c)'
<1>1. \A p \in Paths : /\ Reached(c, p)' = Reached(c, p) /\ EntryBy(c, p)' = EntryBy(c, p)
                       /\ StampedBy(c, p)' = StampedBy(c, p)
  BY DEF Reached, EntryBy, StampedBy, Kept
<1>2. \A p \in Paths : (ClaimsFirst(c, p) /\ MadeBy(c, p))'
  BY <1>1 DEF ExactSoFar, ClaimsFirst, MadeBy, Kept, index
<1> QED
  BY <1>2 DEF ExactSoFar, WalksInOrder, HoldsClaimed, Kept

\* A full rebuild begins with nothing made.
LEMMA BeginExact ==
  ASSUME RebuildsOK, IndexOK, WorldOK, NEW b \in Rebuilds, Begin(b), isFirstBuild'
  PROVE  ExactSoFar(rebuild[b])'
<1> DEFINE i == Idle
           d == [i EXCEPT !.at = "walk", !.vaults = known]
<1>1. i \in Call /\ known \subseteq Vaults /\ known' = known
      /\ i.todo = {} /\ i.claimedBy = Empty
  BY IdleTyped DEF WorldOK, Idle, Begin, Boot, Interval, Repair, Reindex, world
<1>2. \E full \in BOOLEAN : Start(b, full) /\ (isFirstBuild' => full)
  BY DEF Begin, Boot, Interval, Repair, Reindex, IndexOK
<1>3. Start(b, TRUE)
  BY <1>2
<1>a. rebuild'[b] = d
  BY <1>3 DEF Start, RebuildsOK
<1> HIDE DEF i
<1>b. d.at = "walk" /\ d.vaults = known /\ d.todo = {} /\ \A p \in Paths : d.claimedBy[p] = 0
  BY <1>1, Zero DEF Call, Empty
<1> HIDE DEF d
<1>c. PICK c : c = d
  OBVIOUS
<1>4. rebuild'[b] = c
  BY <1>a, <1>c
<1>5. c.at = "walk" /\ c.vaults = known /\ c.todo = {} /\ \A p \in Paths : c.claimedBy[p] = 0
  BY <1>b, <1>c
<1>6. \A p \in Paths : docMeta'[p] = 0 /\ miniSearch'[p] = 0
                       /\ \A v \in Vaults : fileMtimes'[v][p] = 0
  BY <1>3 DEF Start, Clear, Empty
<1>7. WalksInOrder(c)'
  BY <1>1, <1>4, <1>5 DEF WalksInOrder
<1>8. ASSUME NEW p \in Paths PROVE ClaimsFirst(c, p)' /\ MadeBy(c, p)'
  <2>1. Reached(c, p)' = {} /\ EntryBy(c, p)' = 0 /\ StampedBy(c, p) = 0
    BY <1>1, <1>5 DEF Reached, EntryBy, StampedBy
  <2>2. 0 \notin Vaults
    BY ConstantsTyped DEF Vaults
  <2> QED
    BY <1>5, <1>6, <2>1, <2>2 DEF ClaimsFirst, MadeBy, StampedBy
<1> QED
  BY <1>4, <1>5, <1>7, <1>8 DEF ExactSoFar, HoldsClaimed

\* The list of the next vault brings its files, and claims none of them yet.
LEMMA ListExact ==
  ASSUME RebuildsOK, IndexOK, WorldOK, RestOK, NEW b \in Rebuilds, ExactSoFar(rebuild[b]),
         ListVault(b), fails' = fails
  PROVE  ExactSoFar(rebuild[b])'
<1>1. PICK c \in Call : c = rebuild[b]
  BY DEF RebuildsOK
<1>2. /\ c.at = "walk" /\ c.todo = {} /\ ExactSoFar(c) /\ Kept /\ UNCHANGED index
      /\ c.vaults \subseteq Vaults /\ Vaults \subseteq Nat /\ known \subseteq Vaults
  BY <1>1, VaultNumbers DEF ListVault, Walking, Kept, world, index
<1>3. PICK v \in First(c.vaults) : rebuild' = [rebuild EXCEPT ![b] =
         [c EXCEPT !.vaults = @ \ {v}, !.vault = v,
                   !.todo = {p \in Paths : files[v][p] # 0 /\ Indexable(v, p)}]]
  <2>1. fails' # fails + 1
    BY ConstantsTyped DEF RestOK
  <2> QED
    BY <1>1, <2>1 DEF ListVault, NextVault
<1>a. PICK files0 : files0 = {p \in Paths : files[v][p] # 0 /\ Indexable(v, p)}
  OBVIOUS
<1> DEFINE d == [c EXCEPT !.vaults = @ \ {v}, !.vault = v, !.todo = files0]
<1>4. /\ d.at = "walk" /\ d.vaults = c.vaults \ {v} /\ d.vault = v
      /\ d.todo = {p \in Paths : files[v][p] # 0 /\ Indexable(v, p)} /\ d.claimedBy = c.claimedBy
  BY <1>2, <1>a DEF Call
<1>5. rebuild'[b] = d
  BY <1>3, <1>a DEF RebuildsOK
<1> HIDE DEF d
<1>6. v \in c.vaults /\ v \in Nat /\ v \in known /\ \A w \in c.vaults : v <= w
  BY <1>2, <1>3 DEF First, ExactSoFar, WalksInOrder
<1>b. \A p \in Paths : p \in d.todo <=> files[v][p] # 0 /\ p \in allowed[v]
  BY <1>4, <1>6 DEF Indexable
<1>7. WalksInOrder(d)
  <2>1. ASSUME NEW w \in c.vaults, w # v PROVE v < w
    <3>1. v \in Nat /\ w \in Nat /\ v <= w
      BY <1>2, <1>6
    <3> QED
      BY <2>1, <3>1
  <2>2. ASSUME NEW u \in known \ d.vaults PROVE u <= v /\ \A w \in d.vaults : u < w
    <3>1. CASE u = v
      BY <1>4, <1>6, <2>1, <3>1
    <3>2. CASE u \in known \ c.vaults
      <4>1. \A w \in c.vaults : u < w
        BY <1>2, <3>2 DEF ExactSoFar, WalksInOrder
      <4>2. u \in Nat /\ v \in Nat /\ u < v
        BY <1>2, <1>6, <3>2, <4>1
      <4>3. u <= v
        BY <4>2
      <4> QED
        BY <1>4, <4>1, <4>3
    <3> QED
      BY <1>4, <2>2, <3>1, <3>2
  <2> QED
    BY <1>2, <1>4, <1>6, <1>b, <2>2 DEF ExactSoFar, WalksInOrder
<1>8. \A p \in Paths : Reached(d, p) = Reached(c, p)
  BY <1>2, <1>4, <1>6, <1>b DEF Reached
<1>9. \A p \in Paths : ClaimsFirst(d, p)
  BY <1>2, <1>4, <1>8 DEF ExactSoFar, ClaimsFirst
<1>10. \A p \in Paths : EntryBy(d, p) = EntryBy(c, p) /\ StampedBy(d, p) = StampedBy(c, p)
  BY <1>2, <1>4 DEF EntryBy, StampedBy
<1>11. \A p \in Paths : MadeBy(d, p)
  BY <1>2, <1>10 DEF MadeBy, ExactSoFar
<1>12. ExactSoFar(d)
  BY <1>2, <1>4, <1>7, <1>9, <1>11 DEF ExactSoFar, HoldsClaimed
<1> QED
  BY <1>2, <1>5, <1>12, SameExact DEF ExactSoFar

\* The first copy of a path is claimed, a later one is passed over.
LEMMA NextFileExact ==
  ASSUME RebuildsOK, IndexOK, WorldOK, RestOK, NEW b \in Rebuilds, ExactSoFar(rebuild[b]),
         NextFile(b)
  PROVE  ExactSoFar(rebuild[b])'
<1>1. PICK c \in Call : c = rebuild[b]
  BY DEF RebuildsOK
<1>2. /\ c.at = "walk" /\ ExactSoFar(c) /\ Kept /\ UNCHANGED index /\ isFirstBuild
      /\ c.vaults \subseteq Vaults /\ Vaults \subseteq Nat /\ known \subseteq Vaults
      /\ c.vault \in Vaults /\ 0 \notin Vaults /\ c.todo \subseteq Paths
      /\ c.claimedBy \in [Paths -> 0 .. NumVaults]
  BY <1>1, VaultNumbers DEF NextFile, Walking, Kept, world, index, ExactSoFar, Call
<1>3. PICK p \in c.todo : rebuild' = [rebuild EXCEPT ![b] =
          IF Skipped(c, p) THEN [c EXCEPT !.todo = @ \ {p}]
          ELSE [[c EXCEPT !.todo = @ \ {p}] EXCEPT !.claimedBy[p] = c.vault,
                         !.seenFiles = @ \cup {<<c.vault, p>>}, !.path = p, !.at = "read"]]
  BY <1>1, <1>2 DEF NextFile
<1>4. PICK d : /\ rebuild'[b] = d
               /\ d.vaults = c.vaults /\ d.vault = c.vault /\ d.todo = c.todo \ {p}
               /\ \/ /\ Skipped(c, p) /\ d.at = "walk" /\ d.claimedBy = c.claimedBy
                     /\ d.path = c.path
                  \/ /\ ~Skipped(c, p) /\ d.at = "read" /\ d.path = p
                     /\ d.claimedBy = [c.claimedBy EXCEPT ![p] = c.vault]
  <2> DEFINE e == [c EXCEPT !.todo = @ \ {p}]
  <2>1. /\ e \in Call /\ e.vaults = c.vaults /\ e.vault = c.vault /\ e.todo = c.todo \ {p}
        /\ e.at = "walk" /\ e.claimedBy = c.claimedBy /\ e.path = c.path
    BY <1>2 DEF Call
  <2>2. CASE Skipped(c, p)
    BY <1>3, <2>1, <2>2 DEF RebuildsOK
  <2>3. CASE ~Skipped(c, p)
    <3> HIDE DEF e
    <3> DEFINE f == [e EXCEPT !.claimedBy[p] = c.vault,
                         !.seenFiles = @ \cup {<<c.vault, p>>}, !.path = p, !.at = "read"]
    <3>1. /\ f.vaults = e.vaults /\ f.vault = e.vault /\ f.todo = e.todo
          /\ f.at = "read" /\ f.path = p /\ f.claimedBy = [e.claimedBy EXCEPT ![p] = c.vault]
      BY <2>1 DEF Call
    <3>2. rebuild'[b] = f
      BY <1>3, <2>3 DEF RebuildsOK, e
    <3> HIDE DEF f
    <3> QED
      BY <2>1, <2>3, <3>1, <3>2
  <2> QED
    BY <2>2, <2>3
<1>5. c.vault \in known \ c.vaults /\ files[c.vault][p] # 0 /\ p \in allowed[c.vault]
      /\ p \in Paths
  BY <1>2 DEF ExactSoFar, WalksInOrder
<1>6. WalksInOrder(d)
  BY <1>2, <1>4, <1>5 DEF ExactSoFar, WalksInOrder
<1>7. /\ Reached(d, p) = Reached(c, p) \cup {c.vault} /\ c.vault \notin Reached(c, p)
      /\ \A q \in Paths : q # p => Reached(d, q) = Reached(c, q)
  BY <1>4, <1>5 DEF Reached
<1>8. ClaimsFirst(c, p) /\ Reached(c, p) \subseteq known \ c.vaults
  BY <1>2, <1>5 DEF ExactSoFar, Reached
<1>9. \A u \in known \ c.vaults : u <= c.vault
  BY <1>2 DEF ExactSoFar, WalksInOrder
<1>10. ~Skipped(c, p) => c.claimedBy[p] = 0 /\ Reached(c, p) = {}
  BY <1>5, <1>7, <1>8 DEF Skipped, ClaimsFirst, First
<1>11. ClaimsFirst(d, p)
  <2>1. CASE Skipped(c, p)
    BY <1>4, <1>7, <1>8, <1>9, <2>1 DEF ClaimsFirst, First, Skipped
  <2>2. CASE ~Skipped(c, p)
    <3>1. d.claimedBy[p] = c.vault /\ Reached(d, p) = {c.vault}
      BY <1>2, <1>4, <1>5, <1>7, <1>10, <2>2
    <3> DEFINE v == c.vault
    <3>2. v \in Nat /\ v # 0
      BY <1>2
    <3> HIDE DEF v
    <3>3. v <= v /\ v # 0
      BY <3>2
    <3> USE DEF v
    <3> QED
      BY <3>1, <3>3 DEF ClaimsFirst, First
  <2> QED
    BY <2>1, <2>2
<1>12. \A q \in Paths : q # p => d.claimedBy[q] = c.claimedBy[q]
  BY <1>2, <1>4
<1>13. \A q \in Paths : ClaimsFirst(d, q)
  BY <1>2, <1>7, <1>11, <1>12 DEF ExactSoFar, ClaimsFirst
<1>14. ASSUME NEW q \in Paths PROVE MadeBy(d, q)
  <2>1. MadeBy(c, q)
    BY <1>2 DEF ExactSoFar
  <2>2. CASE q # p
    <3>1. EntryBy(d, q) = EntryBy(c, q) /\ StampedBy(d, q) = StampedBy(c, q)
      BY <1>2, <1>4, <1>12, <2>2 DEF EntryBy, StampedBy
    <3> QED
      BY <2>1, <3>1 DEF MadeBy
  <2>3. CASE q = p /\ Skipped(c, p)
    <3>1. EntryBy(d, q) = EntryBy(c, q) /\ StampedBy(d, q) = StampedBy(c, q)
      BY <1>2, <1>4, <2>3 DEF EntryBy, StampedBy
    <3> QED
      BY <2>1, <3>1 DEF MadeBy
  <2>4. CASE q = p /\ ~Skipped(c, p)
    <3>1. EntryBy(c, q) = 0 /\ StampedBy(c, q) = 0
      BY <1>2, <1>10, <2>4 DEF EntryBy, StampedBy
    <3>2. EntryBy(d, q) = 0 /\ StampedBy(d, q) = 0
      BY <1>4, <2>4 DEF EntryBy, StampedBy
    <3> QED
      BY <2>1, <3>1, <3>2 DEF MadeBy
  <2> QED
    BY <2>2, <2>3, <2>4
<1>15. HoldsClaimed(d)
  BY <1>2, <1>4, <1>5 DEF HoldsClaimed
<1>16. ExactSoFar(d)
  BY <1>2, <1>6, <1>13, <1>14, <1>15 DEF ExactSoFar
<1> QED
  BY <1>2, <1>4, <1>16, SameExact DEF ExactSoFar

\* A step with a file in hand keeps the walk and the claims.
LEMMA HandKeeps ==
  ASSUME NEW c, NEW d, ExactSoFar(c), Kept,
         d.vaults = c.vaults, d.vault = c.vault, d.todo = c.todo, d.claimedBy = c.claimedBy,
         c.at # "walk"
  PROVE  WalksInOrder(d)' /\ \A p \in Paths : ClaimsFirst(d, p)'
<1>1. \A p \in Paths : Reached(d, p)' = Reached(c, p)
  BY DEF Reached, Kept
<1> QED
  BY <1>1 DEF ExactSoFar, WalksInOrder, ClaimsFirst, Kept

\* The claimed file is read.
LEMMA ReadExact ==
  ASSUME RebuildsOK, IndexOK, WorldOK, RestOK, NEW b \in Rebuilds, ExactSoFar(rebuild[b]),
         Read(b), fails' = fails
  PROVE  ExactSoFar(rebuild[b])'
<1>1. PICK c \in Call : c = rebuild[b]
  BY DEF RebuildsOK
<1>2. c.at = "read" /\ ExactSoFar(c) /\ Kept /\ UNCHANGED index /\ c.path \in Paths
  BY <1>1 DEF Read, Kept, world, index, RebuildsOK, CallOK
<1> DEFINE text == files[c.vault][c.path]
           d == [c EXCEPT !.at = "store", !.text = text]
<1>3. text # 0
  <2>1. c.claimedBy[c.path] = c.vault /\ ClaimsFirst(c, c.path) /\ c.vault # 0
    BY <1>1, <1>2, VaultNumbers DEF ExactSoFar, HoldsClaimed
  <2> QED
    BY <2>1 DEF ClaimsFirst, First, Reached
<1>4. rebuild'[b] = d
  <2>1. fails' # fails + 1
    BY ConstantsTyped DEF RestOK
  <2>2. rebuild' = [rebuild EXCEPT ![b] = d]
    BY <1>1, <1>3, <2>1 DEF Read
  <2> QED
    BY <2>2 DEF RebuildsOK
<1>5. PICK t : t = text
  OBVIOUS
<1> DEFINE e == [c EXCEPT !.at = "store", !.text = t]
<1>6. rebuild'[b] = e
  BY <1>4, <1>5
<1>7. /\ e.at = "store" /\ e.text = t /\ e.vaults = c.vaults /\ e.vault = c.vault
      /\ e.todo = c.todo /\ e.claimedBy = c.claimedBy /\ e.path = c.path
  BY DEF Call
<1> HIDE DEF e
<1>8. WalksInOrder(e)' /\ \A p \in Paths : ClaimsFirst(e, p)'
  BY <1>2, <1>7, HandKeeps
<1>9. \A p \in Paths : MadeBy(e, p)'
  BY <1>2, <1>7 DEF ExactSoFar, MadeBy, EntryBy, StampedBy, Kept, index
<1>10. HoldsClaimed(e)'
  BY <1>2, <1>5, <1>7 DEF ExactSoFar, HoldsClaimed, Kept
<1> QED
  BY <1>2, <1>6, <1>8, <1>9, <1>10 DEF ExactSoFar, Kept

\* What was read becomes the entry: nothing is refused.
LEMMA StoreExact ==
  ASSUME RebuildsOK, IndexOK, WorldOK, RestOK, NEW b \in Rebuilds, ExactSoFar(rebuild[b]),
         Store(b)
  PROVE  ExactSoFar(rebuild[b])'
<1>1. PICK c \in Call : c = rebuild[b]
  BY DEF RebuildsOK
<1>2. /\ c.at = "store" /\ ExactSoFar(c) /\ Kept /\ UNCHANGED fileMtimes /\ c.path \in Paths
      /\ isFirstBuild
  BY <1>1 DEF Store, Kept, world, RebuildsOK, CallOK, ExactSoFar
<1>3. miniSearch[c.path] = 0
  BY <1>2 DEF ExactSoFar, MadeBy, EntryBy
<1> DEFINE e == [c EXCEPT !.text = 0, !.at = "stamp"]
<1>4. /\ rebuild'[b] = e
      /\ docMeta' = [docMeta EXCEPT ![c.path] = c.text]
      /\ miniSearch' = [miniSearch EXCEPT ![c.path] = c.text]
  BY <1>1, <1>2, <1>3 DEF Store, RebuildsOK
<1>5. /\ e.at = "stamp" /\ e.vaults = c.vaults /\ e.vault = c.vault
      /\ e.todo = c.todo /\ e.claimedBy = c.claimedBy /\ e.path = c.path
  BY DEF Call
<1> HIDE DEF e
<1>6. WalksInOrder(e)' /\ \A p \in Paths : ClaimsFirst(e, p)'
  BY <1>2, <1>5, HandKeeps
<1>7. c.claimedBy[c.path] = c.vault /\ c.text = files[c.vault][c.path] /\ c.vault # 0
  BY <1>1, <1>2, VaultNumbers DEF ExactSoFar, HoldsClaimed
<1>8. \A p \in Paths : /\ docMeta'[p] = IF p = c.path THEN c.text ELSE docMeta[p]
                       /\ miniSearch'[p] = IF p = c.path THEN c.text ELSE miniSearch[p]
  BY <1>4 DEF IndexOK
<1>9. ASSUME NEW p \in Paths PROVE MadeBy(e, p)'
  <2>1. MadeBy(c, p)
    BY <1>2 DEF ExactSoFar
  <2>2. EntryBy(e, p)' = IF p = c.path THEN c.text ELSE EntryBy(c, p)
    BY <1>2, <1>5, <1>7 DEF EntryBy, Kept
  <2>3. StampedBy(e, p) = StampedBy(c, p)
    BY <1>2, <1>5 DEF StampedBy
  <2> QED
    BY <1>2, <1>8, <2>1, <2>2, <2>3 DEF MadeBy, Kept, StampedBy
<1>10. HoldsClaimed(e)'
  BY <1>2, <1>5 DEF ExactSoFar, HoldsClaimed, Kept
<1> QED
  BY <1>2, <1>4, <1>6, <1>9, <1>10 DEF ExactSoFar, Kept

\* The time of the claimed file is recorded, and the walk goes on.
LEMMA StampExact ==
  ASSUME RebuildsOK, IndexOK, WorldOK, RestOK, NEW b \in Rebuilds, ExactSoFar(rebuild[b]),
         Stamp(b), fails' = fails
  PROVE  ExactSoFar(rebuild[b])'
<1>1. PICK c \in Call : c = rebuild[b]
  BY DEF RebuildsOK
<1>2. /\ c.at = "stamp" /\ ExactSoFar(c) /\ Kept /\ UNCHANGED <<docMeta, miniSearch>>
      /\ c.path \in Paths /\ c.vault \in Vaults /\ c.vault # 0
  BY <1>1, VaultNumbers DEF Stamp, Kept, world, RebuildsOK, CallOK
<1> DEFINE e == [c EXCEPT !.at = "walk"]
<1>3. c.claimedBy[c.path] = c.vault /\ files[c.vault][c.path] # 0
  <2>1. c.claimedBy[c.path] = c.vault /\ ClaimsFirst(c, c.path)
    BY <1>2 DEF ExactSoFar, HoldsClaimed
  <2> QED
    BY <1>2, <2>1 DEF ClaimsFirst, First, Reached
<1>4. /\ rebuild'[b] = e
      /\ fileMtimes' = [fileMtimes EXCEPT ![c.vault][c.path] = files[c.vault][c.path]]
  BY <1>1, <1>3, ConstantsTyped DEF Stamp, RebuildsOK, RestOK
<1>5. /\ e.at = "walk" /\ e.vaults = c.vaults /\ e.vault = c.vault
      /\ e.todo = c.todo /\ e.claimedBy = c.claimedBy /\ e.path = c.path
  BY DEF Call
<1> HIDE DEF e
<1>6. WalksInOrder(e)' /\ \A p \in Paths : ClaimsFirst(e, p)'
  BY <1>2, <1>5, HandKeeps
<1>7. \A v \in Vaults, p \in Paths : fileMtimes'[v][p] =
        IF v = c.vault /\ p = c.path THEN files[v][p] ELSE fileMtimes[v][p]
  BY <1>2, <1>4 DEF IndexOK
<1>8. ASSUME NEW p \in Paths PROVE MadeBy(e, p)'
  <2>1. MadeBy(c, p)
    BY <1>2 DEF ExactSoFar
  <2>2. EntryBy(e, p)' = EntryBy(c, p)
    BY <1>2, <1>5 DEF EntryBy, Kept
  <2>3. StampedBy(e, p) = IF p = c.path THEN c.vault ELSE StampedBy(c, p)
    BY <1>2, <1>3, <1>5 DEF StampedBy
  <2>4. p = c.path => \A v \in Vaults : fileMtimes[v][p] = 0
    <3>1. p = c.path => StampedBy(c, p) = 0
      BY <1>2 DEF StampedBy
    <3> QED
      BY <1>1, <2>1, <3>1, VaultNumbers DEF MadeBy
  <2>5. \A v \in Vaults : fileMtimes'[v][p] = IF v = StampedBy(e, p) THEN files[v][p] ELSE 0
    BY <1>7, <2>1, <2>3, <2>4 DEF MadeBy
  <2> QED
    BY <1>2, <2>1, <2>2, <2>5 DEF MadeBy, Kept, StampedBy
<1>9. HoldsClaimed(e)'
  BY <1>5 DEF HoldsClaimed
<1> QED
  BY <1>2, <1>4, <1>6, <1>8, <1>9 DEF ExactSoFar, Kept

\* Every step keeps a calm rebuild exact.
LEMMA NextCalm ==
  ASSUME Inv, CalmInv, [Next]_vars
  PROVE  CalmInv'
<1>1. calm \subseteq Rebuilds /\ RebuildsOK /\ IndexOK /\ WorldOK /\ RestOK
  BY Parts
<1>2. CASE calm' = {}
  BY <1>2 DEF CalmInv
<1>3. ASSUME NEW b \in Rebuilds, Begin(b), Begun(b) PROVE CalmInv'
  <2>1. calm' \in {{}, {b}} /\ (b \in calm' => isFirstBuild')
    BY <1>3 DEF Begun
  <2>2. b \in calm' => ExactSoFar(rebuild[b])'
    BY <1>1, <1>3, <2>1, BeginExact
  <2> QED
    BY <2>1, <2>2 DEF CalmInv
<1>4. ASSUME NEW b \in Rebuilds, Step(b), GoesOn(b) PROVE CalmInv'
  <2>1. calm' \subseteq calm \cap {b} /\ (calm' # {} => fails' = fails)
    BY <1>4 DEF GoesOn
  <2>2. ASSUME b \in calm, fails' = fails, rebuild'[b].at # "idle" PROVE ExactSoFar(rebuild[b])'
    <3>1. ~Finish(b)
      BY <1>1, <2>2, IdleTyped DEF Finish, RebuildsOK
    <3>2. rebuild[b].at # "idle"
      BY <1>4, <3>1 DEF Step, ListVault, NextFile, Walking, Stat, Read, Store, Stamp
    <3>3. ExactSoFar(rebuild[b])
      BY <2>2, <3>2 DEF CalmInv
    <3>4. ~Stat(b)
      BY <3>3 DEF Stat, ExactSoFar, HoldsClaimed
    <3> QED
      BY <1>1, <1>4, <2>2, <3>1, <3>3, <3>4, ListExact, NextFileExact, ReadExact, StoreExact,
         StampExact DEF Step
  <2> QED
    BY <2>1, <2>2 DEF CalmInv
<1>5. CASE UNCHANGED vars
  <2>1. Kept /\ UNCHANGED <<index, calm, rebuild>>
    BY <1>5 DEF vars, state, world, index, Kept
  <2> QED
    BY <2>1, SameExact DEF CalmInv
<1> QED
  BY <1>2, <1>3, <1>4, <1>5 DEF Next, Disturbed

\* What a calm rebuild leaves when it ends.
EndsExact ==
    \A b \in calm : rebuild[b].at # "idle" /\ rebuild'[b].at = "idle" =>
          \A p \in Paths :
             /\ Copies(p) = {} => docMeta'[p] = 0 /\ miniSearch'[p] = 0
             /\ \A v \in First(Copies(p)) :
                   docMeta'[p] = files[v][p] /\ miniSearch'[p] = files[v][p]
             /\ \A v \in Vaults : fileMtimes'[v][p] =
                   IF v \in First(Copies(p)) THEN files[v][p] ELSE 0

\* A calm rebuild ends with the copies of the first vaults, and nothing else.
LEMMA NextEndsExact ==
  ASSUME Inv, CalmInv, [Next]_vars
  PROVE  EndsExact
<1>0. calm \subseteq Rebuilds /\ RebuildsOK /\ IndexOK /\ WorldOK /\ RestOK
  BY Parts
<1> SUFFICES ASSUME NEW b \in calm, rebuild[b].at # "idle", rebuild'[b].at = "idle",
                    NEW p \in Paths
             PROVE  /\ Copies(p) = {} => docMeta'[p] = 0 /\ miniSearch'[p] = 0
                    /\ \A v \in First(Copies(p)) :
                          docMeta'[p] = files[v][p] /\ miniSearch'[p] = files[v][p]
                    /\ \A v \in Vaults : fileMtimes'[v][p] =
                          IF v \in First(Copies(p)) THEN files[v][p] ELSE 0
  BY DEF EndsExact
<1>1. b \in Rebuilds /\ ExactSoFar(rebuild[b])
  BY <1>0 DEF CalmInv
<1>2. PICK c \in Call : c = rebuild[b]
  BY <1>0, <1>1 DEF RebuildsOK
<1>3. Finish(b)
  <2>1. ASSUME NEW a \in Rebuilds, NEW d, rebuild' = [rebuild EXCEPT ![a] = d], d.at # "idle"
        PROVE  FALSE
    BY <1>0, <1>1, <2>1 DEF RebuildsOK
  <2>2. ASSUME NEW a \in Rebuilds, Begin(a) PROVE FALSE
    <3> DEFINE d == [Idle EXCEPT !.at = "walk", !.vaults = known]
    <3>1. d.at = "walk"
      BY IdleTyped DEF Call
    <3>2. rebuild' = [rebuild EXCEPT ![a] = d]
      BY <2>2 DEF Begin, Boot, Interval, Repair, Reindex, Start
    <3> HIDE DEF d
    <3> QED
      BY <2>1, <3>1, <3>2
  <2>3. ASSUME NEW a \in Rebuilds, Step(a), ~Finish(a) PROVE FALSE
    <3>1. rebuild'[a].at # "idle"
      <4>1. rebuild[a] \in Call
        BY <1>0 DEF RebuildsOK
      <4>2. CASE ListVault(a)
        <5>1. PICK v \in Vaults, todo \in SUBSET Paths : rebuild' = [rebuild EXCEPT ![a] =
                 [rebuild[a] EXCEPT !.vaults = @ \ {v}, !.vault = v, !.todo = todo]]
          BY <1>0, <4>2, ListSets
        <5>2. rebuild'[a].at = rebuild[a].at
          BY <1>0, <4>1, <5>1 DEF Call, RebuildsOK
        <5> QED
          BY <4>2, <5>2 DEF ListVault, Walking
      <4>3. CASE NextFile(a)
        BY <1>0, <4>1, <4>3 DEF NextFile, RebuildsOK, Walking, Call
      <4>4. CASE Stat(a) \/ Read(a) \/ Store(a) \/ Stamp(a)
        BY <1>0, <4>1, <4>4 DEF Stat, Read, Store, Stamp, RebuildsOK, Call
      <4> QED
        BY <2>3, <4>2, <4>3, <4>4 DEF Step
    <3>2. \A e \in Rebuilds : e # a => rebuild'[e] = rebuild[e]
      BY <1>0, <2>3 DEF Step, ListVault, NextFile, Stat, Read, Store, Stamp, RebuildsOK
    <3> QED
      BY <1>1, <3>1, <3>2
  <2>4. ASSUME NEW a \in Rebuilds, Finish(a) PROVE a = b
    BY <1>0, <1>1, <2>4 DEF Finish, RebuildsOK
  <2>5. CASE Other \/ UNCHANGED vars
    BY <2>5 DEF Other, IndexNoteStore, IndexNote, RemoveFromIndex, DeleteNote, ChangeSources,
       Write, vars, state
  <2> QED
    BY <2>2, <2>3, <2>4, <2>5 DEF Next
<1>4. c.at = "walk" /\ c.todo = {} /\ c.vaults = {} /\ UNCHANGED <<docMeta, miniSearch, fileMtimes>>
  BY <1>1, <1>2, <1>3 DEF Finish, Walking, ExactSoFar
<1>5. Reached(c, p) = Copies(p)
  BY <1>4 DEF Reached, Copies
<1>6. ClaimsFirst(c, p) /\ MadeBy(c, p)
  BY <1>1, <1>2 DEF ExactSoFar
<1>7. Copies(p) \subseteq Vaults /\ Vaults \subseteq Nat /\ 0 \notin Vaults
  BY <1>0, <1>1, VaultNumbers DEF Copies
<1>8. EntryBy(c, p) = IF c.claimedBy[p] = 0 THEN 0 ELSE files[c.claimedBy[p]][p]
  BY <1>4 DEF EntryBy
<1>9. StampedBy(c, p) = c.claimedBy[p]
  BY <1>4 DEF StampedBy
<1>10. CASE c.claimedBy[p] = 0
  <2>1. First(Copies(p)) = {} /\ Copies(p) = {}
    BY <1>5, <1>6, <1>10 DEF ClaimsFirst, First
  <2>2. docMeta[p] = 0 /\ miniSearch[p] = 0 /\ \A v \in Vaults : fileMtimes[v][p] = 0
    BY <1>6, <1>7, <1>8, <1>9, <1>10 DEF MadeBy
  <2> QED
    BY <1>4, <2>1, <2>2
<1>11. CASE c.claimedBy[p] # 0
  <2> DEFINE u == c.claimedBy[p]
  <2>1. u \in First(Copies(p))
    BY <1>5, <1>6, <1>11 DEF ClaimsFirst
  <2>2. ASSUME NEW v \in First(Copies(p)) PROVE v = u
    <3>1. v \in Nat /\ u \in Nat /\ v <= u /\ u <= v
      BY <1>7, <2>1 DEF First
    <3> HIDE DEF u
    <3> QED
      BY <3>1
  <2>3. docMeta[p] = files[u][p] /\ miniSearch[p] = files[u][p]
    BY <1>6, <1>8, <1>11 DEF MadeBy
  <2>4. \A v \in Vaults : fileMtimes[v][p] = IF v = u THEN files[v][p] ELSE 0
    BY <1>6, <1>9 DEF MadeBy
  <2>5. Copies(p) # {}
    BY <2>1 DEF First
  <2> HIDE DEF u
  <2> QED
    BY <1>4, <2>1, <2>2, <2>3, <2>4, <2>5
<1> QED
  BY <1>10, <1>11

\* A full rebuild that nothing disturbs leaves for each path exactly the copy of the first vault
\* that has one which its allowlist lets in.
THEOREM FullRebuildIsExactHolds == Spec => FullRebuildIsExact
<1>1. Init => CalmInv
  BY DEF Init, CalmInv
<1>2. Inv /\ CalmInv /\ [Next]_vars => CalmInv' /\ EndsExact
  BY NextCalm, NextEndsExact
<1>3. Inv /\ CalmInv /\ [Next]_vars =>
        [\A b \in calm : rebuild[b].at # "idle" /\ rebuild'[b].at = "idle" =>
          \A p \in Paths :
             /\ Copies(p) = {} => docMeta'[p] = 0 /\ miniSearch'[p] = 0
             /\ \A v \in First(Copies(p)) :
                   docMeta'[p] = files[v][p] /\ miniSearch'[p] = files[v][p]
             /\ \A v \in Vaults : fileMtimes'[v][p] =
                   IF v \in First(Copies(p)) THEN files[v][p] ELSE 0]_vars
  BY <1>2 DEF EndsExact
<1> QED
  BY <1>1, <1>2, <1>3, InitInv, StepInv, PTL DEF Spec, FullRebuildIsExact
=============================================================================
