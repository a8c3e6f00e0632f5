-------------------------- MODULE VectorIndex_proofs --------------------------
(***************************************************************************)
(* Proofs about the vector index, for any notes, calls and bounds: the     *)
(* types, HashIsVector, StaysFindable and Heals. The invariant adds that   *)
(* ids are handed out in order, that the saved maps are as the live ones,  *)
(* and that a sync holds an old id of its own note only (HashIsVector);    *)
(* that an id which a call holds leads to its note or nowhere              *)
(* (StaysFindable); and how far a call that nothing has disturbed has come *)
(* in mending the index (Heals).                                           *)
(***************************************************************************)
EXTENDS VectorIndex, TLAPS

Map == [Paths -> Ids \cup {None}]
Hashes == [Paths -> Text \cup {None}]

\* What the numbers and texts are.
LEMMA Numbers ==
  /\ MaxId \in Nat /\ MaxWrites \in Nat /\ MaxBuilds \in Nat /\ MaxFails \in Nat
  /\ 0 \in Ids /\ 0 \in Writes /\ 1 \in Writes
  /\ None \notin Ids /\ None \notin Paths /\ None \notin Text
  /\ \A w \in Writes : Doc(w) \in Text /\ Body(w) \in Text
BY ConstantsTyped DEF Ids, Writes, Text

\* The updates of a call keep its type, and what it says.
LEMMA JobUpdates ==
  /\ Idle \in Job /\ Idle.at = "idle" /\ Idle.path = None /\ Idle.existingId = None
  /\ \A kind \in {"sync", "full"}, s \in [Paths -> Writes], b \in BOOLEAN :
        LET c == Begun(kind, s)  d == [Begun(kind, s) EXCEPT !.changed = b]
        IN  /\ c \in Job /\ c.at = "walk" /\ c.path = None /\ c.existingId = None /\ c.kind = kind
            /\ d \in Job /\ d.at = "walk" /\ d.path = None /\ d.existingId = None /\ d.kind = kind
<1>1. Idle \in Job /\ Idle.at = "idle" /\ Idle.path = None /\ Idle.existingId = None
  BY Numbers DEF Idle, Job
<1>2. ASSUME NEW kind \in {"sync", "full"}, NEW s \in [Paths -> Writes], NEW b \in BOOLEAN
      PROVE  LET c == Begun(kind, s)  d == [Begun(kind, s) EXCEPT !.changed = b]
             IN  /\ c \in Job /\ c.at = "walk" /\ c.path = None
                 /\ c.existingId = None /\ c.kind = kind
                 /\ d \in Job /\ d.at = "walk" /\ d.path = None
                 /\ d.existingId = None /\ d.kind = kind
  <2> DEFINE c == Begun(kind, s)
  <2>1. c \in Job /\ c.at = "walk" /\ c.path = None /\ c.existingId = None /\ c.kind = kind
    <3> DEFINE i == Idle
    <3>1. i \in Job /\ i.path = None /\ i.existingId = None
      BY <1>1
    <3>2. c = [i EXCEPT !.at = "walk", !.kind = kind, !.todo = s]
      BY DEF Begun
    <3> HIDE DEF i, c
    <3> QED
      BY <3>1, <3>2 DEF Job
  <2> HIDE DEF c
  <2> DEFINE d == [c EXCEPT !.changed = b]
  <2>2. d \in Job /\ d.at = "walk" /\ d.path = None /\ d.existingId = None /\ d.kind = kind
    BY <2>1 DEF Job
  <2> QED
    BY <2>1, <2>2 DEF c
<1> QED
  BY <1>1, <1>2

\* The same of a call that goes on.
LEMMA WalkingIs ==
  ASSUME NEW c \in Job, NEW b \in BOOLEAN
  PROVE  LET d == Walking(c)  e == [Walking(c) EXCEPT !.changed = b]
         IN  /\ d \in Job /\ d.at = "walk" /\ d.path = None /\ d.existingId = None
             /\ e \in Job /\ e.at = "walk" /\ e.path = None /\ e.existingId = None
             /\ d.kind = c.kind /\ e.kind = c.kind
<1> DEFINE d == Walking(c)
<1>1. d \in Job /\ d.at = "walk" /\ d.path = None /\ d.existingId = None /\ d.kind = c.kind
  BY Numbers DEF Walking, Job
<1> HIDE DEF d
<1> DEFINE e == [d EXCEPT !.changed = b]
<1>2. e \in Job /\ e.at = "walk" /\ e.path = None /\ e.existingId = None /\ e.kind = d.kind
  BY <1>1 DEF Job
<1> QED
  BY <1>1, <1>2 DEF d

\* A call that takes a note.
TakenBy(c, p, id) ==
    [[c EXCEPT !.todo[p] = 0] EXCEPT !.at = "embed", !.path = p, !.text = c.todo[p],
                                     !.existingId = id]

\* The same of a call that has passed a note.
LEMMA PassedIs ==
  ASSUME NEW c \in Job, c.at = "walk", NEW p \in Paths
  PROVE  LET d == [c EXCEPT !.todo[p] = 0]
         IN  /\ d \in Job /\ d.at = "walk" /\ d.path = c.path /\ d.existingId = c.existingId
             /\ d.kind = c.kind
BY Numbers DEF Job

\* The same of a call that takes a note.
LEMMA TakenIs ==
  ASSUME NEW c \in Job, c.at = "walk", NEW p \in Paths, NEW id \in Ids \cup {None}
  PROVE  /\ TakenBy(c, p, id) \in Job /\ TakenBy(c, p, id).at = "embed"
         /\ TakenBy(c, p, id).path = p /\ TakenBy(c, p, id).existingId = id
         /\ TakenBy(c, p, id).kind = c.kind
<1> DEFINE d == [c EXCEPT !.todo[p] = 0]
<1>1. d \in Job /\ d.kind = c.kind
  BY PassedIs
<1>2. c.todo[p] \in Writes
  BY DEF Job
<1>3. TakenBy(c, p, id) = [d EXCEPT !.at = "embed", !.path = p, !.text = c.todo[p],
                                    !.existingId = id]
  BY DEF TakenBy
<1> HIDE DEF d
<1> QED
  BY <1>1, <1>2, <1>3 DEF Job

-----------------------------------------------------------------------------
\* The index and its maps.
IndexOK ==
    /\ vector \in Vectors /\ pathToId \in Map /\ idToPath \in [Ids -> Paths \cup {None}]
    /\ pathToHash \in Hashes /\ nextId \in 0 .. MaxId + 1

\* The calls under way.
JobsOK ==
    /\ job \in [Jobs -> Job]
    /\ \A j \in Jobs : job[j].at = "embed" <=> job[j].path # None

\* Everything else.
RestOK ==
    /\ docs \in [Paths -> Writes]
    /\ ready \in BOOLEAN /\ persistTimer \in BOOLEAN /\ sound \in BOOLEAN
    /\ calm \subseteq Jobs
    /\ embedding \in [Embedders -> [path : Paths, text : Text] \cup {None}]
    /\ writes \in Writes /\ builds \in 0 .. MaxBuilds

\* The saved index.
SavedOK ==
    /\ disk \in [index : Vectors, map : MapFile] \cup {None}
    /\ diskSound \in BOOLEAN /\ fails \in 0 .. MaxFails

\* TypeOK in four parts.
LEMMA TypeParts == TypeOK <=> IndexOK /\ JobsOK /\ RestOK /\ SavedOK
BY DEF TypeOK, IndexOK, JobsOK, RestOK, SavedOK, Map, Hashes

\* A new vector is well typed.
LEMMA PutOK ==
  ASSUME IndexOK, NEW p \in Paths, NEW text \in Text, NEW old, Put(p, text, old)
  PROVE  IndexOK'
<1>1. nextId \in Ids /\ nextId + 1 \in 0 .. MaxId + 1
  BY Numbers DEF IndexOK, Put, Ids
<1>2. vector' \in Vectors /\ idToPath' \in [Ids -> Paths \cup {None}]
  BY <1>1 DEF IndexOK, Put, Vectors
<1>3. pathToId' \in Map /\ pathToHash' \in Hashes
  BY <1>1 DEF IndexOK, Put, Map, Hashes
<1> QED
  BY <1>1, <1>2, <1>3 DEF IndexOK, Put

\* So is the index without some vectors, and without any.
LEMMA DropOK ==
  ASSUME IndexOK, NEW S, Drop(S), UNCHANGED nextId
  PROVE  IndexOK'
BY DEF IndexOK, Drop, Vectors, Map, Hashes

\* So is an index whose maps are cleared.
LEMMA ClearedOK ==
  ASSUME IndexOK, Cleared, vector' = vector \/ vector' = NoVector
  PROVE  IndexOK'
<1>1. 0 \in 0 .. MaxId + 1
  BY Numbers
<1> QED
  BY <1>1 DEF IndexOK, Cleared, NoId, NoVector, Vectors, Map, Hashes

\* What is saved is well typed.
LEMMA PersistOK ==
  ASSUME IndexOK, SavedOK, sound \in BOOLEAN, Persist
  PROVE  SavedOK'
<1>1. Saved \in [index : Vectors, map : MapFile] /\ Saved.index = vector
  BY DEF IndexOK, Saved, MapFile, Map, Hashes
<1>2. fails' \in 0 .. MaxFails
  BY Numbers DEF Persist, Fail, SavedOK
<1>3. disk # None => [index |-> Saved.index, map |-> disk.map] \in [index : Vectors, map : MapFile]
  BY <1>1 DEF SavedOK, IndexOK
<1>4. disk' \in [index : Vectors, map : MapFile] \cup {None} /\ diskSound' \in BOOLEAN
  BY <1>1, <1>3 DEF Persist, SavedOK
<1> QED
  BY <1>2, <1>4 DEF SavedOK

\* A failure leaves the saved index as it is.
LEMMA FailOK ==
  ASSUME SavedOK, UNCHANGED <<disk, diskSound>>, Fail \/ UNCHANGED fails
  PROVE  SavedOK'
BY Numbers DEF SavedOK, Fail

\* Every call of a job set by a step is well typed.
LEMMA JobSetOK ==
  ASSUME JobsOK, NEW j \in Jobs, NEW c \in Job, c.at = "embed" <=> c.path # None,
         job' = [job EXCEPT ![j] = c]
  PROVE  JobsOK'
BY DEF JobsOK

-----------------------------------------------------------------------------
\* A boot finds a well typed index, or none.
LEMMA ReadyOK ==
  ASSUME IndexOK, JobsOK, RestOK, SavedOK, NEW j \in Jobs, Ready(j)
  PROVE  IndexOK' /\ JobsOK' /\ SavedOK' /\ sound' \in BOOLEAN
<1>1. CASE BuildNew(j)
  <2>1. Begun("full", docs) \in Job /\ Begun("full", docs).at = "walk"
        /\ Begun("full", docs).path = None
    BY JobUpdates DEF RestOK
  <2>2. JobsOK'
    BY <1>1, <2>1, JobSetOK DEF BuildNew
  <2>3. SavedOK'
    BY <1>1, FailOK DEF Ready, BuildNew
  <2>4. IndexOK' /\ sound' \in BOOLEAN
    BY <1>1 DEF BuildNew, IndexOK, maps
  <2> QED
    BY <2>2, <2>3, <2>4
<1>2. CASE SyncSaved(j)
  <2> DEFINE map == disk.map
  <2>1. map \in MapFile /\ disk.index \in [Ids -> Text \cup {None}]
    BY <1>2 DEF SyncSaved, SavedOK, Vectors
  <2>2. nextId' \in 0 .. MaxId + 1 /\ map.pathToId \in Map /\ map.pathToHash \in Hashes
    BY <1>2, <2>1 DEF SyncSaved, MapFile, Map, Hashes
  <2>3. vector' \in Vectors
    BY <1>2, <2>1 DEF SyncSaved, Vectors
  <2>4. pathToId' \in Map /\ pathToHash' \in Hashes
    BY <1>2, <2>2 DEF SyncSaved, Map, Hashes
  <2>5. idToPath' \in [Ids -> Paths \cup {None}]
    BY <1>2 DEF SyncSaved
  <2>6. IndexOK'
    BY <2>2, <2>3, <2>4, <2>5 DEF IndexOK
  <2> DEFINE b == Gone(map) # {}
  <2> DEFINE sync == [Begun("sync", docs) EXCEPT !.changed = b]
  <2>7. job' = [job EXCEPT ![j] = sync]
    BY <1>2 DEF SyncSaved
  <2>8. docs \in [Paths -> Writes] /\ b \in BOOLEAN
    BY DEF RestOK
  <2> HIDE DEF b
  <2>9. sync \in Job /\ sync.at = "walk" /\ sync.path = None
    BY <2>8, JobUpdates
  <2>10. JobsOK'
    BY <2>7, <2>9, JobSetOK
  <2>11. SavedOK' /\ sound' \in BOOLEAN
    BY <1>2 DEF SyncSaved, Ready, SavedOK
  <2> QED
    BY <2>6, <2>10, <2>11
<1> QED
  BY <1>1, <1>2 DEF Ready

\* The model starts well typed.
LEMMA InitTypeOK == Init => TypeOK
<1> SUFFICES ASSUME Init PROVE TypeOK
  OBVIOUS
<1>1. IndexOK
  BY Numbers DEF Init, IndexOK, NoVector, NoId, Vectors, Map, Hashes
<1>2. JobsOK
  BY JobUpdates DEF Init, JobsOK
<1>3. RestOK
  <2>1. docs \in [Paths -> Writes]
    BY Numbers DEF Init
  <2>2. 1 \in Writes /\ 0 \in 0 .. MaxBuilds
    BY Numbers
  <2> QED
    BY <2>1, <2>2 DEF Init, RestOK
<1>4. SavedOK
  BY Numbers DEF Init, SavedOK
<1> QED
  BY <1>1, <1>2, <1>3, <1>4, TypeParts

\* Every step keeps the types.
LEMMA NextTypeOK == TypeOK /\ [Next]_vars => TypeOK'
<1> SUFFICES ASSUME IndexOK, JobsOK, RestOK, SavedOK, [Next]_vars
             PROVE  (IndexOK /\ JobsOK /\ RestOK /\ SavedOK)'
  BY DEF TypeOK, IndexOK, JobsOK, RestOK, SavedOK, Map, Hashes
<1>0. calm' \subseteq Jobs
  BY DEF Next, vars, Repair, Ready, SyncSaved, BuildNew, RestOK
<1>1. ASSUME NEW j \in Jobs, Repair(j) PROVE (IndexOK /\ JobsOK /\ RestOK /\ SavedOK)'
  <2>1. Begun("full", docs) \in Job /\ Begun("full", docs).at = "walk"
        /\ Begun("full", docs).path = None
    BY JobUpdates DEF RestOK
  <2>2. JobsOK'
    <3>1. job' = job \/ job' = [job EXCEPT ![j] = Begun("full", docs)]
      BY <1>1 DEF Repair, BeginFull
    <3> QED
      BY <2>1, <3>1, JobSetOK DEF JobsOK
  <2>3. IndexOK'
    BY <1>1, ClearedOK DEF Repair, BeginFull
  <2>4. SavedOK'
    BY <1>1, FailOK DEF Repair, BeginFull
  <2>5. builds' \in 0 .. MaxBuilds
    BY <1>1, Numbers DEF Repair, RestOK
  <2>6. RestOK'
    BY <1>0, <1>1, <2>5 DEF Repair, BeginFull, RestOK
  <2> QED
    BY <2>2, <2>3, <2>4, <2>6
<1>2. ASSUME NEW j \in Jobs, Ready(j) PROVE (IndexOK /\ JobsOK /\ RestOK /\ SavedOK)'
  <2>1. RestOK'
    BY <1>0, <1>2, ReadyOK DEF Ready, RestOK
  <2> QED
    BY <1>2, <2>1, ReadyOK
<1>3. ASSUME NEW j \in Jobs, Take(j) PROVE (IndexOK /\ JobsOK /\ RestOK /\ SavedOK)'
  <2> DEFINE c == job[j]
  <2>1. c \in Job /\ c.at = "walk" /\ c.path = None
    BY <1>3 DEF Take, JobsOK
  <2>2. PICK p \in Paths :
           \/ job' = [job EXCEPT ![j] = [c EXCEPT !.todo[p] = 0]]
           \/ \E id \in Ids \cup {None} : job' = [job EXCEPT ![j] = TakenBy(c, p, id)]
    <3>1. \A p \in Paths : pathToId[p] \in Ids \cup {None}
      BY DEF IndexOK, Map
    <3> QED
      BY <1>3, <3>1 DEF Take, TakenBy
  <2> HIDE DEF c
  <2>3. JobsOK'
    <3>1. CASE job' = [job EXCEPT ![j] = [c EXCEPT !.todo[p] = 0]]
      <4> DEFINE d == [c EXCEPT !.todo[p] = 0]
      <4>1. d \in Job /\ d.at = "walk" /\ d.path = None
        BY <2>1, PassedIs
      <4> QED
        BY <3>1, <4>1, JobSetOK
    <3>2. ASSUME NEW id \in Ids \cup {None}, job' = [job EXCEPT ![j] = TakenBy(c, p, id)]
          PROVE  JobsOK'
      <4>1. /\ TakenBy(c, p, id) \in Job /\ TakenBy(c, p, id).at = "embed"
            /\ TakenBy(c, p, id).path = p
        BY <2>1, TakenIs
      <4>2. p # None
        BY Numbers
      <4> QED
        BY <3>2, <4>1, <4>2, JobSetOK
    <3> QED
      BY <2>2, <3>1, <3>2
  <2> QED
    BY <1>0, <1>3, <2>3 DEF Take, IndexOK, RestOK, SavedOK, maps, history, counters
<1>4. ASSUME NEW j \in Jobs, PutDoc(j) PROVE (IndexOK /\ JobsOK /\ RestOK /\ SavedOK)'
  <2> DEFINE c == job[j]
  <2>1. c \in Job /\ c.path \in Paths /\ Doc(c.text) \in Text
    BY <1>4, Numbers DEF PutDoc, JobsOK, Job
  <2>2. IndexOK'
    BY <1>4, <2>1, PutOK DEF PutDoc
  <2>3. JobsOK'
    BY <1>4, <2>1, WalkingIs, JobSetOK DEF PutDoc
  <2> QED
    BY <1>0, <1>4, <2>2, <2>3 DEF PutDoc, RestOK, SavedOK, history, counters
<1>5. ASSUME NEW j \in Jobs, FailDoc(j) PROVE (IndexOK /\ JobsOK /\ RestOK /\ SavedOK)'
  <2> DEFINE c == job[j]
  <2>1. c \in Job
    BY DEF JobsOK
  <2>2. JobsOK'
    BY <1>5, <2>1, WalkingIs, JobSetOK DEF FailDoc
  <2>3. SavedOK'
    BY <1>5, FailOK DEF FailDoc, history
  <2> QED
    BY <1>0, <1>5, <2>2, <2>3 DEF FailDoc, IndexOK, RestOK, maps, history
<1>6. ASSUME NEW j \in Jobs, Finish(j) PROVE (IndexOK /\ JobsOK /\ RestOK /\ SavedOK)'
  <2>1. JobsOK'
    BY <1>6, JobUpdates, JobSetOK DEF Finish
  <2>2. SavedOK'
    <3>1. Persist \/ UNCHANGED <<disk, diskSound, fails>>
      BY <1>6 DEF Finish
    <3> QED
      BY <3>1, PersistOK DEF RestOK, SavedOK
  <2> QED
    BY <1>0, <1>6, <2>1, <2>2 DEF Finish, IndexOK, RestOK, maps
<1>7. ASSUME NEW e \in Embedders, EmbedAndIndex(e)
      PROVE  (IndexOK /\ JobsOK /\ RestOK /\ SavedOK)'
  <2> DEFINE n == embedding[e]
  <2>1. n.path \in Paths /\ n.text \in Text
    BY <1>7 DEF EmbedAndIndex, RestOK
  <2>2. IndexOK'
    BY <1>7, <2>1, PutOK DEF EmbedAndIndex
  <2> QED
    BY <1>0, <1>7, <2>2 DEF EmbedAndIndex, JobsOK, RestOK, SavedOK, history, counters
<1>8. ASSUME NEW e \in Embedders, EmbedFails(e)
      PROVE  (IndexOK /\ JobsOK /\ RestOK /\ SavedOK)'
  <2>1. SavedOK'
    BY <1>8, FailOK DEF EmbedFails, history
  <2> QED
    BY <1>0, <1>8, <2>1 DEF EmbedFails, IndexOK, JobsOK, RestOK, maps, history
<1>9. ASSUME NEW e \in Embedders, NEW p \in Paths, IndexNote(e, p)
      PROVE  (IndexOK /\ JobsOK /\ RestOK /\ SavedOK)'
  <2>1. writes + 1 \in Writes
    BY <1>9, Numbers DEF IndexNote, RestOK, Writes
  <2>2. [path |-> p, text |-> Body(writes + 1)] \in [path : Paths, text : Text]
    BY <2>1, Numbers
  <2>3. embedding' \in [Embedders -> [path : Paths, text : Text] \cup {None}]
    BY <1>9, <2>2 DEF IndexNote, RestOK
  <2> QED
    BY <1>0, <1>9, <2>1, <2>3
       DEF IndexNote, IndexOK, JobsOK, RestOK, SavedOK, maps, history
<1>10. ASSUME NEW p \in Paths, Remove(p) PROVE (IndexOK /\ JobsOK /\ RestOK /\ SavedOK)'
  <2>1. IndexOK'
    <3>1. (Drop({p}) /\ UNCHANGED nextId) \/ UNCHANGED <<vector, maps>>
      BY <1>10 DEF Remove
    <3> QED
      BY <3>1, DropOK DEF IndexOK, maps
  <2>2. docs' \in [Paths -> Writes] /\ persistTimer' \in BOOLEAN
    BY <1>10, Numbers DEF Remove, RestOK
  <2> QED
    BY <1>0, <1>10, <2>1, <2>2 DEF Remove, JobsOK, RestOK, SavedOK, history, counters
<1>11. ASSUME NEW p \in Paths, Rescan(p) PROVE (IndexOK /\ JobsOK /\ RestOK /\ SavedOK)'
  <2>1. writes + 1 \in Writes
    BY <1>11, Numbers DEF Rescan, RestOK, Writes
  <2>2. docs' \in [Paths -> Writes]
    BY <1>11, <2>1, Numbers DEF Rescan, RestOK
  <2> QED
    BY <1>0, <1>11, <2>1, <2>2 DEF Rescan, IndexOK, JobsOK, RestOK, SavedOK, maps, history
<1>12. CASE PersistLater
  <2>1. SavedOK'
    BY <1>12, PersistOK DEF PersistLater, RestOK
  <2> QED
    BY <1>0, <1>12, <2>1 DEF PersistLater, IndexOK, JobsOK, RestOK, maps
<1>13. CASE Restart
  <2>1. SavedOK'
    <3>1. Persist \/ UNCHANGED <<disk, diskSound, fails>>
      BY <1>13 DEF Restart
    <3> QED
      BY <3>1, PersistOK DEF RestOK, SavedOK
  <2>2. IndexOK'
    BY <1>13, ClearedOK DEF Restart
  <2>3. JobsOK'
    BY <1>13, JobUpdates DEF Restart, JobsOK
  <2>4. builds' \in 0 .. MaxBuilds
    BY <1>13, Numbers DEF Restart, RestOK
  <2> QED
    BY <1>0, <1>13, <2>1, <2>2, <2>3, <2>4 DEF Restart, RestOK
<1>14. CASE UNCHANGED vars
  BY <1>14 DEF vars, state, maps, history, counters, IndexOK, JobsOK, RestOK, SavedOK
<1> QED
  BY <1>1, <1>2, <1>3, <1>4, <1>5, <1>6, <1>7, <1>8, <1>9, <1>10, <1>11, <1>12, <1>13, <1>14
     DEF Next, Other

\* Every reachable state of the vector index is well typed.
THEOREM TypeCorrect == Spec => []TypeOK
BY InitTypeOK, NextTypeOK, PTL DEF Spec

-----------------------------------------------------------------------------
\* Ids are of one note each, and below the next one.
Apart(ids, next) ==
    /\ \A p, q \in Paths : ids[p] # None /\ ids[p] = ids[q] => p = q
    /\ \A p \in Paths : ids[p] # None => ids[p] < next

\* A note with an id has a hash and the vector made from it.
Matches(ids, hashes, vectors) ==
    \A p \in Paths : /\ ids[p] = None <=> hashes[p] = None
                     /\ ids[p] # None => vectors[ids[p]] = hashes[p]

\* An id leads back to its note.
PathsBack == \A p \in Paths : pathToId[p] # None => idToPath[pathToId[p]] = p

\* The id that a call holds is of the note in its hand, or of none any more.
OldIdsOwn ==
    \A j \in Jobs : job[j].existingId # None =>
        /\ job[j].existingId < nextId
        /\ \A q \in Paths : q # job[j].path => pathToId[q] # job[j].existingId

\* Only a sync holds an id, and no call is under way before the model is ready.
CallsInv ==
    /\ \A j \in Jobs : job[j].kind = "full" \/ job[j].at # "embed" => job[j].existingId = None
    /\ ~ready => sound /\ \A j \in Jobs : job[j].at = "idle"

LiveInv ==
    /\ Apart(pathToId, nextId)
    /\ sound => Matches(pathToId, pathToHash, vector) /\ PathsBack /\ OldIdsOwn

DiskInv ==
    disk # None =>
        /\ Apart(disk.map.pathToId, disk.map.nextId)
        /\ diskSound => Matches(disk.map.pathToId, disk.map.pathToHash, disk.index)

\* The invariant holds at the start.
LEMMA InitInv == Init => LiveInv /\ CallsInv /\ DiskInv
<1> SUFFICES ASSUME Init PROVE LiveInv /\ CallsInv /\ DiskInv
  OBVIOUS
<1>1. \A j \in Jobs : job[j].at = "idle" /\ job[j].existingId = None
  BY JobUpdates DEF Init
<1> QED
  BY <1>1 DEF Init, LiveInv, CallsInv, DiskInv, Apart, Matches, PathsBack, OldIdsOwn, NoId,
              NoVector

\* A new vector keeps the ids apart.
LEMMA PutApart ==
  ASSUME IndexOK, Apart(pathToId, nextId), NEW p \in Paths, NEW text, NEW old,
         Put(p, text, old)
  PROVE  Apart(pathToId', nextId')
<1>1. nextId \in Ids /\ nextId # None /\ nextId \in Nat /\ nextId' = nextId + 1
  BY Numbers DEF IndexOK, Put, Ids
<1>2. \A q \in Paths : pathToId'[q] = IF q = p THEN nextId ELSE pathToId[q]
  BY DEF IndexOK, Put, Map
<1>3. \A q \in Paths : pathToId[q] # None => pathToId[q] \in Nat /\ pathToId[q] < nextId
  BY Numbers DEF IndexOK, Map, Ids, Apart
<1>4. \A q \in Paths : pathToId'[q] # None => pathToId'[q] < nextId'
  BY <1>1, <1>2, <1>3
<1>5. \A q \in Paths : pathToId[q] # nextId
  BY <1>1, <1>3
<1> QED
  BY <1>1, <1>2, <1>4, <1>5 DEF Apart

\* And its place among the others, when the id it replaces is of no other note.
LEMMA PutMatches ==
  ASSUME IndexOK, Apart(pathToId, nextId), Matches(pathToId, pathToHash, vector), PathsBack,
         NEW p \in Paths, NEW text \in Text, NEW old, Put(p, text, old),
         \A q \in Paths : q # p /\ pathToId[q] # None => pathToId[q] # old
  PROVE  Matches(pathToId', pathToHash', vector') /\ PathsBack'
<1>1. nextId \in Ids /\ nextId # None
  BY Numbers DEF IndexOK, Put, Ids
<1>2. \A q \in Paths : /\ pathToId'[q] = IF q = p THEN nextId ELSE pathToId[q]
                       /\ pathToHash'[q] = IF q = p THEN text ELSE pathToHash[q]
  BY DEF IndexOK, Put, Map, Hashes
<1>3. vector'[nextId] = text /\ idToPath'[nextId] = p /\ text # None
  BY <1>1, Numbers DEF Put
<1>4. ASSUME NEW q \in Paths, q # p, pathToId[q] # None
      PROVE  /\ vector'[pathToId[q]] = vector[pathToId[q]]
             /\ idToPath'[pathToId[q]] = idToPath[pathToId[q]]
  <2>1. pathToId[q] \in Ids /\ pathToId[q] < nextId
    BY <1>4 DEF IndexOK, Map, Apart
  <2>2. pathToId[q] # nextId /\ pathToId[q] # old
    BY <1>1, <1>4, <2>1 DEF Ids
  <2> QED
    BY <2>1, <2>2 DEF Put
<1>5. Matches(pathToId', pathToHash', vector')
  BY <1>1, <1>2, <1>3, <1>4 DEF Matches
<1>6. PathsBack'
  BY <1>1, <1>2, <1>3, <1>4 DEF PathsBack
<1> QED
  BY <1>5, <1>6

\* Cleared maps match any vectors.
LEMMA ClearedMatches ==
  ASSUME Cleared
  PROVE  /\ Apart(pathToId', nextId') /\ Matches(pathToId', pathToHash', vector')
         /\ PathsBack'
BY DEF Cleared, Apart, Matches, PathsBack, NoId

\* What is saved is as the live index is.
LEMMA PersistInv ==
  ASSUME LiveInv, DiskInv, Persist
  PROVE  DiskInv'
<1>1. Saved # None => /\ Saved.map.pathToId = pathToId /\ Saved.map.nextId = nextId
      /\ Saved.map.pathToHash = pathToHash /\ Saved.index = vector
  BY DEF Saved
<1>2. CASE disk' = Saved /\ diskSound' = sound
  BY <1>1, <1>2 DEF LiveInv, DiskInv
<1>3. CASE UNCHANGED <<disk, diskSound>>
  BY <1>3 DEF DiskInv
<1>4. CASE disk # None /\ disk' = [index |-> Saved.index, map |-> disk.map] /\ diskSound' = FALSE
  <2>1. disk'.map = disk.map
    BY <1>4
  <2> QED
    BY <1>4, <2>1 DEF DiskInv
<1> QED
  BY <1>2, <1>3, <1>4 DEF Persist

\* A boot over a saved index: the notes that are gone take their ids with them.
LEMMA SyncSavedInv ==
  ASSUME SavedOK, DiskInv, NEW j \in Jobs, SyncSaved(j)
  PROVE  /\ Apart(pathToId', nextId')
         /\ sound' => Matches(pathToId', pathToHash', vector') /\ PathsBack'
<1> DEFINE map == disk.map
<1> DEFINE gone == Gone(map)
<1>1. disk # None /\ map.pathToId \in Map
  BY DEF SyncSaved, SavedOK, MapFile, Map
<1>2. Apart(map.pathToId, map.nextId)
      /\ (diskSound => Matches(map.pathToId, map.pathToHash, disk.index))
  BY <1>1 DEF DiskInv
<1>3. \A p \in Paths : /\ pathToId'[p] = IF p \in gone THEN None ELSE map.pathToId[p]
                       /\ pathToHash'[p] = IF p \in gone THEN None ELSE map.pathToHash[p]
  BY DEF SyncSaved
<1>4. nextId' = map.nextId /\ sound' = diskSound
  BY DEF SyncSaved
<1>5. ASSUME NEW p \in Paths, pathToId'[p] # None
      PROVE  /\ vector'[pathToId'[p]] = disk.index[pathToId'[p]]
             /\ idToPath'[pathToId'[p]] = p
  <2>1. pathToId'[p] = map.pathToId[p] /\ p \notin gone
    BY <1>3, <1>5
  <2>2. map.pathToId[p] \in Ids
    BY <1>1, <1>5, <2>1 DEF Map
  <2>3. \A g \in gone : g \in Paths /\ map.pathToId[g] # map.pathToId[p]
    BY <1>2, <1>5, <2>1 DEF Apart, Gone
  <2>4. pathToId'[p] \notin {map.pathToId[g] : g \in gone}
    BY <2>1, <2>3
  <2>5. vector'[pathToId'[p]] = disk.index[pathToId'[p]]
    BY <2>1, <2>2, <2>4 DEF SyncSaved
  <2>6. \A q \in Paths : pathToId'[q] = pathToId'[p] => q = p
    BY <1>2, <1>3, <1>5 DEF Apart
  <2>7. idToPath'[pathToId'[p]] = CHOOSE q \in Paths : pathToId'[q] = pathToId'[p]
    BY <2>1, <2>2 DEF SyncSaved
  <2> QED
    BY <2>5, <2>6, <2>7
<1> HIDE DEF map, gone
<1>6. Apart(pathToId', nextId')
  BY <1>2, <1>3, <1>4 DEF Apart
<1>7. diskSound => Matches(pathToId', pathToHash', vector')
  BY <1>2, <1>3, <1>5 DEF Matches, map
<1>8. PathsBack'
  BY <1>5 DEF PathsBack
<1> QED
  BY <1>4, <1>6, <1>7, <1>8

\* The ids that calls hold stay their own while ids are only added in order, or go.
LEMMA OldIdsKept ==
  ASSUME IndexOK, JobsOK, Apart(pathToId, nextId), OldIdsOwn, nextId' >= nextId, IndexOK',
         \A q \in Paths : pathToId'[q] \in {pathToId[q], nextId, None},
         \A k \in Jobs : \/ job'[k].existingId = None
                         \/ /\ job'[k].existingId = job[k].existingId
                            /\ job'[k].path = job[k].path
                         \/ /\ job'[k].path \in Paths /\ pathToId' = pathToId
                            /\ job'[k].existingId = pathToId[job'[k].path]
  PROVE  OldIdsOwn'
<1> SUFFICES ASSUME NEW k \in Jobs, job'[k].existingId # None
             PROVE  /\ job'[k].existingId < nextId'
                    /\ \A q \in Paths : q # job'[k].path => pathToId'[q] # job'[k].existingId
  BY DEF OldIdsOwn
<1> DEFINE id == job'[k].existingId
<1>0. nextId \in Nat /\ nextId' \in Nat /\ None \notin Ids
  BY Numbers DEF IndexOK
<1>1. CASE id = job[k].existingId /\ job'[k].path = job[k].path
  <2>1. id \in Ids /\ id \in Nat
    BY <1>1 DEF JobsOK, Job, Ids
  <2>2. id < nextId /\ \A q \in Paths : q # job'[k].path => pathToId[q] # id
    BY <1>1 DEF OldIdsOwn
  <2> HIDE DEF id
  <2>3. id < nextId' /\ id # nextId
    BY <1>0, <2>1, <2>2
  <2>4. \A q \in Paths : q # job'[k].path => pathToId'[q] # id
    BY <1>0, <2>1, <2>2, <2>3
  <2> QED
    BY <2>3, <2>4 DEF id
<1>2. CASE /\ job'[k].path \in Paths /\ pathToId' = pathToId
           /\ id = pathToId[job'[k].path]
  <2>1. id \in Ids /\ id \in Nat /\ id < nextId
    BY <1>2 DEF IndexOK, Map, Apart, Ids
  <2>2. id < nextId'
    BY <1>0, <2>1
  <2>3. \A q \in Paths : q # job'[k].path => pathToId'[q] # id
    BY <1>2 DEF Apart
  <2> QED
    BY <2>2, <2>3
<1> QED
  BY <1>1, <1>2

\* A step that leaves the index alone: what remains is what the calls hold.
LEMMA IndexKept ==
  ASSUME LiveInv, UNCHANGED <<pathToId, pathToHash, idToPath, nextId, vector>>,
         sound' => sound, OldIdsOwn => OldIdsOwn'
  PROVE  LiveInv'
BY DEF LiveInv, PathsBack

\* What a call of this job may become.
LEMMA CallSet ==
  ASSUME JobsOK, CallsInv, NEW j \in Jobs, NEW c, job' = [job EXCEPT ![j] = c], ready',
         c.kind = "full" \/ c.at # "embed" => c.existingId = None
  PROVE  CallsInv'
BY DEF CallsInv, JobsOK

\* Every step keeps the invariant.
LEMMA NextInv ==
  ASSUME TypeOK, TypeOK', LiveInv, CallsInv, DiskInv, [Next]_vars
  PROVE  LiveInv' /\ CallsInv' /\ DiskInv'
<1>0. IndexOK /\ IndexOK' /\ JobsOK /\ JobsOK' /\ RestOK /\ SavedOK
  BY DEF TypeOK, IndexOK, JobsOK, RestOK, SavedOK, Map, Hashes
<1>1. ASSUME NEW j \in Jobs, Repair(j) PROVE LiveInv' /\ CallsInv' /\ DiskInv'
  <2> DEFINE c == Begun("full", docs)
  <2>1. c.kind = "full" /\ c.at = "walk" /\ c.existingId = None
    BY <1>0, JobUpdates DEF RestOK
  <2> HIDE DEF c
  <2>2. job' = job \/ job' = [job EXCEPT ![j] = c]
    BY <1>1 DEF Repair, BeginFull, c
  <2>3. ready /\ ready'
    BY <1>1 DEF Repair
  <2>4. CallsInv'
    BY <1>0, <2>1, <2>2, <2>3, CallSet DEF CallsInv
  <2>5. ASSUME sound', NEW k \in Jobs PROVE job'[k].existingId = None
    <3>1. job[k].at = "idle" \/ job[k].kind = "full"
      BY <1>1, <2>5 DEF Repair, BeginFull
    <3>2. job[k].existingId = None
      BY <3>1 DEF CallsInv
    <3> QED
      BY <1>0, <2>1, <2>2, <3>2 DEF JobsOK
  <2>6. sound' => OldIdsOwn'
    BY <2>5 DEF OldIdsOwn
  <2>7. LiveInv'
    BY <1>1, <2>6, ClearedMatches DEF Repair, BeginFull, LiveInv
  <2>8. DiskInv'
    BY <1>1 DEF Repair, DiskInv
  <2> QED
    BY <2>4, <2>7, <2>8
<1>2. ASSUME NEW j \in Jobs, Ready(j) PROVE LiveInv' /\ CallsInv' /\ DiskInv'
  <2>1. PICK c : /\ job' = [job EXCEPT ![j] = c]
                 /\ c.at = "walk" /\ c.existingId = None
    <3> DEFINE b == Gone(disk.map) # {}
    <3>1. docs \in [Paths -> Writes] /\ b \in BOOLEAN
      BY <1>0 DEF RestOK
    <3>2. SyncSaved(j) => job' = [job EXCEPT ![j] = [Begun("sync", docs) EXCEPT !.changed = b]]
      BY DEF SyncSaved
    <3>3. BuildNew(j) => job' = [job EXCEPT ![j] = Begun("full", docs)]
      BY DEF BuildNew
    <3> HIDE DEF b
    <3>4. [Begun("sync", docs) EXCEPT !.changed = b].at = "walk"
          /\ [Begun("sync", docs) EXCEPT !.changed = b].existingId = None
      BY <3>1, JobUpdates
    <3>5. Begun("full", docs).at = "walk" /\ Begun("full", docs).existingId = None
      BY <3>1, JobUpdates
    <3>6. CASE SyncSaved(j)
      BY <3>2, <3>4, <3>6
    <3>7. CASE BuildNew(j)
      BY <3>3, <3>5, <3>7
    <3> QED
      BY <1>2, <3>6, <3>7 DEF Ready
  <2>2. ~ready /\ ready'
    BY <1>2 DEF Ready
  <2>3. CallsInv'
    BY <1>0, <2>1, <2>2, CallSet
  <2>4. \A k \in Jobs : job'[k].existingId = None
    BY <1>0, <2>1, <2>2 DEF CallsInv, JobsOK
  <2>5. OldIdsOwn'
    BY <2>4 DEF OldIdsOwn
  <2>6. ASSUME BuildNew(j) PROVE LiveInv'
    BY <2>2, <2>5, <2>6 DEF BuildNew, maps, CallsInv, LiveInv, PathsBack
  <2>7. ASSUME SyncSaved(j) PROVE LiveInv'
    BY <1>0, <2>5, <2>7, SyncSavedInv DEF LiveInv
  <2>8. DiskInv'
    BY <1>2 DEF Ready, DiskInv
  <2> QED
    BY <1>2, <2>3, <2>6, <2>7, <2>8 DEF Ready
<1>3. ASSUME NEW j \in Jobs, Take(j) PROVE LiveInv' /\ CallsInv' /\ DiskInv'
  <2> DEFINE c == job[j]
  <2>1. c \in Job /\ c.at = "walk" /\ ready /\ ready' /\ c.existingId = None
    BY <1>0, <1>3 DEF Take, JobsOK, CallsInv
  <2>2. PICK p \in Paths :
           \/ job' = [job EXCEPT ![j] = [c EXCEPT !.todo[p] = 0]]
           \/ job' = [job EXCEPT ![j] = TakenBy(c, p, IF c.kind = "sync" THEN pathToId[p] ELSE None)]
    BY <1>3 DEF Take, TakenBy
  <2>3. pathToId[p] \in Ids \cup {None}
    BY <1>0 DEF IndexOK, Map
  <2> HIDE DEF c
  <2>4. PICK d : /\ job' = [job EXCEPT ![j] = d]
                 /\ d.kind = "full" \/ d.at # "embed" => d.existingId = None
                 /\ d.existingId # None => d.path = p /\ d.existingId = pathToId[p]
    <3>1. CASE job' = [job EXCEPT ![j] = [c EXCEPT !.todo[p] = 0]]
      <4> DEFINE d == [c EXCEPT !.todo[p] = 0]
      <4>1. d.at = "walk" /\ d.existingId = None
        BY <2>1, PassedIs
      <4> HIDE DEF d
      <4>2. job' = [job EXCEPT ![j] = d]
        BY <3>1 DEF d
      <4> QED
        BY <4>1, <4>2
    <3>2. CASE job' = [job EXCEPT ![j] = TakenBy(c, p, IF c.kind = "sync" THEN pathToId[p]
                                                       ELSE None)]
      <4> DEFINE id == IF c.kind = "sync" THEN pathToId[p] ELSE None
      <4>1. id \in Ids \cup {None}
        BY <2>3
      <4>2. id # None => id = pathToId[p] /\ c.kind = "sync"
        OBVIOUS
      <4>3. job' = [job EXCEPT ![j] = TakenBy(c, p, id)]
        BY <3>2
      <4> HIDE DEF id
      <4>4. /\ TakenBy(c, p, id).path = p /\ TakenBy(c, p, id).existingId = id
            /\ TakenBy(c, p, id).kind = c.kind /\ TakenBy(c, p, id).at = "embed"
        BY <2>1, <4>1, TakenIs
      <4> DEFINE d == TakenBy(c, p, id)
      <4>5. d.existingId = id /\ d.path = p /\ d.kind = c.kind /\ d.at = "embed"
        BY <4>4
      <4> HIDE DEF d
      <4>6. job' = [job EXCEPT ![j] = d]
        BY <4>3 DEF d
      <4> QED
        BY <4>2, <4>5, <4>6
    <3> QED
      BY <2>2, <3>1, <3>2
  <2>5. CallsInv'
    BY <1>0, <2>1, <2>4, CallSet
  <2>6. nextId' = nextId /\ pathToId' = pathToId /\ nextId \in Nat
    BY <1>0, <1>3 DEF Take, maps, IndexOK
  <2>7. \A k \in Jobs : \/ job'[k].existingId = None
                        \/ /\ job'[k].existingId = job[k].existingId
                           /\ job'[k].path = job[k].path
                        \/ /\ job'[k].path \in Paths /\ pathToId' = pathToId
                           /\ job'[k].existingId = pathToId[job'[k].path]
    BY <1>0, <2>4, <2>6 DEF JobsOK
  <2>8. OldIdsOwn => OldIdsOwn'
    BY <1>0, <2>6, <2>7, OldIdsKept DEF LiveInv
  <2>9. LiveInv'
    BY <1>3, <2>8, IndexKept DEF Take, maps, history
  <2>10. DiskInv'
    BY <1>3 DEF Take, history, DiskInv
  <2> QED
    BY <2>5, <2>9, <2>10
<1>4. ASSUME NEW j \in Jobs, PutDoc(j) PROVE LiveInv' /\ CallsInv' /\ DiskInv'
  <2> DEFINE c == job[j]
  <2>1. c \in Job /\ c.at = "embed" /\ c.path \in Paths /\ Doc(c.text) \in Text /\ ready /\ ready'
    BY <1>0, <1>4, Numbers DEF PutDoc, JobsOK, Job, CallsInv
  <2> DEFINE d == [Walking(c) EXCEPT !.changed = TRUE]
  <2>2. d.at = "walk" /\ d.existingId = None
    BY <2>1, WalkingIs
  <2>3. job' = [job EXCEPT ![j] = d]
    BY <1>4 DEF PutDoc
  <2> HIDE DEF d
  <2>4. CallsInv'
    BY <1>0, <2>1, <2>2, <2>3, CallSet
  <2>5. Put(c.path, Doc(c.text), c.existingId)
    BY <1>4 DEF PutDoc
  <2>6. Apart(pathToId', nextId')
    BY <1>0, <2>1, <2>5, PutApart DEF LiveInv
  <2>7. ASSUME sound PROVE Matches(pathToId', pathToHash', vector') /\ PathsBack' /\ OldIdsOwn'
    <3>1. \A q \in Paths : q # c.path /\ pathToId[q] # None => pathToId[q] # c.existingId
      BY <2>7 DEF LiveInv, OldIdsOwn
    <3>2. Matches(pathToId', pathToHash', vector') /\ PathsBack'
      BY <1>0, <2>1, <2>5, <2>7, <3>1, PutMatches DEF LiveInv
    <3>3. nextId \in Nat /\ nextId' = nextId + 1
          /\ \A q \in Paths : pathToId'[q] \in {pathToId[q], nextId, None}
      BY <1>0, <2>5 DEF Put, IndexOK, Map
    <3>4. \A k \in Jobs : \/ job'[k].existingId = None
                          \/ /\ job'[k].existingId = job[k].existingId
                             /\ job'[k].path = job[k].path
      BY <1>0, <2>2, <2>3 DEF JobsOK
    <3>5. nextId' >= nextId
      BY <3>3
    <3>6. OldIdsOwn'
      BY <1>0, <2>7, <3>3, <3>4, <3>5, OldIdsKept DEF LiveInv
    <3> QED
      BY <3>2, <3>6
  <2>8. sound' = sound /\ DiskInv'
    BY <1>4 DEF PutDoc, history, DiskInv
  <2> QED
    BY <2>4, <2>6, <2>7, <2>8 DEF LiveInv
<1>5. ASSUME NEW j \in Jobs, FailDoc(j) \/ Finish(j) PROVE LiveInv' /\ CallsInv' /\ DiskInv'
  <2>1. ready /\ ready'
    BY <1>5 DEF FailDoc, Finish, CallsInv
  <2>2. PICK c : job' = [job EXCEPT ![j] = c] /\ c.at # "embed" /\ c.existingId = None
    <3>1. CASE FailDoc(j)
      <4>1. Walking(job[j]).at = "walk" /\ Walking(job[j]).existingId = None
        BY <1>0, WalkingIs DEF JobsOK
      <4> QED
        BY <3>1, <4>1 DEF FailDoc
    <3>2. CASE Finish(j)
      BY <3>2, JobUpdates DEF Finish
    <3> QED
      BY <1>5, <3>1, <3>2
  <2>3. CallsInv'
    BY <1>0, <2>1, <2>2, CallSet
  <2>4. UNCHANGED <<pathToId, pathToHash, idToPath, nextId, vector, sound>>
    BY <1>5 DEF FailDoc, Finish, maps, history
  <2>5. OldIdsOwn => OldIdsOwn'
    BY <1>0, <2>2, <2>4 DEF OldIdsOwn, JobsOK
  <2>6. LiveInv'
    BY <2>4, <2>5, IndexKept
  <2>7. DiskInv'
    <3>1. Persist \/ UNCHANGED <<disk, diskSound>>
      BY <1>5 DEF FailDoc, Finish, history
    <3> QED
      BY <3>1, PersistInv DEF DiskInv
  <2> QED
    BY <2>3, <2>6, <2>7
<1>6. ASSUME NEW e \in Embedders, EmbedAndIndex(e) PROVE LiveInv' /\ CallsInv' /\ DiskInv'
  <2> DEFINE n == embedding[e]
  <2>1. n.path \in Paths /\ n.text \in Text
    BY <1>0, <1>6 DEF EmbedAndIndex, RestOK
  <2>2. Put(n.path, n.text, pathToId[n.path])
    BY <1>6 DEF EmbedAndIndex, OldId
  <2>3. Apart(pathToId', nextId')
    BY <1>0, <2>1, <2>2, PutApart DEF LiveInv
  <2>4. ASSUME sound PROVE Matches(pathToId', pathToHash', vector') /\ PathsBack' /\ OldIdsOwn'
    <3>1. \A q \in Paths : q # n.path /\ pathToId[q] # None => pathToId[q] # pathToId[n.path]
      BY <2>1 DEF LiveInv, Apart
    <3>2. Matches(pathToId', pathToHash', vector') /\ PathsBack'
      BY <1>0, <2>1, <2>2, <2>4, <3>1, PutMatches DEF LiveInv
    <3>3. nextId \in Nat /\ nextId' = nextId + 1
          /\ \A q \in Paths : pathToId'[q] \in {pathToId[q], nextId, None}
      BY <1>0, <2>2 DEF Put, IndexOK, Map
    <3>4. nextId' >= nextId
      BY <3>3
    <3>5. job' = job
      BY <1>6 DEF EmbedAndIndex
    <3>6. OldIdsOwn'
      BY <1>0, <2>4, <3>3, <3>4, <3>5, OldIdsKept DEF LiveInv
    <3> QED
      BY <3>2, <3>6
  <2>5. sound' = sound /\ DiskInv' /\ CallsInv'
    BY <1>6 DEF EmbedAndIndex, history, DiskInv, CallsInv
  <2> QED
    BY <2>3, <2>4, <2>5 DEF LiveInv
<1>7. CASE /\ UNCHANGED <<maps, vector, job, sound>> /\ ready' = ready
           /\ Persist \/ UNCHANGED <<disk, diskSound>>
  <2>1. LiveInv'
    BY <1>7, IndexKept DEF maps, OldIdsOwn
  <2>2. DiskInv'
    BY <1>7, PersistInv DEF DiskInv
  <2> QED
    BY <1>7, <2>1, <2>2 DEF CallsInv
<1>8. ASSUME NEW p \in Paths, Remove(p) PROVE LiveInv' /\ CallsInv' /\ DiskInv'
  <2>1. CASE UNCHANGED <<vector, maps>>
    BY <1>7, <1>8, <2>1 DEF Remove, history
  <2>2. CASE Drop({p}) /\ UNCHANGED nextId
    <3>1. \A q \in Paths : /\ pathToId'[q] = IF q = p THEN None ELSE pathToId[q]
                           /\ pathToHash'[q] = IF q = p THEN None ELSE pathToHash[q]
      BY <2>2 DEF Drop
    <3>2. ASSUME NEW q \in Paths, q # p, pathToId[q] # None
          PROVE  /\ vector'[pathToId[q]] = vector[pathToId[q]]
                 /\ idToPath'[pathToId[q]] = idToPath[pathToId[q]]
      <4>1. pathToId[q] \in Ids /\ pathToId[q] # pathToId[p]
        BY <1>0, <3>2 DEF IndexOK, Map, LiveInv, Apart
      <4>2. pathToId[q] \notin IdsOf({p})
        BY <4>1 DEF IdsOf
      <4> QED
        BY <2>2, <4>1, <4>2 DEF Drop
    <3>3. Apart(pathToId', nextId')
      BY <2>2, <3>1 DEF LiveInv, Apart
    <3>4. ASSUME sound PROVE Matches(pathToId', pathToHash', vector') /\ PathsBack' /\ OldIdsOwn'
      <4>1. Matches(pathToId', pathToHash', vector')
        BY <3>1, <3>2, <3>4 DEF LiveInv, Matches
      <4>2. PathsBack'
        BY <3>1, <3>2, <3>4 DEF LiveInv, PathsBack
      <4>3. job' = job /\ nextId' = nextId
        BY <1>8, <2>2 DEF Remove
      <4>4. OldIdsOwn'
        BY <3>1, <3>4, <4>3 DEF LiveInv, OldIdsOwn
      <4> QED
        BY <4>1, <4>2, <4>4
    <3>5. sound' = sound /\ DiskInv' /\ CallsInv'
      BY <1>8 DEF Remove, history, DiskInv, CallsInv
    <3> QED
      BY <3>3, <3>4, <3>5 DEF LiveInv
  <2> QED
    BY <1>8, <2>1, <2>2 DEF Remove
<1>9. CASE Restart
  <2>1. DiskInv'
    BY <1>9, PersistInv DEF Restart, DiskInv
  <2>2. \A j \in Jobs : job'[j].at = "idle" /\ job'[j].existingId = None
    BY <1>9, JobUpdates DEF Restart
  <2>3. sound' /\ CallsInv'
    BY <1>9, <2>2 DEF Restart, CallsInv
  <2>4. LiveInv'
    BY <1>9, <2>2, ClearedMatches DEF Restart, LiveInv, OldIdsOwn
  <2> QED
    BY <2>1, <2>3, <2>4
<1>10. CASE PersistLater \/ (\E e \in Embedders : EmbedFails(e) \/ \E p \in Paths : IndexNote(e, p))
            \/ (\E p \in Paths : Rescan(p)) \/ UNCHANGED vars
  BY <1>7, <1>10 DEF PersistLater, EmbedFails, IndexNote, Rescan, vars, state, maps, history
<1> QED
  BY <1>1, <1>2, <1>3, <1>4, <1>5, <1>6, <1>8, <1>9, <1>10 DEF Next, Other

\* The invariant says what the property does, in other words.
LEMMA InvHash == TypeOK /\ LiveInv => HashIsVector
<1> SUFFICES ASSUME IndexOK, LiveInv PROVE HashIsVector
  BY DEF TypeOK, IndexOK, Map, Hashes
<1>1. \A p, q \in Paths : pathToId[p] # None /\ pathToId[p] = pathToId[q] => p = q
  BY DEF LiveInv, Apart
<1>2. ASSUME sound, NEW p \in Paths, pathToId[p] # None
      PROVE  pathToId[p] \in Found(p) /\ vector[pathToId[p]] = pathToHash[p]
  <2>1. vector[pathToId[p]] = pathToHash[p] /\ pathToHash[p] # None
    BY <1>2 DEF LiveInv, Matches
  <2>2. pathToId[p] \in Ids /\ idToPath[pathToId[p]] = p
    BY <1>2 DEF LiveInv, PathsBack, IndexOK, Map
  <2> QED
    BY <2>1, <2>2 DEF Found
<1>3. sound => \A p \in Paths : pathToId[p] = None <=> pathToHash[p] = None
  BY DEF LiveInv, Matches
<1> QED
  BY <1>1, <1>2, <1>3 DEF HashIsVector

\* An id is of one note, and the recorded hash of a note is what its vector was made from.
THEOREM HashIsVectorHolds == Spec => []HashIsVector
BY InitInv, InitTypeOK, NextTypeOK, NextInv, InvHash, PTL DEF Spec

-----------------------------------------------------------------------------
\* Ids that lead to a note were handed out.
Fresh == \A i \in Ids : idToPath[i] # None => i < nextId

\* The id that a call holds leads to the note in its hand, or nowhere any more.
OldIdsLead ==
    \A j \in Jobs : job[j].existingId # None =>
        idToPath[job[j].existingId] \in {job[j].path, None}

\* Before the model is ready the index is empty.
EmptyBefore == ~ready => vector = NoVector /\ pathToId = NoId /\ idToPath = NoVector

\* No note is embedded before that.
Quiet == ~ready => \A e \in Embedders : embedding[e] = None

\* What makes StaysFindable an action of every reachable state.
FindInv == Fresh /\ EmptyBefore /\ (sound => OldIdsLead)

\* A note is found by one vector, of its text, or not at all when it is gone.
Healed(p) ==
    IF docs[p] = 0 THEN Found(p) = {}
    ELSE Found(p) = {pathToId[p]} /\ vector[pathToId[p]] = Doc(docs[p])

\* How far the call c has come, when nothing has disturbed it: each note has one
\* vector at most, the snapshot is still what the vault holds, and the notes that
\* it has passed are healed.
HealingBy(c) ==
    /\ sound /\ ready
    /\ \A p \in Paths : Found(p) \subseteq {pathToId[p]}
    /\ \A p \in Paths : c.todo[p] # 0 =>
          c.todo[p] = docs[p] /\ (c.kind = "full" => pathToId[p] = None)
    /\ c.at = "embed" => /\ c.text = docs[c.path] /\ docs[c.path] # 0
                         /\ c.existingId = pathToId[c.path] /\ c.todo[c.path] = 0
    /\ \A p \in Paths : c.todo[p] = 0 /\ p # c.path => Healed(p)

\* What makes Heals an action of every reachable state.
HealInv == \A j \in calm : job[j].at # "idle" => HealingBy(job[j])

\* What the updates of a call do to its snapshot.
LEMMA SnapshotKept ==
  ASSUME NEW c \in Job, NEW b \in BOOLEAN
  PROVE  Walking(c).todo = c.todo /\ [Walking(c) EXCEPT !.changed = b].todo = c.todo
<1> DEFINE d == Walking(c)
<1>1. d \in Job /\ d.todo = c.todo
  BY WalkingIs DEF Walking, Job
<1> HIDE DEF d
<1>2. [d EXCEPT !.changed = b].todo = d.todo
  BY <1>1 DEF Job
<1> QED
  BY <1>1, <1>2 DEF d

\* A call begins with the snapshot it is given.
LEMMA SnapshotBegins ==
  ASSUME NEW kind \in {"sync", "full"}, NEW s \in [Paths -> Writes], NEW b \in BOOLEAN
  PROVE  Begun(kind, s).todo = s /\ [Begun(kind, s) EXCEPT !.changed = b].todo = s
<1> DEFINE i == Idle
           d == Begun(kind, s)
<1>1. i \in Job /\ d = [i EXCEPT !.at = "walk", !.kind = kind, !.todo = s] /\ d \in Job
  BY JobUpdates DEF Begun
<1> HIDE DEF i
<1>2. d.todo = s
  BY <1>1 DEF Job
<1> HIDE DEF d
<1>3. [d EXCEPT !.changed = b].todo = d.todo
  BY <1>1 DEF Job
<1> QED
  BY <1>2, <1>3 DEF d

\* What a call c becomes when it comes to the note p.
TakesOne(c, p, d) ==
    /\ c.at = "walk" /\ c.todo[p] # 0
    /\ d.todo = [c.todo EXCEPT ![p] = 0] /\ d.kind = c.kind
    /\ \/ Unchanged(c, p) /\ d.at = "walk" /\ d.path = None /\ d.existingId = None
       \/ /\ d.at = "embed" /\ d.path = p /\ d.text = c.todo[p]
          /\ d.existingId = IF c.kind = "sync" THEN pathToId[p] ELSE None

\* A step of the walk passes one note or takes it in hand.
LEMMA TakeTakesOne ==
  ASSUME IndexOK, JobsOK, CallsInv, NEW j \in Jobs, Take(j)
  PROVE  \E p \in Paths : \E d : TakesOne(job[j], p, d) /\ job' = [job EXCEPT ![j] = d]
<1> DEFINE c == job[j]
<1>1. c \in Job /\ c.at = "walk" /\ c.path = None /\ c.existingId = None
  BY DEF Take, JobsOK, CallsInv
<1>2. PICK p \in Paths :
         /\ c.todo[p] # 0
         /\ \/ Unchanged(c, p) /\ job' = [job EXCEPT ![j] = [c EXCEPT !.todo[p] = 0]]
            \/ job' = [job EXCEPT ![j] = TakenBy(c, p, IF c.kind = "sync" THEN pathToId[p] ELSE None)]
  BY DEF Take, TakenBy
<1> DEFINE id == IF c.kind = "sync" THEN pathToId[p] ELSE None
<1>3. id \in Ids \cup {None}
  BY DEF IndexOK, Map
<1> HIDE DEF c
<1>4. CASE Unchanged(c, p) /\ job' = [job EXCEPT ![j] = [c EXCEPT !.todo[p] = 0]]
  <2> DEFINE d == [c EXCEPT !.todo[p] = 0]
  <2>1. d.at = "walk" /\ d.path = None /\ d.existingId = None /\ d.kind = c.kind
    BY <1>1, PassedIs
  <2>2. d.todo = [c.todo EXCEPT ![p] = 0]
    BY <1>1 DEF Job
  <2>3. job' = [job EXCEPT ![j] = d]
    BY <1>4
  <2> HIDE DEF d
  <2>4. TakesOne(c, p, d)
    BY <1>1, <1>2, <1>4, <2>1, <2>2 DEF TakesOne
  <2> QED
    BY <2>3, <2>4 DEF c
<1>5. CASE job' = [job EXCEPT ![j] = TakenBy(c, p, id)]
  <2> DEFINE d == TakenBy(c, p, id)
  <2> HIDE DEF id
  <2>1. d.at = "embed" /\ d.path = p /\ d.existingId = id /\ d.kind = c.kind
    BY <1>1, <1>3, TakenIs
  <2>2. d.todo = [c.todo EXCEPT ![p] = 0] /\ d.text = c.todo[p]
    <3> DEFINE e == [c EXCEPT !.todo[p] = 0]
    <3>1. e \in Job /\ e.todo = [c.todo EXCEPT ![p] = 0]
      BY <1>1, PassedIs DEF Job
    <3>2. d = [e EXCEPT !.at = "embed", !.path = p, !.text = c.todo[p], !.existingId = id]
      BY DEF TakenBy
    <3> HIDE DEF e, d
    <3> QED
      BY <3>1, <3>2 DEF Job
  <2>3. job' = [job EXCEPT ![j] = d]
    BY <1>5
  <2> HIDE DEF d
  <2>4. TakesOne(c, p, d)
    BY <1>1, <1>2, <2>1, <2>2 DEF TakesOne, id
  <2> QED
    BY <2>3, <2>4 DEF c
<1> QED
  BY <1>2, <1>4, <1>5

-----------------------------------------------------------------------------
\* A new vector is a new id.
LEMMA PutFresh ==
  ASSUME IndexOK, Fresh, NEW p \in Paths, NEW text, NEW old, Put(p, text, old)
  PROVE  Fresh'
<1>1. nextId \in Nat /\ nextId' = nextId + 1 /\ \A i \in Ids : i \in Nat
  BY DEF IndexOK, Put, Ids
<1>2. \A i \in Ids : idToPath'[i] # None => i = nextId \/ i < nextId
  BY DEF Put, Fresh
<1> QED
  BY <1>1, <1>2 DEF Fresh

\* A new vector is found in the place of the old one, and hides no other note.
LEMMA PutFinds ==
  ASSUME IndexOK, Fresh, NEW p \in Paths, NEW text \in Text, NEW old, Put(p, text, old),
         old \in Ids => idToPath[old] \in {p, None}
  PROVE  /\ Found(p)' = (Found(p) \ {old}) \cup {nextId}
         /\ \A q \in Paths : q # p => Found(q)' = Found(q)
         /\ pathToId'[p] = nextId /\ vector'[nextId] = text
         /\ \A q \in Paths : q # p => pathToId'[q] = pathToId[q]
         /\ \A q \in Paths : \A i \in Found(q) : q # p => vector'[i] = vector[i]
<1>1. nextId \in Ids /\ nextId \in Nat /\ text # None /\ None \notin Paths
  BY Numbers DEF IndexOK, Put, Ids
<1>2. idToPath[nextId] = None
  BY <1>1 DEF Fresh
<1>3. \A i \in Ids : /\ vector'[i] = IF i = nextId THEN text ELSE IF i = old THEN None ELSE vector[i]
                     /\ idToPath'[i] = IF i = nextId THEN p ELSE IF i = old THEN None
                                       ELSE idToPath[i]
  BY DEF Put
<1>4. \A i \in Ids : (i \in Found(p)') <=> (i \in Found(p) /\ i # old) \/ i = nextId
  BY <1>1, <1>2, <1>3 DEF Found
<1>5. \A q \in Paths, i \in Ids : q # p => (i \in Found(q)' <=> i \in Found(q))
  BY <1>1, <1>2, <1>3 DEF Found
<1>6. \A q \in Paths : Found(q) \subseteq Ids /\ Found(q)' \subseteq Ids
  BY DEF Found
<1>7. \A q \in Paths : pathToId'[q] = IF q = p THEN nextId ELSE pathToId[q]
  BY DEF Put, IndexOK, Map
<1>8. \A q \in Paths : \A i \in Found(q) : q # p => vector'[i] = vector[i]
  BY <1>1, <1>2, <1>3 DEF Found
<1>9. Found(p)' = (Found(p) \ {old}) \cup {nextId}
  BY <1>1, <1>4, <1>6
<1>10. \A q \in Paths : q # p => Found(q)' = Found(q)
  BY <1>5, <1>6
<1> QED
  BY <1>1, <1>3, <1>7, <1>8, <1>9, <1>10

\* What every step but a full build keeps findable, and the invariant it needs.
StillFound == \A p \in Paths : sound /\ Found(p) # {} /\ Found(p)' = {} =>
                 docs'[p] = 0 \/ ~ready' \/ nextId' < nextId

\* At the start nothing is found.
LEMMA InitFind == Init => FindInv
<1> SUFFICES ASSUME Init PROVE FindInv
  OBVIOUS
<1>1. \A j \in Jobs : job[j].existingId = None
  BY JobUpdates DEF Init
<1>2. \A i \in Ids : idToPath[i] = None
  BY DEF Init, NoVector
<1> QED
  BY <1>1, <1>2 DEF Init, FindInv, Fresh, EmptyBefore, OldIdsLead

\* No note is embedded before the model is ready.
LEMMA NextQuiet ==
  ASSUME RestOK, Quiet, [Next]_vars
  PROVE  Quiet'
<1>1. CASE UNCHANGED <<ready, embedding>>
  BY <1>1 DEF Quiet
<1>2. ASSUME NEW e \in Embedders, EmbedAndIndex(e) \/ EmbedFails(e) \/ \E p \in Paths : IndexNote(e, p)
      PROVE  Quiet'
  BY <1>2 DEF EmbedAndIndex, EmbedFails, IndexNote, Quiet, RestOK
<1>3. CASE Restart
  BY <1>3 DEF Restart, Quiet
<1>4. ASSUME NEW j \in Jobs, Ready(j) PROVE Quiet'
  BY <1>4 DEF Ready, Quiet
<1>5. ASSUME NEW j \in Jobs, Repair(j) \/ Take(j) \/ PutDoc(j) \/ FailDoc(j) \/ Finish(j)
      PROVE  Quiet'
  BY <1>1, <1>5 DEF Repair, Take, PutDoc, FailDoc, Finish
<1>6. CASE PersistLater \/ (\E p \in Paths : Remove(p) \/ Rescan(p)) \/ UNCHANGED vars
  BY <1>1, <1>6 DEF PersistLater, Remove, Rescan, vars, state
<1> QED
  BY <1>2, <1>3, <1>4, <1>5, <1>6 DEF Next, Other

\* Every step keeps the ids leading where they should, and the notes findable.
LEMMA NextFind ==
  ASSUME TypeOK, TypeOK', LiveInv, LiveInv', CallsInv, CallsInv', FindInv, Quiet, [Next]_vars
  PROVE  FindInv' /\ StillFound
<1>0. IndexOK /\ IndexOK' /\ JobsOK /\ JobsOK' /\ RestOK /\ SavedOK
  BY DEF TypeOK, IndexOK, JobsOK, RestOK, SavedOK, Map, Hashes
<1>00. Fresh /\ EmptyBefore /\ (sound => OldIdsLead)
  BY DEF FindInv
\* A step that leaves the index alone.
<1>a. ASSUME UNCHANGED <<vector, maps, ready>>, sound' => OldIdsLead'
      PROVE  FindInv' /\ StillFound
  <2>1. \A p \in Paths : Found(p)' = Found(p)
    BY <1>a DEF Found, maps
  <2>2. Fresh' /\ EmptyBefore'
    BY <1>00, <1>a DEF Fresh, EmptyBefore, maps
  <2> QED
    BY <1>a, <2>1, <2>2 DEF FindInv, StillFound
<1>b. ASSUME UNCHANGED <<vector, maps, ready, job>>, sound' = sound PROVE FindInv' /\ StillFound
  BY <1>00, <1>a, <1>b DEF OldIdsLead, maps
<1>1. ASSUME NEW j \in Jobs, Repair(j) PROVE FindInv' /\ StillFound
  <2>1. Cleared /\ ready'
    BY <1>1 DEF Repair, BeginFull
  <2>2. Fresh' /\ EmptyBefore'
    BY <2>1 DEF Cleared, Fresh, EmptyBefore, NoVector
  <2>3. OldIdsLead'
    BY <1>0, <2>1, Numbers DEF Cleared, OldIdsLead, NoVector, JobsOK, Job
  <2>4. ASSUME NEW p \in Paths, Found(p) # {} PROVE nextId' < nextId
    <3>1. PICK i \in Ids : idToPath[i] = p
      BY <2>4 DEF Found
    <3>2. i < nextId /\ i \in Nat
      BY <1>00, <3>1, Numbers DEF Fresh, Ids
    <3>3. nextId' = 0 /\ nextId \in Nat
      BY <1>0, <2>1 DEF Cleared, IndexOK
    <3> QED
      BY <3>2, <3>3
  <2> QED
    BY <2>2, <2>3, <2>4 DEF FindInv, StillFound
<1>2. ASSUME NEW j \in Jobs, Ready(j) PROVE FindInv' /\ StillFound
  <2>1. \A p \in Paths : Found(p) = {}
    BY <1>00, <1>2 DEF Ready, EmptyBefore, NoVector, Found
  <2>2. ready'
    BY <1>2 DEF Ready
  <2>3. \A k \in Jobs : job'[k].existingId = None
    <3>1. \A k \in Jobs : job[k].existingId = None
      BY <1>2 DEF Ready, CallsInv
    <3>2. docs \in [Paths -> Writes] /\ (Gone(disk.map) # {}) \in BOOLEAN
      BY <1>0 DEF RestOK
    <3>3. \A b \in BOOLEAN : /\ Begun("full", docs).existingId = None
                             /\ [Begun("sync", docs) EXCEPT !.changed = b].existingId = None
      BY <3>2, JobUpdates
    <3>4. [Begun("sync", docs) EXCEPT !.changed = Gone(disk.map) # {}].existingId = None
      BY <3>2, <3>3
    <3>5. CASE SyncSaved(j)
      BY <1>0, <3>1, <3>4, <3>5 DEF SyncSaved, JobsOK
    <3>6. CASE BuildNew(j)
      BY <1>0, <3>1, <3>3, <3>6 DEF BuildNew, JobsOK
    <3> QED
      BY <1>2, <3>5, <3>6 DEF Ready
  <2>4. OldIdsLead'
    BY <2>3 DEF OldIdsLead
  <2>5. Fresh'
    <3>1. CASE BuildNew(j)
      BY <1>00, <3>1 DEF BuildNew, maps, Fresh
    <3>2. CASE SyncSaved(j)
      <4>1. \A i \in Ids : idToPath'[i] # None => \E p \in Paths : pathToId'[p] = i
        BY <3>2 DEF SyncSaved
      <4>2. \A p \in Paths : pathToId'[p] # None => pathToId'[p] < nextId'
        BY DEF LiveInv, Apart
      <4> QED
        BY <4>1, <4>2, Numbers DEF Fresh
    <3> QED
      BY <1>2, <3>1, <3>2 DEF Ready
  <2> QED
    BY <2>1, <2>2, <2>4, <2>5 DEF FindInv, EmptyBefore, StillFound
<1>3. ASSUME NEW j \in Jobs, Take(j) PROVE FindInv' /\ StillFound
  <2>0. PICK p \in Paths : \E d : TakesOne(job[j], p, d) /\ job' = [job EXCEPT ![j] = d]
    BY <1>0, <1>3, TakeTakesOne
  <2>1. PICK d : TakesOne(job[j], p, d) /\ job' = [job EXCEPT ![j] = d]
    BY <2>0
  <2>2. UNCHANGED <<vector, maps, ready, sound>>
    BY <1>3 DEF Take, history
  <2>3. ASSUME sound PROVE OldIdsLead'
    <3>1. d.existingId # None => idToPath[d.existingId] = d.path
      BY <2>1, <2>3 DEF TakesOne, LiveInv, PathsBack
    <3> QED
      BY <1>0, <1>00, <2>1, <2>2, <2>3, <3>1 DEF OldIdsLead, JobsOK, maps
  <2> QED
    BY <1>a, <2>2, <2>3
<1>4. ASSUME NEW j \in Jobs, PutDoc(j) PROVE FindInv' /\ StillFound
  <2> DEFINE c == job[j]
  <2>1. c \in Job /\ c.path \in Paths /\ Doc(c.text) \in Text /\ ready /\ ready'
    BY <1>0, <1>4, Numbers DEF PutDoc, JobsOK, Job, CallsInv
  <2>2. Put(c.path, Doc(c.text), c.existingId) /\ sound' = sound
    BY <1>4 DEF PutDoc, history
  <2>3. \A k \in Jobs : \/ job'[k].existingId = None
                        \/ job'[k].existingId = job[k].existingId /\ job'[k].path = job[k].path
    <3> DEFINE d == [Walking(c) EXCEPT !.changed = TRUE]
    <3>1. d.existingId = None
      BY <2>1, WalkingIs
    <3>2. job' = [job EXCEPT ![j] = d]
      BY <1>4 DEF PutDoc
    <3> HIDE DEF d
    <3> QED
      BY <1>0, <3>1, <3>2 DEF JobsOK
  <2>4. Fresh'
    BY <1>0, <1>00, <2>1, <2>2, PutFresh
  <2>5. ASSUME sound PROVE OldIdsLead' /\ \A p \in Paths : Found(p) # {} => Found(p)' # {}
    <3>1. c.existingId \in Ids => idToPath[c.existingId] \in {c.path, None}
      BY <1>00, <2>5, Numbers DEF OldIdsLead
    <3>2. \A p \in Paths : Found(p) # {} => Found(p)' # {}
      BY <1>0, <1>00, <2>1, <2>2, <3>1, PutFinds
    <3>3. ASSUME NEW k \in Jobs, job'[k].existingId # None
          PROVE  idToPath'[job'[k].existingId] \in {job'[k].path, None}
      <4> DEFINE i == job[k].existingId
      <4>1. job'[k].existingId = i /\ job'[k].path = job[k].path /\ i # None
        BY <2>3, <3>3
      <4>2. i \in Ids /\ i < nextId /\ idToPath[i] \in {job[k].path, None}
        BY <1>0, <1>00, <2>5, <4>1 DEF JobsOK, Job, LiveInv, OldIdsOwn, OldIdsLead
      <4>3. i # nextId
        BY <1>0, <4>2 DEF IndexOK, Ids
      <4>4. idToPath'[i] \in {idToPath[i], None}
        BY <2>2, <4>2, <4>3 DEF Put
      <4> QED
        BY <4>1, <4>2, <4>4
    <3> QED
      BY <3>2, <3>3 DEF OldIdsLead
  <2> QED
    BY <2>1, <2>2, <2>4, <2>5 DEF FindInv, EmptyBefore, StillFound
<1>5. ASSUME NEW j \in Jobs, FailDoc(j) \/ Finish(j) PROVE FindInv' /\ StillFound
  <2>1. UNCHANGED <<vector, maps, ready, sound>>
    BY <1>5 DEF FailDoc, Finish, history
  <2>2. PICK c : job' = [job EXCEPT ![j] = c] /\ c.existingId = None
    <3>1. CASE FailDoc(j)
      <4>1. Walking(job[j]).existingId = None
        BY <1>0, WalkingIs DEF JobsOK
      <4> QED
        BY <3>1, <4>1 DEF FailDoc
    <3>2. CASE Finish(j)
      BY <3>2, JobUpdates DEF Finish
    <3> QED
      BY <1>5, <3>1, <3>2
  <2>3. sound => OldIdsLead'
    BY <1>0, <1>00, <2>1, <2>2 DEF OldIdsLead, JobsOK, maps
  <2> QED
    BY <1>a, <2>1, <2>3
<1>6. ASSUME NEW e \in Embedders, EmbedAndIndex(e) PROVE FindInv' /\ StillFound
  <2> DEFINE n == embedding[e]
  <2>1. n.path \in Paths /\ n.text \in Text
    BY <1>0, <1>6 DEF EmbedAndIndex, RestOK
  <2>2. Put(n.path, n.text, pathToId[n.path]) /\ UNCHANGED <<job, ready, sound>>
    BY <1>6 DEF EmbedAndIndex, OldId, history
  <2>3. Fresh'
    BY <1>0, <1>00, <2>1, <2>2, PutFresh
  <2>4. ASSUME sound PROVE OldIdsLead' /\ \A p \in Paths : Found(p) # {} => Found(p)' # {}
    <3>1. pathToId[n.path] \in Ids => idToPath[pathToId[n.path]] \in {n.path, None}
      BY <2>1, <2>4, Numbers DEF LiveInv, PathsBack
    <3>2. \A p \in Paths : Found(p) # {} => Found(p)' # {}
      BY <1>0, <1>00, <2>1, <2>2, <3>1, PutFinds
    <3>3. ASSUME NEW k \in Jobs, job[k].existingId # None
          PROVE  idToPath'[job[k].existingId] \in {job[k].path, None}
      <4> DEFINE i == job[k].existingId
      <4>1. i \in Ids /\ i < nextId /\ idToPath[i] \in {job[k].path, None}
        BY <1>0, <1>00, <2>4, <3>3 DEF JobsOK, Job, LiveInv, OldIdsOwn, OldIdsLead
      <4>2. i # nextId
        BY <1>0, <4>1 DEF IndexOK, Ids
      <4>3. idToPath'[i] \in {idToPath[i], None}
        BY <2>2, <4>1, <4>2 DEF Put
      <4> QED
        BY <4>1, <4>3
    <3> QED
      BY <2>2, <3>2, <3>3 DEF OldIdsLead
  <2>5. EmptyBefore'
    <3>1. ready
      BY <1>6 DEF EmbedAndIndex, Quiet
    <3> QED
      BY <2>2, <3>1 DEF EmptyBefore
  <2> QED
    BY <2>2, <2>3, <2>4, <2>5 DEF FindInv, StillFound
<1>7. ASSUME NEW p \in Paths, Remove(p) PROVE FindInv' /\ StillFound
  <2>1. CASE UNCHANGED <<vector, maps>>
    BY <1>7, <1>b, <2>1 DEF Remove, history
  <2>2. CASE ready /\ Drop({p}) /\ UNCHANGED nextId
    <3>1. \A i \in Ids : /\ vector'[i] = IF i \in IdsOf({p}) THEN None ELSE vector[i]
                         /\ idToPath'[i] = IF i \in IdsOf({p}) THEN None ELSE idToPath[i]
      BY <2>2 DEF Drop
    <3>2. Fresh'
      BY <1>00, <2>2, <3>1 DEF Fresh
    <3>3. UNCHANGED <<job, ready, sound>> /\ docs'[p] = 0
      BY <1>0, <1>7 DEF Remove, history, RestOK
    <3>4. sound => OldIdsLead'
      BY <1>0, <1>00, <3>1, <3>3, Numbers DEF OldIdsLead, JobsOK, Job
    <3>5. ASSUME sound, NEW q \in Paths, q # p PROVE Found(q)' = Found(q)
      <4>1. \A i \in IdsOf({p}) : i \in Ids /\ idToPath[i] = p
        BY <1>0, <3>5 DEF IdsOf, LiveInv, PathsBack, IndexOK, Map
      <4> QED
        BY <3>1, <3>5, <4>1, Numbers DEF Found
    <3> QED
      BY <2>2, <3>2, <3>3, <3>4, <3>5 DEF FindInv, EmptyBefore, StillFound
  <2> QED
    BY <1>7, <2>1, <2>2 DEF Remove
<1>8. CASE Restart
  <2>1. vector' = NoVector /\ Cleared /\ ~ready'
    BY <1>8 DEF Restart
  <2>2. \A j \in Jobs : job'[j].existingId = None
    BY <1>8, JobUpdates DEF Restart
  <2> QED
    BY <2>1, <2>2 DEF Cleared, NoVector, FindInv, Fresh, EmptyBefore, OldIdsLead, StillFound
<1>9. CASE PersistLater \/ (\E e \in Embedders : EmbedFails(e) \/ \E p \in Paths : IndexNote(e, p))
            \/ (\E p \in Paths : Rescan(p)) \/ UNCHANGED vars
  BY <1>b, <1>9 DEF PersistLater, EmbedFails, IndexNote, Rescan, vars, state, maps, history
<1> QED
  BY <1>1, <1>2, <1>3, <1>4, <1>5, <1>6, <1>7, <1>8, <1>9 DEF Next, Other

\* A note that a search finds is found until it is removed, or a build starts anew.
THEOREM StaysFindableHolds == Spec => StaysFindable
<1> DEFINE Inv == TypeOK /\ LiveInv /\ CallsInv /\ DiskInv /\ FindInv /\ Quiet
<1>1. Init => Inv
  <2>1. Init => Quiet
    BY DEF Init, Quiet
  <2> QED
    BY <2>1, InitTypeOK, InitInv, InitFind
<1>2. Inv /\ [Next]_vars => Inv' /\ StillFound
  <2> SUFFICES ASSUME Inv, [Next]_vars PROVE Inv' /\ StillFound
    OBVIOUS
  <2>1. TypeOK' /\ LiveInv' /\ CallsInv' /\ DiskInv'
    BY NextTypeOK, NextInv
  <2>2. FindInv' /\ StillFound
    BY <2>1, NextFind
  <2>3. Quiet'
    BY NextQuiet, TypeParts
  <2> QED
    BY <2>1, <2>2, <2>3
<1>3. Inv /\ [Next]_vars =>
        [\A p \in Paths : sound /\ Found(p) # {} /\ Found(p)' = {} =>
          docs'[p] = 0 \/ ~ready' \/ nextId' < nextId]_vars
  BY <1>2 DEF StillFound
<1> QED
  BY <1>1, <1>2, <1>3, PTL DEF Spec, StaysFindable

-----------------------------------------------------------------------------
\* A call that passes a note, or takes it in hand, goes on healing.
LEMMA TakeHeals ==
  ASSUME TypeOK, TypeOK', LiveInv, CallsInv, NEW j \in Jobs, HealingBy(job[j]), Take(j)
  PROVE  HealingBy(job[j])'
<1>0. IndexOK /\ JobsOK /\ RestOK /\ JobsOK'
  BY TypeParts DEF TypeOK, JobsOK
<1> DEFINE c == job[j]
<1>1. PICK p \in Paths : \E d : TakesOne(c, p, d) /\ job' = [job EXCEPT ![j] = d]
  BY <1>0, TakeTakesOne
<1>2. PICK d : TakesOne(c, p, d) /\ job' = [job EXCEPT ![j] = d]
  BY <1>1
<1>3. UNCHANGED <<docs, vector, maps, ready, sound>>
  BY DEF Take, history
<1>4. c \in Job /\ c.path = None /\ c.todo \in [Paths -> Writes] /\ job'[j] = d
  BY <1>0, <1>2 DEF JobsOK, Job, CallsInv, TakesOne
<1>5. HealingBy(c)
  OBVIOUS
<1> HIDE DEF c
<1>6. \A q \in Paths : d.todo[q] = IF q = p THEN 0 ELSE c.todo[q]
  BY <1>2, <1>4 DEF TakesOne
<1>7. c.todo[p] = docs[p] /\ docs[p] # 0 /\ (c.kind = "full" => pathToId[p] = None)
  BY <1>2, <1>5 DEF TakesOne, HealingBy
<1>8. \A q \in Paths : q # p /\ d.todo[q] = 0 => Healed(q)
  BY <1>4, <1>5, <1>6, Numbers DEF HealingBy
<1>9. c.kind \in {"sync", "full"}
  BY <1>4 DEF Job
<1>10. Unchanged(c, p) => Healed(p)
  <2> SUFFICES ASSUME Unchanged(c, p) PROVE Healed(p)
    OBVIOUS
  <2>1. pathToId[p] # None /\ pathToHash[p] = Doc(docs[p])
    BY <1>7 DEF Unchanged
  <2>2. pathToId[p] \in Found(p) /\ vector[pathToId[p]] = pathToHash[p]
    BY <1>5, <2>1, InvHash DEF HealingBy, HashIsVector
  <2>3. Found(p) = {pathToId[p]}
    BY <1>5, <2>2 DEF HealingBy
  <2> QED
    BY <1>7, <2>1, <2>2, <2>3 DEF Healed
<1>11. HealingBy(d)
  <2>1. sound /\ ready /\ (\A q \in Paths : Found(q) \subseteq {pathToId[q]})
    BY <1>5 DEF HealingBy
  <2>2. \A q \in Paths : d.todo[q] # 0 =>
          d.todo[q] = docs[q] /\ (d.kind = "full" => pathToId[q] = None)
    BY <1>2, <1>5, <1>6 DEF HealingBy, TakesOne
  <2>3. d.at = "embed" => /\ d.text = docs[d.path] /\ docs[d.path] # 0
                          /\ d.existingId = pathToId[d.path] /\ d.todo[d.path] = 0
    BY <1>2, <1>6, <1>7, <1>9 DEF TakesOne
  <2>4. \A q \in Paths : d.todo[q] = 0 /\ q # d.path => Healed(q)
    BY <1>2, <1>8, <1>10 DEF TakesOne
  <2> QED
    BY <2>1, <2>2, <2>3, <2>4 DEF HealingBy
<1>12. \A q \in Paths : Found(q)' = Found(q) /\ (Healed(q) => Healed(q)')
  BY <1>3 DEF Found, Healed, maps
<1> QED
  BY <1>3, <1>4, <1>11, <1>12 DEF HealingBy, maps

\* So does one whose vector has come.
LEMMA PutHeals ==
  ASSUME TypeOK, CallsInv, FindInv, NEW j \in Jobs, HealingBy(job[j]), PutDoc(j)
  PROVE  HealingBy(job[j])'
<1>0. IndexOK /\ JobsOK /\ RestOK
  BY TypeParts
<1>a. PICK c \in Job : c = job[j]
  BY <1>0 DEF JobsOK
<1>b. PICK p \in Paths : p = c.path
  BY <1>0, <1>a DEF PutDoc, JobsOK, Job
<1> DEFINE d == [Walking(c) EXCEPT !.changed = TRUE]
<1>1. c \in Job /\ c.at = "embed" /\ p \in Paths /\ Doc(c.text) \in Text
  BY <1>a, Numbers DEF PutDoc, Job
<1>2. d.at = "walk" /\ d.path = None /\ d.kind = c.kind /\ d.todo = c.todo
  BY <1>1, WalkingIs, SnapshotKept
<1>3. job'[j] = d /\ UNCHANGED <<docs, ready, sound>>
  BY <1>0, <1>a DEF PutDoc, JobsOK, history
<1>4. Put(p, Doc(c.text), c.existingId)
  BY <1>a, <1>b DEF PutDoc
<1>5. HealingBy(c)
  BY <1>a
<1>6. c.existingId \in Ids => idToPath[c.existingId] \in {p, None}
  BY <1>5, <1>a, <1>b, Numbers DEF FindInv, OldIdsLead, HealingBy
<1> HIDE DEF d
<1>7. /\ Found(p)' = (Found(p) \ {c.existingId}) \cup {nextId}
      /\ \A q \in Paths : q # p => Found(q)' = Found(q)
      /\ pathToId'[p] = nextId /\ vector'[nextId] = Doc(c.text)
      /\ \A q \in Paths : q # p => pathToId'[q] = pathToId[q]
      /\ \A q \in Paths : \A i \in Found(q) : q # p => vector'[i] = vector[i]
  BY <1>0, <1>1, <1>4, <1>6, PutFinds DEF FindInv
<1>8. c.text = docs[p] /\ docs[p] # 0 /\ c.existingId = pathToId[p] /\ c.todo[p] = 0
  BY <1>1, <1>5, <1>b DEF HealingBy
<1>9. Found(p)' = {pathToId'[p]}
  BY <1>1, <1>5, <1>7, <1>8 DEF HealingBy
<1>10. Healed(p)'
  BY <1>3, <1>7, <1>8, <1>9 DEF Healed
<1>11. ASSUME NEW q \in Paths, q # p, c.todo[q] = 0 PROVE Healed(q)'
  <2>1. Healed(q)
    BY <1>5, <1>11, <1>b DEF HealingBy
  <2> QED
    BY <1>3, <1>7, <1>11, <2>1 DEF Healed
<1>12. \A q \in Paths : Found(q)' \subseteq {pathToId'[q]}
  BY <1>5, <1>7, <1>9 DEF HealingBy
<1>13. \A q \in Paths : c.todo[q] # 0 =>
          c.todo[q] = docs'[q] /\ (c.kind = "full" => pathToId'[q] = None)
  BY <1>3, <1>5, <1>7, <1>8 DEF HealingBy
<1>14. sound' /\ ready'
  BY <1>3, <1>5 DEF HealingBy
<1> QED
  BY <1>2, <1>3, <1>10, <1>11, <1>12, <1>13, <1>14 DEF HealingBy

\* A repair that begins alone, and a boot, begin with nothing to mend but what is in
\* the snapshot.
LEMMA RepairHeals ==
  ASSUME TypeOK, NEW j \in Jobs, Repair(j), Alone(j), fails' = fails
  PROVE  HealingBy(job[j])'
<1>0. RestOK /\ JobsOK /\ fails \in Nat
  BY TypeParts, Numbers DEF SavedOK
<1> DEFINE c == Begun("full", docs)
<1>1. /\ c.at = "walk" /\ c.path = None /\ c.kind = "full" /\ c.todo = docs
  <2>1. docs \in [Paths -> Writes] /\ TRUE \in BOOLEAN
    BY <1>0 DEF RestOK
  <2> QED
    BY <2>1, JobUpdates, SnapshotBegins
<1> HIDE DEF c
<1>2. vector' = NoVector /\ job' = [job EXCEPT ![j] = c] /\ Cleared
  BY <1>0 DEF Repair, BeginFull, Fail, c
<1>3. sound' /\ ready' /\ docs' = docs
  <2>1. \A k \in Jobs : job[k].at = "idle"
    BY DEF Repair, BeginFull, Alone
  <2> QED
    BY <2>1 DEF Repair, BeginFull
<1>4. \A p \in Paths : Found(p)' = {} /\ pathToId'[p] = None
  BY <1>2 DEF Found, NoVector, Cleared, NoId
<1>5. job'[j] = c
  BY <1>0, <1>2 DEF JobsOK
<1> QED
  BY <1>1, <1>3, <1>4, <1>5 DEF HealingBy, Healed

\* The same of a boot that finds a sound index, or none.
LEMMA ReadyHeals ==
  ASSUME TypeOK, FindInv, NEW j \in Jobs, Ready(j), calm' # {}
  PROVE  HealingBy(job[j])'
<1>0. RestOK /\ JobsOK /\ docs \in [Paths -> Writes]
  BY TypeParts DEF RestOK
<1>1. ready' /\ docs' = docs /\ ~ready
  BY DEF Ready
<1>2. CASE BuildNew(j)
  <2> DEFINE c == Begun("full", docs)
  <2>1. TRUE \in BOOLEAN /\ c.at = "walk" /\ c.path = None /\ c.kind = "full" /\ c.todo = docs
    BY <1>0, JobUpdates, SnapshotBegins
  <2>2. job' = [job EXCEPT ![j] = c] /\ sound' /\ UNCHANGED <<vector, pathToId, idToPath>>
    BY <1>2 DEF BuildNew, maps
  <2> HIDE DEF c
  <2>3. \A p \in Paths : Found(p)' = {} /\ pathToId'[p] = None
    BY <1>1, <2>2 DEF Found, NoVector, NoId, FindInv, EmptyBefore
  <2>4. job'[j] = c
    BY <1>0, <2>2 DEF JobsOK
  <2> QED
    BY <1>1, <2>1, <2>2, <2>3, <2>4 DEF HealingBy, Healed
<1>3. CASE SyncSaved(j)
  <2> DEFINE b == Gone(disk.map) # {}
             c == [Begun("sync", docs) EXCEPT !.changed = b]
  <2>1. job' = [job EXCEPT ![j] = c]
    BY <1>3 DEF SyncSaved
  <2>2. b \in BOOLEAN
    OBVIOUS
  <2> HIDE DEF b
  <2>3. c.at = "walk" /\ c.path = None /\ c.kind = "sync" /\ c.todo = docs
    BY <1>0, <2>2, JobUpdates, SnapshotBegins
  <2> HIDE DEF c
  <2>4. job'[j] = c
    BY <1>0, <2>1 DEF JobsOK
  <2>5. sound'
    BY <1>3 DEF SyncSaved
  <2>6. \A p \in Paths : Found(p)' \subseteq {pathToId'[p]}
    <3>1. \A i \in Ids : idToPath'[i] # None =>
            \E p \in Paths : pathToId'[p] = i /\ idToPath'[i] = p
      BY <1>3 DEF SyncSaved
    <3> QED
      BY <3>1, Numbers DEF Found
  <2>7. \A p \in Paths : docs[p] = 0 => pathToId'[p] = None
    BY <1>3 DEF SyncSaved, Gone
  <2>8. \A p \in Paths : docs[p] = 0 => Found(p)' = {}
    BY <2>6, <2>7, Numbers DEF Found
  <2> QED
    BY <1>1, <2>3, <2>4, <2>5, <2>6, <2>8 DEF HealingBy, Healed
<1> QED
  BY <1>2, <1>3 DEF Ready

\* Every step keeps a calm call healing.
LEMMA NextHeal ==
  ASSUME TypeOK, TypeOK', LiveInv, CallsInv, FindInv, HealInv, [Next]_vars
  PROVE  HealInv'
<1>0. JobsOK /\ IndexOK /\ RestOK
  BY TypeParts
<1>1. CASE calm' = {}
  BY <1>1 DEF HealInv
<1>2. CASE UNCHANGED <<docs, vector, maps, ready, sound, job, calm>>
  <2>1. \A p \in Paths : Found(p)' = Found(p) /\ (Healed(p) => Healed(p)')
    BY <1>2 DEF Found, Healed, maps
  <2>2. \A j \in Jobs : HealingBy(job[j]) => HealingBy(job[j])'
    BY <1>2, <2>1 DEF HealingBy, maps
  <2> QED
    BY <1>0, <1>2, <2>2 DEF HealInv, RestOK
<1>3. ASSUME NEW j \in Jobs, Repair(j) PROVE HealInv'
  <2>1. CASE Alone(j) /\ fails' = fails
    BY <1>3, <2>1, RepairHeals DEF Repair, HealInv
  <2> QED
    BY <1>1, <1>3, <2>1 DEF Repair
<1>4. ASSUME NEW j \in Jobs, Ready(j) PROVE HealInv'
  <2>1. calm' \in {{}, {j}}
    BY <1>4 DEF Ready, SyncSaved, BuildNew
  <2> QED
    BY <1>1, <1>4, <2>1, ReadyHeals DEF HealInv
<1>5. ASSUME NEW j \in Jobs, Take(j) \/ PutDoc(j) \/ Finish(j), calm' = calm \cap {j}
      PROVE  HealInv'
  <2>1. j \in calm /\ ~Finish(j) => HealingBy(job[j])
    BY <1>5 DEF HealInv, Take, PutDoc
  <2>2. ASSUME j \in calm, ~Finish(j) PROVE HealingBy(job[j])'
    BY <1>5, <2>1, <2>2, TakeHeals, PutHeals
  <2>3. Finish(j) => job'[j].at = "idle"
    BY <1>0, JobUpdates DEF Finish, JobsOK
  <2> QED
    BY <1>5, <2>2, <2>3 DEF HealInv
<1>6. CASE PersistLater /\ UNCHANGED calm
  BY <1>2, <1>6 DEF PersistLater
<1>7. CASE UNCHANGED vars
  BY <1>2, <1>7 DEF vars, state, history
<1> QED
  BY <1>1, <1>3, <1>4, <1>5, <1>6, <1>7 DEF Next

\* What the end of a calm call leaves.
Mended ==
    \A j \in calm : ready' /\ job[j].at # "idle" /\ job'[j].at = "idle" =>
          \A p \in Paths :
             IF docs[p] = 0 THEN Found(p)' = {}
             ELSE /\ Found(p)' = {pathToId'[p]}
                  /\ vector'[pathToId'[p]] = Doc(docs[p])

\* A calm call ends with every note healed.
LEMMA NextMends ==
  ASSUME TypeOK, CallsInv, HealInv, [Next]_vars
  PROVE  Mended
<1>0. JobsOK /\ RestOK
  BY TypeParts
<1> SUFFICES ASSUME NEW j \in calm, ready', job[j].at # "idle", job'[j].at = "idle",
                    NEW p \in Paths
             PROVE  IF docs[p] = 0 THEN Found(p)' = {}
                    ELSE Found(p)' = {pathToId'[p]} /\ vector'[pathToId'[p]] = Doc(docs[p])
  BY DEF Mended
<1>1. j \in Jobs /\ job' # job
  BY <1>0 DEF RestOK
<1>2. ASSUME NEW k \in Jobs, NEW c, job' = [job EXCEPT ![k] = c], c.at # "idle" PROVE FALSE
  BY <1>0, <1>1, <1>2 DEF JobsOK
<1>3. ASSUME NEW k \in Jobs, Repair(k) PROVE FALSE
  <2>1. Begun("full", docs).at = "walk"
    <3>1. docs \in [Paths -> Writes] /\ TRUE \in BOOLEAN
      BY <1>0 DEF RestOK
    <3> QED
      BY <3>1, JobUpdates
  <2> QED
    BY <1>1, <1>2, <1>3, <2>1 DEF Repair, BeginFull
<1>4. ASSUME NEW k \in Jobs, Ready(k) PROVE FALSE
  BY <1>0, <1>1, <1>4 DEF Ready, CallsInv
<1>5. ASSUME NEW k \in Jobs, Take(k) PROVE FALSE
  <2>1. PICK q \in Paths :
           \/ job' = [job EXCEPT ![k] = [job[k] EXCEPT !.todo[q] = 0]]
           \/ \E id \in Ids \cup {None} : job' = [job EXCEPT ![k] = TakenBy(job[k], q, id)]
    <3>1. \A q \in Paths : pathToId[q] \in Ids \cup {None}
      BY DEF TypeOK
    <3> QED
      BY <1>5, <3>1 DEF Take, TakenBy
  <2>2. job[k] \in Job /\ job[k].at = "walk"
    BY <1>0, <1>5 DEF Take, JobsOK
  <2>3. [job[k] EXCEPT !.todo[q] = 0].at = "walk"
    BY <2>2, PassedIs
  <2>4. \A id \in Ids \cup {None} : TakenBy(job[k], q, id).at = "embed"
    BY <2>2, TakenIs
  <2> QED
    BY <1>2, <2>1, <2>3, <2>4
<1>6. ASSUME NEW k \in Jobs, PutDoc(k) \/ FailDoc(k) PROVE FALSE
  <2>1. /\ TRUE \in BOOLEAN /\ Walking(job[k]).at = "walk"
        /\ [Walking(job[k]) EXCEPT !.changed = TRUE].at = "walk"
    BY <1>0, WalkingIs DEF JobsOK
  <2> QED
    BY <1>2, <1>6, <2>1 DEF PutDoc, FailDoc
<1>7. ASSUME NEW k \in Jobs, Finish(k)
      PROVE  IF docs[p] = 0 THEN Found(p)' = {}
             ELSE Found(p)' = {pathToId'[p]} /\ vector'[pathToId'[p]] = Doc(docs[p])
  <2>1. k = j
    BY <1>0, <1>1, <1>7 DEF Finish, JobsOK
  <2>2. HealingBy(job[j]) /\ job[j].todo[p] = 0 /\ job[j].path = None
    BY <1>0, <1>7, <2>1, <1>1 DEF Finish, HealInv, JobsOK
  <2>3. Healed(p)
    BY <2>2, Numbers DEF HealingBy
  <2>4. UNCHANGED <<vector, pathToId, idToPath>>
    BY <1>7 DEF Finish, maps
  <2> QED
    BY <2>3, <2>4 DEF Healed, Found
<1>8. CASE Other \/ PersistLater \/ UNCHANGED vars
  BY <1>1, <1>8 DEF Other, PersistLater, EmbedAndIndex, EmbedFails, IndexNote, Remove, Rescan,
                    Restart, vars, state
<1> QED
  BY <1>3, <1>4, <1>5, <1>6, <1>7, <1>8 DEF Next

\* A boot, or a repair, that nothing disturbs leaves one vector of each note, of its text.
THEOREM HealsHolds == Spec => Heals
<1> DEFINE Inv == TypeOK /\ LiveInv /\ CallsInv /\ DiskInv /\ FindInv /\ Quiet /\ HealInv
<1>1. Init => Inv
  <2>1. Init => Quiet /\ HealInv
    BY DEF Init, Quiet, HealInv
  <2> QED
    BY <2>1, InitTypeOK, InitInv, InitFind
<1>2. Inv /\ [Next]_vars => Inv' /\ Mended
  <2> SUFFICES ASSUME Inv, [Next]_vars PROVE Inv' /\ Mended
    OBVIOUS
  <2>1. TypeOK' /\ LiveInv' /\ CallsInv' /\ DiskInv'
    BY NextTypeOK, NextInv
  <2>2. FindInv' /\ Quiet'
    BY <2>1, NextFind, NextQuiet, TypeParts
  <2>3. HealInv' /\ Mended
    BY <2>1, NextHeal, NextMends
  <2> QED
    BY <2>1, <2>2, <2>3
<1>3. Inv /\ [Next]_vars =>
        [\A j \in calm : ready' /\ job[j].at # "idle" /\ job'[j].at = "idle" =>
          \A p \in Paths :
             IF docs[p] = 0 THEN Found(p)' = {}
             ELSE /\ Found(p)' = {pathToId'[p]}
                  /\ vector'[pathToId'[p]] = Doc(docs[p])]_vars
  BY <1>2 DEF Mended
<1> QED
  BY <1>1, <1>2, <1>3, PTL DEF Spec, Heals
=============================================================================
