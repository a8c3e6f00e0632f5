------------------------------ MODULE VectorIndex ------------------------------
(***************************************************************************)
(* The vector index (lib/embeddings.ts): embedAndIndex after a note was    *)
(* indexed, removeFromVectorIndex after one was removed, buildFullIndex at *)
(* a cold start and from the repairs, syncIndexIncremental at boot over    *)
(* the index that persistIndex left. Each embedding is awaited, and what a *)
(* call read before it may be out of date after it: ids, paths, and the    *)
(* index as a whole.                                                       *)
(*                                                                         *)
(* The text of a note is the number of the write that made it. What is     *)
(* embedded, and hashed, of a note is its title with its text (the builds) *)
(* or its text alone (embedAndIndex). The index of hnswlib maps ids to     *)
(* vectors; one that is marked deleted is never returned, and counts here  *)
(* as none. The capacity of the index, and the cache of embedded queries,  *)
(* are left out.                                                           *)
(***************************************************************************)
EXTENDS Naturals

CONSTANTS
    Paths,      \* vault-relative paths
    Jobs,       \* calls of buildFullIndex and syncIndexIncremental that may overlap
    Embedders,  \* calls of embedAndIndex that may overlap
    None,       \* no path, id, text or file
    MaxId,      \* bound: ids of the index
    MaxWrites,  \* bound: changes of notes
    MaxBuilds,  \* bound: repairs, and restarts
    MaxFails    \* bound: failing embeddings and index files

Ids == 0 .. MaxId
Writes == 0 .. MaxWrites

\* What can be embedded, or hashed, of a note.
Doc(w) == <<"doc", w>>      \* embedTextFor
Body(w) == <<"body", w>>
Text == {Doc(w) : w \in Writes} \cup {Body(w) : w \in Writes}

ASSUME ConstantsTyped ==
    /\ MaxId \in Nat /\ MaxWrites \in Nat \ {0} /\ MaxBuilds \in Nat /\ MaxFails \in Nat
    /\ None \notin Paths /\ None \notin Ids /\ None \notin Text

VARIABLES
    docs,       \* docMeta: the text of each note in the lexical index, or 0
    vector,     \* hnswlib: what the vector of an id was made from
    pathToId, idToPath, pathToHash, nextId,
    ready,      \* the model and an index are loaded
    job,        \* the builds and syncs under way
    embedding,  \* the calls of embedAndIndex that await their vector
    persistTimer,
    disk,       \* index.hnsw and id-map.json
    sound, diskSound,   \* history: no step mixed the ids of two indexes, here and on disk
    calm,       \* history: builds and syncs that nothing has disturbed since they began
    writes, builds, fails   \* counters, for the bounds

maps == <<pathToId, idToPath, pathToHash, nextId>>
counters == <<writes, builds, fails>>
history == <<sound, diskSound>>
state == <<docs, vector, maps, ready, job, embedding, persistTimer, disk, history, counters>>
vars == <<state, calm>>

Job == [at : {"idle", "walk", "embed"}, kind : {"sync", "full"}, todo : [Paths -> Writes],
        path : Paths \cup {None}, text : Writes, existingId : Ids \cup {None}, changed : BOOLEAN]
Vectors == [Ids -> Text \cup {None}]
MapFile == [pathToId : [Paths -> Ids \cup {None}], pathToHash : [Paths -> Text \cup {None}],
            nextId : 0 .. MaxId + 1]

TypeOK ==
    /\ docs \in [Paths -> Writes]
    /\ vector \in Vectors
    /\ pathToId \in [Paths -> Ids \cup {None}]
    /\ idToPath \in [Ids -> Paths \cup {None}]
    /\ pathToHash \in [Paths -> Text \cup {None}]
    /\ nextId \in 0 .. MaxId + 1
    /\ ready \in BOOLEAN /\ persistTimer \in BOOLEAN
    /\ sound \in BOOLEAN /\ diskSound \in BOOLEAN
    /\ job \in [Jobs -> Job] /\ calm \subseteq Jobs
    /\ \A j \in Jobs : job[j].at = "embed" <=> job[j].path # None
    /\ embedding \in [Embedders -> [path : Paths, text : Text] \cup {None}]
    /\ disk \in [index : Vectors, map : MapFile] \cup {None}
    /\ writes \in Writes /\ builds \in 0 .. MaxBuilds /\ fails \in 0 .. MaxFails

NoVector == [i \in Ids |-> None]
NoId == [p \in Paths |-> None]
Idle == [at |-> "idle", kind |-> "sync", todo |-> [p \in Paths |-> 0],
         path |-> None, text |-> 0, existingId |-> None, changed |-> FALSE]

Init ==
    /\ docs \in [Paths -> {0, 1}]
    /\ vector = NoVector
    /\ pathToId = NoId /\ idToPath = NoVector /\ pathToHash = NoId /\ nextId = 0
    /\ ready = FALSE /\ persistTimer = FALSE
    /\ job = [j \in Jobs |-> Idle] /\ embedding = [e \in Embedders |-> None]
    /\ disk = None
    /\ sound = TRUE /\ diskSound = TRUE /\ calm = {}
    /\ writes = 1 /\ builds = 0 /\ fails = 0

-----------------------------------------------------------------------------
(* Helpers.                                                                  *)

\* The ids by which a search finds a path.
Found(p) == {i \in Ids : vector[i] # None /\ idToPath[i] = p}

\* The ids of a set of paths.
IdsOf(S) == {pathToId[p] : p \in S} \ {None}

\* A new vector for a path, in the place of the id old, which may be None.
Put(p, text, old) ==
    /\ nextId <= MaxId
    /\ vector' = [i \in Ids |-> IF i = nextId THEN text ELSE IF i = old THEN None ELSE vector[i]]
    /\ idToPath' = [i \in Ids |-> IF i = nextId THEN p ELSE IF i = old THEN None ELSE idToPath[i]]
    /\ pathToId' = [pathToId EXCEPT ![p] = nextId]
    /\ pathToHash' = [pathToHash EXCEPT ![p] = text]
    /\ nextId' = nextId + 1

\* The vectors of a set of paths go.
Drop(S) ==
    /\ vector' = [i \in Ids |-> IF i \in IdsOf(S) THEN None ELSE vector[i]]
    /\ idToPath' = [i \in Ids |-> IF i \in IdsOf(S) THEN None ELSE idToPath[i]]
    /\ pathToId' = [p \in Paths |-> IF p \in S THEN None ELSE pathToId[p]]
    /\ pathToHash' = [p \in Paths |-> IF p \in S THEN None ELSE pathToHash[p]]

\* The maps of a new index.
Cleared == pathToId' = NoId /\ idToPath' = NoVector /\ pathToHash' = NoId /\ nextId' = 0

\* persistIndex, when it is not interrupted.
Saved == [index |-> vector,
          map |-> [pathToId |-> pathToId, pathToHash |-> pathToHash, nextId |-> nextId]]

Fail == fails < MaxFails /\ fails' = fails + 1

Alone(j) ==
    /\ \A k \in Jobs \ {j} : job[k].at = "idle"
    /\ \A e \in Embedders : embedding[e] = None

-----------------------------------------------------------------------------
(* buildFullIndex and syncIndexIncremental.                                  *)

Begun(kind, snapshot) ==
    [Idle EXCEPT !.at = "walk", !.kind = kind, !.todo = snapshot]

\* A full build begins with an empty index. When that cannot be made, the maps are empty
\* and the old index stays.
BeginFull(j) ==
    /\ job[j].at = "idle"
    /\ Cleared
    /\ \/ /\ vector' = NoVector
          /\ job' = [job EXCEPT ![j] = Begun("full", docs)]
          /\ UNCHANGED fails
       \/ /\ Fail
          /\ UNCHANGED <<vector, job>>
    /\ sound' = \A k \in Jobs : job[k].at = "idle" \/ job[k].kind = "full"

\* index_repair, /repair.
Repair(j) ==
    /\ ready /\ builds < MaxBuilds
    /\ BeginFull(j)
    /\ builds' = builds + 1
    /\ calm' = IF Alone(j) /\ fails' = fails THEN {j} ELSE {}
    /\ UNCHANGED <<docs, ready, embedding, persistTimer, disk, diskSound, writes>>

\* Plausible bug: a sync keeps the vectors of the notes that are gone.
GoneKept(map) == {}

\* The notes of a persisted index that are in the vault no more.
Gone(map) == {p \in Paths : map.pathToId[p] # None /\ docs[p] = 0}

\* A persisted index is loaded, without the notes that are gone, and synced.
SyncSaved(j) ==
    LET map == disk.map  gone == Gone(map)
        lost == {map.pathToId[p] : p \in gone}
    IN  /\ disk # None
        /\ vector' = [i \in Ids |-> IF i \in lost THEN None ELSE disk.index[i]]
        /\ pathToId' = [p \in Paths |-> IF p \in gone THEN None ELSE map.pathToId[p]]
        /\ pathToHash' = [p \in Paths |-> IF p \in gone THEN None ELSE map.pathToHash[p]]
        /\ idToPath' = [i \in Ids |-> IF \E p \in Paths : pathToId'[p] = i
                                     THEN CHOOSE p \in Paths : pathToId'[p] = i ELSE None]
        /\ nextId' = map.nextId
        /\ sound' = diskSound
        /\ job' = [job EXCEPT ![j] = [Begun("sync", docs) EXCEPT !.changed = gone # {}]]
        /\ calm' = IF diskSound THEN {j} ELSE {}
        /\ UNCHANGED fails

\* An index is built. Index files that cannot be read are as none.
BuildNew(j) ==
    /\ IF disk = None THEN UNCHANGED fails ELSE Fail
    /\ job' = [job EXCEPT ![j] = Begun("full", docs)]
    /\ sound' = TRUE /\ calm' = {j}
    /\ UNCHANGED <<vector, maps>>

\* initEmbeddings, and what main() does next. No request is served between the two: the
\* continuation is queued before the server's first one.
Ready(j) ==
    /\ ~ready /\ ready' = TRUE
    /\ SyncSaved(j) \/ BuildNew(j)
    /\ UNCHANGED <<docs, embedding, persistTimer, disk, diskSound, writes, builds>>

\* Plausible bug: a note with a vector is taken to be unchanged.
UnchangedAny(c, p) == c.kind = "sync" /\ pathToId[p] # None

\* syncIndexIncremental passes over a note whose hash is the recorded one.
Unchanged(c, p) ==
    c.kind = "sync" /\ pathToId[p] # None /\ pathToHash[p] = Doc(c.todo[p])

\* The next note of the snapshot: its vector is awaited, with the id that it has now.
Take(j) ==
    LET c == job[j]
    IN  /\ c.at = "walk"
        /\ \E p \in {q \in Paths : c.todo[q] # 0} :
             LET d == [c EXCEPT !.todo[p] = 0]
             IN  job' = [job EXCEPT ![j] =
                    IF Unchanged(c, p) THEN d
                    ELSE [d EXCEPT !.at = "embed", !.path = p, !.text = c.todo[p],
                             !.existingId = IF c.kind = "sync" THEN pathToId[p] ELSE None]]
        /\ UNCHANGED <<docs, vector, maps, ready, embedding, persistTimer, disk, history, counters>>

\* Plausible bug: what the call read for the last note is still there for the next.
WalkingKept(c) == [c EXCEPT !.at = "walk"]

\* The walk goes on.
Walking(c) == [c EXCEPT !.at = "walk", !.path = None, !.text = 0, !.existingId = None]

\* The vector has come and takes the place of the id that the call read before.
PutDoc(j) ==
    LET c == job[j]
    IN  /\ c.at = "embed"
        /\ Put(c.path, Doc(c.text), c.existingId)
        /\ job' = [job EXCEPT ![j] = [Walking(c) EXCEPT !.changed = TRUE]]
        /\ UNCHANGED <<docs, ready, embedding, persistTimer, disk, history, counters>>

\* The embedding failed: the note keeps what it had.
FailDoc(j) ==
    LET c == job[j]
    IN  /\ c.at = "embed" /\ Fail
        /\ job' = [job EXCEPT ![j] = Walking(c)]
        /\ UNCHANGED <<docs, vector, maps, ready, embedding, persistTimer, disk, history, writes, builds>>

\* persistIndex writes both files aside and renames them one after the other. It may fail
\* before that, or between the two.
Persist ==
    \/ disk' = Saved /\ diskSound' = sound /\ UNCHANGED fails
    \/ UNCHANGED <<disk, diskSound>> /\ Fail
    \/ /\ disk # None /\ disk' = [index |-> Saved.index, map |-> disk.map]
       /\ diskSound' = FALSE /\ Fail

\* A full build is always saved, a sync that has changed something.
Finish(j) ==
    LET c == job[j]
    IN  /\ c.at = "walk" /\ \A p \in Paths : c.todo[p] = 0
        /\ job' = [job EXCEPT ![j] = Idle]
        /\ IF c.kind = "full" \/ c.changed THEN Persist
           ELSE UNCHANGED <<disk, diskSound, fails>>
        /\ UNCHANGED <<docs, vector, maps, ready, embedding, persistTimer, sound, writes, builds>>

-----------------------------------------------------------------------------
(* embedAndIndex, removeFromVectorIndex and the timer.                       *)

\* indexNote: the note is in docMeta, and its vector is awaited.
IndexNote(e, p) ==
    /\ writes < MaxWrites /\ writes' = writes + 1
    /\ embedding[e] = None
    /\ docs' = [docs EXCEPT ![p] = writes + 1]
    /\ embedding' = IF ready THEN [embedding EXCEPT ![e] = [path |-> p, text |-> Body(writes + 1)]]
                    ELSE embedding
    /\ UNCHANGED <<vector, maps, ready, job, persistTimer, disk, history, builds, fails>>

\* Plausible bug: the old vector is taken to be the last one that was made.
OldIdAny(p) == IF nextId = 0 THEN None ELSE nextId - 1

\* The id that a path has when its new vector has come.
OldId(p) == pathToId[p]

EmbedAndIndex(e) ==
    LET n == embedding[e]
    IN  /\ n # None
        /\ Put(n.path, n.text, OldId(n.path))
        /\ embedding' = [embedding EXCEPT ![e] = None]
        /\ persistTimer' = TRUE
        /\ UNCHANGED <<docs, ready, job, disk, history, counters>>

EmbedFails(e) ==
    /\ embedding[e] # None /\ Fail
    /\ embedding' = [embedding EXCEPT ![e] = None]
    /\ UNCHANGED <<docs, vector, maps, ready, job, persistTimer, disk, history, writes, builds>>

\* removeFromIndex of a deleted note, and what rebuildIndex prunes.
Remove(p) ==
    /\ docs[p] # 0 /\ docs' = [docs EXCEPT ![p] = 0]
    /\ IF ready /\ pathToId[p] # None
       THEN Drop({p}) /\ persistTimer' = TRUE /\ UNCHANGED nextId
       ELSE UNCHANGED <<vector, maps, persistTimer>>
    /\ UNCHANGED <<ready, job, embedding, disk, history, counters>>

\* rebuildIndex finds a file that an editor has changed, or not finds one in a full
\* rebuild: the vectors stay as they are.
Rescan(p) ==
    /\ writes < MaxWrites /\ writes' = writes + 1
    /\ \E w \in {0, writes + 1} : docs' = [docs EXCEPT ![p] = w]
    /\ UNCHANGED <<vector, maps, ready, job, embedding, persistTimer, disk, history, builds, fails>>

\* The timer, five seconds after the last change.
PersistLater ==
    /\ persistTimer /\ persistTimer' = FALSE
    /\ Persist
    /\ UNCHANGED <<docs, vector, maps, ready, job, embedding, sound, writes, builds>>

\* The process ends and comes back. shutdown saves the index first; a process that dies
\* may do so between the two renames.
Restart ==
    /\ ready /\ builds < MaxBuilds /\ builds' = builds + 1
    /\ \/ Persist
       \/ UNCHANGED <<disk, diskSound, fails>>
    /\ vector' = NoVector /\ Cleared
    /\ ready' = FALSE /\ persistTimer' = FALSE /\ sound' = TRUE
    /\ job' = [j \in Jobs |-> Idle] /\ embedding' = [e \in Embedders |-> None]
    /\ UNCHANGED <<docs, writes>>

Other ==
    \/ \E e \in Embedders :
          EmbedAndIndex(e) \/ EmbedFails(e) \/ \E p \in Paths : IndexNote(e, p)
    \/ \E p \in Paths : Remove(p) \/ Rescan(p)
    \/ Restart

Next ==
    \/ \E j \in Jobs :
         \/ Repair(j) \/ Ready(j)
         \/ (Take(j) \/ PutDoc(j) \/ Finish(j)) /\ calm' = calm \cap {j}
         \/ FailDoc(j) /\ calm' = {}
    \/ Other /\ calm' = {}
    \/ PersistLater /\ UNCHANGED calm

Spec == Init /\ [][Next]_vars

-----------------------------------------------------------------------------
(* Properties.                                                               *)

\* An id is of one note, also across restarts and rebuilds that begin the ids anew; the
\* recorded hash of a note is what its vector was made from, and a search finds the note
\* by it: a boot that sees the same hash may leave the note alone. The second holds unless
\* a full build began while a sync went on, or a save stopped between its renames.
HashIsVector ==
    /\ \A p, q \in Paths : pathToId[p] # None /\ pathToId[p] = pathToId[q] => p = q
    /\ sound => \A p \in Paths :
          /\ pathToId[p] = None <=> pathToHash[p] = None
          /\ pathToId[p] # None => /\ pathToId[p] \in Found(p)
                                   /\ vector[pathToId[p]] = pathToHash[p]

\* A note that a search finds is found until it is removed: no update, of it or of
\* another note, hides it. Only a full build starts from nothing.
StaysFindable ==
    [][\A p \in Paths : sound /\ Found(p) # {} /\ Found(p)' = {} =>
          docs'[p] = 0 \/ ~ready' \/ nextId' < nextId]_vars

\* A boot, or a repair, that nothing disturbs mends what earlier races left: each note
\* has one vector, of its text, and no other note is found.
Heals ==
    [][\A j \in calm : ready' /\ job[j].at # "idle" /\ job'[j].at = "idle" =>
          \A p \in Paths :
             IF docs[p] = 0 THEN Found(p)' = {}
             ELSE /\ Found(p)' = {pathToId'[p]}
                  /\ vector'[pathToId'[p]] = Doc(docs[p])]_vars
=============================================================================
