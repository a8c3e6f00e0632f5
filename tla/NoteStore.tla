------------------------------- MODULE NoteStore -------------------------------
(***************************************************************************)
(* The files of the brain vault and the functions that change them         *)
(* (lib/vault.ts): readNote, writeNote with its per-path lock and its      *)
(* optional If-Match, createNote and deleteNote.                           *)
(*                                                                         *)
(* A client is one tool call or background task. It reads a note, works on *)
(* what it read and writes the note back, with the etag or without, or it  *)
(* writes a text that owes nothing to the file. The text of a note is      *)
(* the set of the edits in it. A file is first truncated and then filled,  *)
(* both by libuv, so every other client may run in between; a truncated    *)
(* file has no edits. Two texts with the same edits count as equal, which  *)
(* lets more checks of etags pass than the digest of the code does.        *)
(***************************************************************************)
EXTENDS FiniteSets

CONSTANTS
    Paths,
    Writers,    \* clients of readNote and writeNote
    Creators,   \* clients of createNote
    Body,       \* what a note holds before anyone edits it
    Absent,     \* there is no file
    Nobody

Clients == Writers \cup Creators
Texts == SUBSET (Clients \cup {Body})

ASSUME ClientsDiffer == Writers \cap Creators = {} /\ Nobody \notin Clients
ASSUME AbsentIsNoText == \A t \in Texts : t # Absent

VARIABLES
    files,      \* the text of each path or Absent
    tail,       \* noteWriteLocks: the last client to ask for the lock of a path
    phase,      \* what each client does
    path,       \* the path it does it to
    seen,       \* the text it read
    ifMatch,    \* whether it passes the etag of that text
    before,     \* the client whose release it awaits
    linked      \* the clients whose open file is still the one at their path

vars == <<files, tail, phase, path, seen, ifMatch, before, linked>>
clientVars == <<path, seen, ifMatch>>

Phases == {"idle", "read", "queued", "checked", "open"}

TypeOK ==
    /\ files \in [Paths -> {Absent} \cup Texts]
    /\ tail \in [Paths -> Writers \cup {Nobody}]
    /\ phase \in [Clients -> Phases]
    /\ path \in [Clients -> Paths]
    /\ seen \in [Clients -> Texts]
    /\ ifMatch \in [Clients -> BOOLEAN]
    /\ before \in [Clients -> Writers \cup {Nobody}]
    /\ linked \subseteq {c \in Clients : phase[c] = "open"}

Init ==
    /\ files \in [Paths -> {Absent, {Body}}]
    /\ tail = [p \in Paths |-> Nobody]
    /\ phase = [c \in Clients |-> "idle"]
    /\ \E p \in Paths : path = [c \in Clients |-> p]
    /\ seen = [c \in Clients |-> {}]
    /\ ifMatch = [c \in Clients |-> FALSE]
    /\ before = [c \in Clients |-> Nobody]
    /\ linked = {}

\* Plausible bug: the map entry goes even though another client has queued up.
ReleaseDeletes(c) ==
    /\ phase' = [phase EXCEPT ![c] = "idle"]
    /\ seen' = [seen EXCEPT ![c] = {}]
    /\ ifMatch' = [ifMatch EXCEPT ![c] = FALSE]
    /\ tail' = [tail EXCEPT ![path[c]] = Nobody]
    /\ before' = [d \in Clients |-> IF before[d] = c THEN Nobody ELSE before[d]]
    /\ linked' = linked \ {c}
    /\ UNCHANGED path

\* The client is done, well or not: the finally of withNoteWriteLock wakes the
\* client that awaits it. (createNote holds no lock: it has nothing to release.)
Release(c) ==
    /\ phase' = [phase EXCEPT ![c] = "idle"]
    /\ seen' = [seen EXCEPT ![c] = {}]
    /\ ifMatch' = [ifMatch EXCEPT ![c] = FALSE]
    /\ tail' = [tail EXCEPT ![path[c]] = IF @ = c THEN Nobody ELSE @]
    /\ before' = [d \in Clients |-> IF before[d] = c THEN Nobody ELSE before[d]]
    /\ linked' = linked \ {c}
    /\ UNCHANGED path

\* readNote, which takes no lock, and the decision to pass the etag (m) or not.
\* A writer that finds no file has nothing to match.
Read(c, p, m) ==
    /\ phase[c] = "idle"
    /\ m => files[p] # Absent
    /\ phase' = [phase EXCEPT ![c] = "read"]
    /\ path' = [path EXCEPT ![c] = p]
    /\ seen' = [seen EXCEPT ![c] = IF files[p] = Absent THEN {} ELSE files[p]]
    /\ ifMatch' = [ifMatch EXCEPT ![c] = m]
    /\ UNCHANGED <<files, tail, before, linked>>

\* writeNote: join the queue of the path's lock.
Queue(c) ==
    /\ phase[c] = "read"
    /\ phase' = [phase EXCEPT ![c] = "queued"]
    /\ before' = [before EXCEPT ![c] = tail[path[c]]]
    /\ tail' = [tail EXCEPT ![path[c]] = c]
    /\ UNCHANGED <<files, linked, clientVars>>

\* Plausible bug: the etag is compared before the lock is taken.
CheckUnlocked(c) ==
    /\ phase[c] = "queued"
    /\ IF ifMatch[c] /\ files[path[c]] # seen[c]
       THEN Release(c) /\ UNCHANGED files
       ELSE /\ phase' = [phase EXCEPT ![c] = "checked"]
            /\ UNCHANGED <<files, tail, before, linked, clientVars>>

\* The lock is held: with If-Match, a changed or missing file is a CONFLICT.
Check(c) ==
    /\ phase[c] = "queued" /\ before[c] = Nobody
    /\ IF ifMatch[c] /\ files[path[c]] # seen[c]
       THEN Release(c) /\ UNCHANGED files
       ELSE /\ phase' = [phase EXCEPT ![c] = "checked"]
            /\ UNCHANGED <<files, tail, before, linked, clientVars>>

\* writeFile opens the file, which creates or empties it.
Truncate(c) ==
    /\ phase[c] = "checked"
    /\ phase' = [phase EXCEPT ![c] = "open"]
    /\ files' = [files EXCEPT ![path[c]] = {}]
    /\ linked' = linked \cup {c}
    /\ UNCHANGED <<tail, before, clientVars>>

\* createNote opens the file with O_EXCL and takes no lock.
Create(c, p) ==
    /\ phase[c] = "idle"
    /\ files[p] = Absent
    /\ phase' = [phase EXCEPT ![c] = "open"]
    /\ path' = [path EXCEPT ![c] = p]
    /\ files' = [files EXCEPT ![p] = {}]
    /\ linked' = linked \cup {c}
    /\ UNCHANGED <<tail, before, seen, ifMatch>>

\* writeFile writes the text: what the client read with its edit, or a text of its
\* own. The text of a file that was deleted since is lost.
Fill(c) ==
    /\ phase[c] = "open"
    /\ \E base \in {seen[c], {}} :
          files' = IF c \in linked THEN [files EXCEPT ![path[c]] = base \cup {c}] ELSE files
    /\ Release(c)

\* Plausible bug: the lock is released on success alone.
FailWithoutFinally(c) ==
    /\ \/ phase[c] = "queued" /\ before[c] = Nobody
       \/ phase[c] \in {"checked", "open"}
    /\ phase' = [phase EXCEPT ![c] = "idle"]
    /\ UNCHANGED <<files, tail, before, linked, clientVars>>

\* A file operation of a client that is past its queue fails. What it truncated
\* stays empty.
Fail(c) ==
    /\ \/ phase[c] = "queued" /\ before[c] = Nobody
       \/ phase[c] \in {"checked", "open"}
    /\ Release(c)
    /\ UNCHANGED files

\* deleteNote takes no lock either. Open files lose their path.
Delete(p) ==
    /\ files[p] # Absent
    /\ files' = [files EXCEPT ![p] = Absent]
    /\ linked' = {c \in linked : path[c] # p}
    /\ UNCHANGED <<tail, phase, before, clientVars>>

\* The server dies and starts again: only the files are left.
Crash ==
    /\ tail' = [p \in Paths |-> Nobody]
    /\ phase' = [c \in Clients |-> "idle"]
    /\ seen' = [c \in Clients |-> {}]
    /\ ifMatch' = [c \in Clients |-> FALSE]
    /\ before' = [c \in Clients |-> Nobody]
    /\ linked' = {}
    /\ UNCHANGED <<files, path>>

Step(c) == Queue(c) \/ Check(c) \/ Truncate(c) \/ Fill(c) \/ Fail(c)

Next ==
    \/ \E c \in Writers, p \in Paths, m \in BOOLEAN : Read(c, p, m)
    \/ \E c \in Clients : Step(c)
    \/ \E c \in Creators, p \in Paths : Create(c, p)
    \/ \E p \in Paths : Delete(p)
    \/ Crash

\* Every call that has begun goes on: libuv completes or fails file operations
\* and the event loop runs the continuations of settled promises.
Spec == Init /\ [][Next]_vars /\ \A c \in Clients : WF_vars(Step(c))

-----------------------------------------------------------------------------
(* Properties.                                                             *)

Writing(c) == c \in Writers /\ phase[c] \in {"checked", "open"}

\* Writers of one path hold its lock one at a time, although the lock is only a
\* chain of promises whose end the map forgets when the last one is released.
WritesSerial ==
    \A c, d \in Writers : Writing(c) /\ Writing(d) /\ path[c] = path[d] => c = d

\* A write with an etag never overwrites what another writer wrote after the text
\* was read, also when the text was read half-written: all it can miss is a note
\* that was created after its own was deleted.
MatchedKeepsWrites ==
    \A c \in Writers :
        phase[c] = "checked" /\ ifMatch[c] /\ files[path[c]] # Absent
            => files[path[c]] \ seen[c] \subseteq Creators

\* Whoever has read a note gets to write it or is told that he cannot.
WritersFinish == \A c \in Clients : phase[c] # "idle" ~> phase[c] = "idle"
=============================================================================
