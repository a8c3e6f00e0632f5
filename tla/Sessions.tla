------------------------------- MODULE Sessions -------------------------------
(***************************************************************************)
(* The MCP sessions of the server (index.ts, lib/session-lru.ts): the map   *)
(* of live sessions, the metadata of sessions that lived before the last    *)
(* restart and have not come back, and the file sessions.json that both are *)
(* flushed to.                                                              *)
(*                                                                          *)
(* An initialisation awaits the transport between taking the metadata of    *)
(* its id and storing the session, and a DELETE awaits it between the close *)
(* of the transport, which drops the session, and dropping it again. All    *)
(* other handlers and timers are synchronous, hence one action. A first     *)
(* initialisation, whose id is made up by the server, is one of an id that  *)
(* nobody has used. A server that stops flushes, closes its transports and  *)
(* exits in one step: nothing it still answers reaches the file.            *)
(*                                                                          *)
(* A session is its time of last activity and the number of tool calls in   *)
(* its history. Transports are left out: one that two initialisations of an *)
(* id leave behind is reached by no request and closed by nobody.           *)
(***************************************************************************)
EXTENDS Integers, FiniteSets

CONSTANTS
    Ids,            \* session ids
    Inits,          \* bound: initialisations in progress at a time
    MaxActive,      \* MAX_ACTIVE_SESSIONS, 0 for no cap
    MaxPersisted,   \* MAX_PERSISTED_SESSIONS
    Timeout,        \* SESSION_TIMEOUT_MS in ticks, 0 for never
    Retention,      \* SESSION_RETENTION_MS in ticks
    MaxTime,        \* bound: ticks of the clock
    MaxCalls,       \* bound: tool calls of a session
    None            \* no session, no metadata, no record, no initialisation

ASSUME LimitsAreNatural ==
    /\ MaxActive \in Nat /\ MaxPersisted \in Nat \ {0}
    /\ Timeout \in Nat /\ Retention \in Nat \ {0}
    /\ MaxTime \in Nat /\ MaxCalls \in Nat
ASSUME IdsAreFinite == IsFiniteSet(Ids)

VARIABLES
    live,       \* sessions
    meta,       \* persistedSessionMeta
    disk,       \* sessions.json
    dirty,      \* sessionsDirty
    inits,      \* the initialisations that await their transport
    deletes,    \* the ids whose DELETE awaits its transport
    now,        \* the clock
    closed      \* ids dropped since they were last initialised; not in the program

vars == <<live, meta, disk, dirty, inits, deletes, now, closed>>

Session == [last : Nat, calls : Nat]

ASSUME NoneIsNone == None \notin Session /\ None \notin [id : Ids, calls : Nat]

Kept(f) == {s \in Ids : f[s] # None}

\* Metadata is kept only of a session that is neither live nor being initialised.
TypeOK ==
    /\ live \in [Ids -> Session \cup {None}]
    /\ meta \in [Ids -> Session \cup {None}]
    /\ disk \in [Ids -> Session \cup {None}]
    /\ dirty \in BOOLEAN
    /\ inits \in [Inits -> [id : Ids, calls : Nat] \cup {None}]
    /\ deletes \subseteq Ids
    /\ now \in Nat
    /\ closed \subseteq Ids
    /\ \A s \in Kept(meta) :
          s \notin Kept(live) /\ \A i \in Inits : inits[i] # None => inits[i].id # s

Nothing == [s \in Ids |-> None]

Init ==
    /\ live = Nothing
    /\ meta = Nothing
    /\ disk = Nothing
    /\ dirty = FALSE
    /\ inits = [i \in Inits |-> None]
    /\ deletes = {}
    /\ now = 0
    /\ closed = {}

-----------------------------------------------------------------------------
\* f without the sessions D.
Without(f, D) == [s \in Ids |-> IF s \in D THEN None ELSE f[s]]

\* Plausible bug: nothing tells the next flush about the sessions.
DroppedQuietly(D) ==
    /\ meta' = Without(meta, D)
    /\ dirty' = dirty

\* What dropSession does for each of D besides closing it and taking it from the
\* live sessions.
Dropped(D) ==
    /\ meta' = Without(meta, D)
    /\ dirty' = (dirty \/ D # {})

\* V is what selectSessionsToEvict may select to make room for one session.
IsLeastActive(V) ==
    LET overflow == IF MaxActive = 0 THEN 0 ELSE Cardinality(Kept(live)) + 1 - MaxActive
    IN  /\ V \subseteq Kept(live)
        /\ Cardinality(V) = IF overflow > 0 THEN overflow ELSE 0
        /\ \A s \in V, t \in Kept(live) \ V : live[s].last <= live[t].last

\* R is what capSessionRecords may keep of the records f: the newest.
IsNewest(R, f) ==
    /\ R \subseteq Kept(f)
    /\ Cardinality(R) <= MaxPersisted
    /\ R # Kept(f) => Cardinality(R) = MaxPersisted
    /\ \A s \in R, t \in Kept(f) \ R : f[t].last <= f[s].last

\* getSessionsForPersistence before it caps the records.
Records == [s \in Ids |-> IF s \in Kept(live) THEN live[s] ELSE meta[s]]

\* saveSessions writes a temporary file and renames it.
Save ==
    \E R \in SUBSET Ids : IsNewest(R, Records) /\ disk' = Without(Records, Ids \ R)

-----------------------------------------------------------------------------
(* Requests.                                                               *)

\* Plausible bug: the metadata is read and left where it is.
InitBeginKeeps(i, s) ==
    /\ inits[i] = None
    /\ s \notin Kept(live)
    /\ inits' = [inits EXCEPT ![i] =
          [id |-> s, calls |-> IF meta[s] = None THEN 0 ELSE meta[s].calls]]
    /\ UNCHANGED <<live, meta, disk, dirty, deletes, now, closed>>

\* POST of an initialize request with the id of no live session, or without one.
InitBegin(i, s) ==
    /\ inits[i] = None
    /\ s \notin Kept(live)
    /\ inits' = [inits EXCEPT ![i] =
          [id |-> s, calls |-> IF meta[s] = None THEN 0 ELSE meta[s].calls]]
    /\ meta' = Without(meta, {s})
    /\ UNCHANGED <<live, disk, dirty, deletes, now, closed>>

\* Plausible bug: room is made before the transport is awaited, and not here.
InitEndNoRoom(i) ==
    /\ inits[i] # None
    /\ live' = [live EXCEPT ![inits[i].id] = [last |-> now, calls |-> inits[i].calls]]
    /\ dirty' = TRUE
    /\ closed' = closed \ {inits[i].id}
    /\ inits' = [inits EXCEPT ![i] = None]
    /\ UNCHANGED <<meta, disk, deletes, now>>

\* The transport has answered it: make room, store the session.
InitEnd(i) ==
    /\ inits[i] # None
    /\ \E V \in SUBSET Ids :
          LET s == inits[i].id
          IN  /\ IsLeastActive(V)
              /\ live' = [Without(live, V) EXCEPT ![s] = [last |-> now, calls |-> inits[i].calls]]
              /\ meta' = Without(meta, V)
              /\ closed' = (closed \cup V) \ {s}
    /\ dirty' = TRUE
    /\ inits' = [inits EXCEPT ![i] = None]
    /\ UNCHANGED <<disk, deletes, now>>

\* The transport has refused it and has no session id.
InitFails(i) ==
    /\ inits[i] # None
    /\ inits' = [inits EXCEPT ![i] = None]
    /\ UNCHANGED <<live, meta, disk, dirty, deletes, now, closed>>

\* Any other POST, or a GET: updateSessionActivity does not mark the sessions dirty.
Request(s) ==
    /\ s \in Kept(live)
    /\ live' = [live EXCEPT ![s].last = now]
    /\ UNCHANGED <<meta, disk, dirty, inits, deletes, now, closed>>

\* recordSessionToolCall, when the tool of an earlier request returns.
ToolCall(s) ==
    /\ s \in Kept(live)
    /\ live[s].calls < MaxCalls
    /\ live' = [live EXCEPT ![s].calls = @ + 1]
    /\ dirty' = TRUE
    /\ UNCHANGED <<meta, disk, inits, deletes, now, closed>>

\* A request with the id of no live session is answered with 404.
Unknown(s) ==
    /\ s \in Kept(meta)
    /\ meta' = Without(meta, {s})
    /\ dirty' = TRUE
    /\ UNCHANGED <<live, disk, inits, deletes, now, closed>>

\* DELETE: the transport closes and its onclose drops the session, or it refuses.
DeleteBegin(s) ==
    /\ s \in Kept(live)
    /\ s \notin deletes
    /\ \/ /\ live' = Without(live, {s})
          /\ Dropped({s})
          /\ closed' = closed \cup {s}
       \/ UNCHANGED <<live, meta, dirty, closed>>
    /\ deletes' = deletes \cup {s}
    /\ UNCHANGED <<disk, inits, now>>

\* However that went, the handler drops whatever session has the id by now.
DeleteEnd(s) ==
    /\ s \in deletes
    /\ live' = Without(live, {s})
    /\ Dropped({s})
    /\ deletes' = deletes \ {s}
    /\ closed' = closed \cup {s}
    /\ UNCHANGED <<disk, inits, now>>

\* killSession, from the dashboard.
Kill(s) ==
    /\ s \in Kept(live)
    /\ live' = Without(live, {s})
    /\ Dropped({s})
    /\ closed' = closed \cup {s}
    /\ UNCHANGED <<disk, inits, deletes, now>>

-----------------------------------------------------------------------------
(* Timers and restarts.                                                    *)

\* cleanupSessions drops idle sessions and prunes old metadata.
Cleanup ==
    LET idle == {s \in Kept(live) : Timeout > 0 /\ now - live[s].last > Timeout}
        old == {s \in Kept(meta) : now - meta[s].last > Retention}
    IN  /\ idle \cup old # {}
        /\ live' = Without(live, idle)
        /\ Dropped(idle \cup old)
        /\ closed' = closed \cup idle
        /\ UNCHANGED <<disk, inits, deletes, now>>

\* Plausible bug: a flush that failed is not tried again.
FlushOnce ==
    /\ dirty
    /\ Save \/ UNCHANGED disk
    /\ dirty' = FALSE
    /\ UNCHANGED <<live, meta, inits, deletes, now, closed>>

\* persistSessionsIfDirty. One that fails leaves everything as it was.
Flush ==
    /\ dirty
    /\ Save
    /\ dirty' = FALSE
    /\ UNCHANGED <<live, meta, inits, deletes, now, closed>>

\* The server stops, after a flush if it is told to, and starts again: it
\* loads the records that are not too old.
Restart ==
    /\ Save \/ UNCHANGED disk
    /\ live' = Nothing
    /\ meta' = [s \in Ids |-> IF disk'[s] # None /\ now - disk'[s].last < Retention
                              THEN disk'[s] ELSE None]
    /\ dirty' = (meta' # disk')
    /\ inits' = [i \in Inits |-> None]
    /\ deletes' = {}
    /\ closed' = {}
    /\ UNCHANGED now

Tick ==
    /\ now < MaxTime
    /\ now' = now + 1
    /\ UNCHANGED <<live, meta, disk, dirty, inits, deletes, closed>>

Next ==
    \/ \E i \in Inits, s \in Ids : InitBegin(i, s)
    \/ \E i \in Inits : InitEnd(i) \/ InitFails(i)
    \/ \E s \in Ids : \/ Request(s) \/ ToolCall(s) \/ Unknown(s)
                      \/ DeleteBegin(s) \/ DeleteEnd(s) \/ Kill(s)
    \/ Cleanup
    \/ Flush
    \/ Restart
    \/ Tick

Spec == Init /\ [][Next]_vars

-----------------------------------------------------------------------------
(* Properties.                                                             *)

\* There are never more live sessions than MAX_ACTIVE_SESSIONS, however many
\* initialisations await their transports at once.
CapHeld == MaxActive > 0 => Cardinality(Kept(live)) <= MaxActive

\* "A closed session is never re-emitted to sessions.json": once a flush has
\* followed the close, by whichever of the five ways, the file knows nothing of it.
ClosedForgotten == ~dirty => closed \cap Kept(disk) = {}

\* When nothing is left to flush, a crash loses no tool call: the file has the
\* history of every live session unless it is full.
CallsFlushed ==
    ~dirty => \A s \in Kept(live) :
        IF s \in Kept(disk) THEN disk[s].calls = live[s].calls
        ELSE Cardinality(Kept(disk)) = MaxPersisted
=============================================================================
