-------------------------------- MODULE Dreams --------------------------------
(***************************************************************************)
(* The heat of memories, and the jobs that let it cool: decayMemories and  *)
(* autoArchiveColdMemories (lib/memory-lifecycle.ts), run by the jobs of   *)
(* lib/scheduler.ts that main() registers (the nightly dream, the          *)
(* temperature refresh, the dream of the idle edge) and by the tools,      *)
(* beside calls that read a note and write its heat back. The jobs look    *)
(* for candidates in the search index, which a rebuild (lib/search.ts) may *)
(* leave behind the files for good.                                        *)
(*                                                                         *)
(* Time is the day, for the ages of notes, and whether the server has been *)
(* quiet long enough, for the idle edge. A note is its heat, the day of    *)
(* its last access, the day until which it has cooled, and the archived    *)
(* flag; every note has last_accessed. Left out: the text of notes, with   *)
(* edits of nothing else, the factors of category and importance (one unit *)
(* of heat per unit of decay), the shorter clock of low-importance         *)
(* exhaust, and what a dream does beyond decay and archive (Consolidation  *)
(* has the part that hides notes; the rest reports, or links notes).       *)
(***************************************************************************)
EXTENDS Integers

CONSTANTS
    Notes,      \* paths of memories
    Folded,     \* those with consolidated_into, or a tag that makes archiving safe
    Jobs,       \* the registered jobs (each is opt-in)
    Tools,      \* calls of memory_dream and memory_temperature_refresh that may overlap
    Users,      \* calls that access or change a note that may overlap
    None,       \* no day, no note
    WarmDays,   \* 7: no decay before
    SlowDays,   \* 30: one unit a day before, two after
    ColdDays,   \* 90: archived when cold after that
    WarmHeat,   \* 4: cold below
    MaxHeat,    \* 16
    MaxDay,     \* bound: days; the last one stands for those that follow
    MaxActivity,    \* bound: calls and restarts
    MaxFails    \* bound: failing file operations and handlers, and full rebuilds

JobNames == {"memory_dream", "memory_temperature_refresh", "idle_dream"}
Days == 0 .. MaxDay
Heats == 0 .. MaxHeat

ASSUME ConstantsTyped ==
    /\ Folded \subseteq Notes /\ Jobs \subseteq JobNames /\ Tools \cap JobNames = {}
    /\ WarmDays \in Nat /\ SlowDays \in Nat /\ ColdDays \in Nat /\ WarmHeat \in Nat
    /\ MaxHeat \in Nat /\ MaxDay \in Nat /\ MaxActivity \in Nat \ {0} /\ MaxFails \in Nat
    /\ WarmDays <= SlowDays
    /\ None \notin Int /\ None \notin Notes

VARIABLES
    today,
    notes,      \* the files
    docMeta,    \* the entry of each note in the search index, or None
    stamped,    \* the notes whose present modification time is in fileMtimes
    scan,       \* what a full rebuild has read of a note and not yet stored
    run,        \* the jobs and tools: how far each one is
    running,    \* state.running of the jobs
    user,       \* the calls of users between their read and their write
    lastActivity, quiet, lastIdleDreamForActivity,
    since,      \* history: each note as it was last written by anything but a decay
    dreamt,     \* history: the activity that the last idle dream followed
    fails       \* counter, for the bound

index == <<docMeta, stamped, scan>>
activity == <<lastActivity, quiet, lastIdleDreamForActivity, dreamt>>
vars == <<today, notes, index, run, running, user, activity, since, fails>>

Note == [heat : Heats, accessed : Days, decayed : Days \cup {None}, archived : BOOLEAN]

Runs == Jobs \cup Tools
Run == [at : {"idle", "decay", "cool", "archive", "hide"}, archives : BOOLEAN,
        now : Days, todo : SUBSET Notes, note : Notes \cup {None}, read : Note \cup {None}]

TypeOK ==
    /\ today \in Days
    /\ notes \in [Notes -> Note] /\ since \in [Notes -> Note]
    /\ docMeta \in [Notes -> Note \cup {None}] /\ stamped \subseteq Notes
    /\ scan \in [Notes -> Note \cup {None}]
    /\ run \in [Runs -> Run] /\ running \subseteq Jobs
    /\ \A r \in Runs :
         run[r].at \in {"cool", "hide"} => run[r].note \in Notes /\ run[r].read \in Note
    /\ user \in [Users -> [note : Notes, write : Note] \cup {None}]
    /\ lastActivity \in 1 .. MaxActivity /\ quiet \in BOOLEAN
    /\ lastIdleDreamForActivity \in 0 .. MaxActivity /\ dreamt \in 0 .. MaxActivity
    /\ fails \in 0 .. MaxFails

Idle == [at |-> "idle", archives |-> FALSE, now |-> 0, todo |-> {}, note |-> None, read |-> None]

\* New memories are warm or hot. Those of tools have last_decayed, captures have not.
Init ==
    /\ today = 0
    /\ notes \in [Notes -> {n \in Note : /\ n.heat >= WarmHeat /\ n.accessed = 0
                                         /\ n.decayed \in {0, None} /\ ~n.archived}]
    /\ since = notes
    /\ docMeta = notes /\ stamped = Notes /\ scan = [p \in Notes |-> None]
    /\ run = [r \in Runs |-> Idle] /\ running = {}
    /\ user = [u \in Users |-> None]
    /\ lastActivity = 1 /\ quiet = FALSE
    /\ lastIdleDreamForActivity = 0 /\ dreamt = 0
    /\ fails = 0

-----------------------------------------------------------------------------
(* Decay.                                                                    *)

Least(a, b) == IF a < b THEN a ELSE b
Most(a, b) == IF a < b THEN b ELSE a

\* unitsAt: how far a note that was last accessed on one day has cooled by another.
Units(accessed, day) ==
    LET days == Most(0, day - accessed)
    IN  Most(0, Least(days, SlowDays) - WarmDays) + 2 * Most(0, days - SlowDays)

\* What decay is due to a note.
BaseDecay(n, now) == Units(n.accessed, now) - Units(n.accessed, n.decayed)

\* Plausible bug: the score is not cut off at zero.
CooledBelow(n, now) == [n EXCEPT !.heat = @ - BaseDecay(n, now), !.decayed = now]

\* The note with its new score.
Cooled(n, now) == [n EXCEPT !.heat = Most(0, @ - BaseDecay(n, now)), !.decayed = now]

\* A note that was never refreshed only gets the day from which it cools.
Anchored(n, now) == [n EXCEPT !.decayed = now]

Refreshed(n, now) == IF n.decayed = None THEN Anchored(n, now) ELSE Cooled(n, now)

\* What decayMemories has to do to the file as it was read.
NeedsRefresh(n, now) == n.heat > 0 /\ (n.decayed = None \/ BaseDecay(n, now) > 0)

\* The pre-filter by the index, which may be out of date.
DecayCandidates(now) ==
    {p \in Notes : /\ docMeta[p] # None /\ docMeta[p].heat > 0
                   /\ now - docMeta[p].accessed > WarmDays}

ArchiveCandidates(now) ==
    {p \in Notes : /\ docMeta[p] # None /\ ~docMeta[p].archived
                   /\ docMeta[p].heat < WarmHeat /\ now - docMeta[p].accessed >= ColdDays}

\* autoArchiveColdMemories on the file as it was read.
Archivable(p, n, now) ==
    ~n.archived /\ n.heat < WarmHeat /\ now - n.accessed >= ColdDays /\ p \in Folded

Fail == fails < MaxFails /\ fails' = fails + 1

\* A note is written, which gives the file a new time.
Put(p, n) ==
    /\ notes' = [notes EXCEPT ![p] = n]
    /\ stamped' = stamped \ {p}
    /\ UNCHANGED scan

\* A run with the parameters autoDecay and autoArchive begins.
Begun(decays, archives) ==
    [Idle EXCEPT !.at = "decay", !.archives = archives, !.now = today,
                 !.todo = IF decays THEN DecayCandidates(today) ELSE {}]

\* The next candidate is read; one of those wanted is written next.
Visit(r, phase, wanted, next) ==
    /\ run[r].at = phase
    /\ \E p \in run[r].todo :
         \/ /\ p \in wanted
            /\ run' = [run EXCEPT ![r].todo = @ \ {p}, ![r].at = next,
                                  ![r].note = p, ![r].read = notes[p]]
         \/ /\ p \notin wanted
            /\ run' = [run EXCEPT ![r].todo = @ \ {p}]
    /\ UNCHANGED <<today, notes, index, running, user, activity, since, fails>>

DecayVisit(r) ==
    Visit(r, "decay", {p \in Notes : NeedsRefresh(notes[p], run[r].now)}, "cool")

ArchiveVisit(r) ==
    Visit(r, "archive", {p \in Notes : Archivable(p, notes[p], run[r].now)}, "hide")

\* A file that cannot be read is passed over.
Unreadable(r) ==
    /\ run[r].at \in {"decay", "archive"} /\ Fail
    /\ \E p \in run[r].todo : run' = [run EXCEPT ![r].todo = @ \ {p}]
    /\ UNCHANGED <<today, notes, index, running, user, activity, since>>

Walking(c, phase) == [c EXCEPT !.at = phase, !.note = None, !.read = None]

\* Plausible bug: the etag is not passed on.
MatchesAny(c) == TRUE

\* writeNote compares the etag under the lock of the path (NoteStore).
Matches(c) == notes[c.note] = c.read

\* indexNote follows, which records no time.
DecayWrite(r) ==
    LET c == run[r]  n == Refreshed(c.read, c.now)
    IN  /\ c.at = "cool"
        /\ run' = [run EXCEPT ![r] = Walking(c, "decay")]
        /\ \/ /\ Matches(c)
              /\ Put(c.note, n)
              /\ since' = IF c.read.decayed = None THEN [since EXCEPT ![c.note] = n] ELSE since
              /\ \/ docMeta' = [docMeta EXCEPT ![c.note] = n] /\ UNCHANGED fails
                 \/ Fail /\ UNCHANGED docMeta
           \/ /\ ~Matches(c)
              /\ UNCHANGED <<notes, index, since, fails>>
           \/ /\ Fail
              /\ UNCHANGED <<notes, index, since>>
        /\ UNCHANGED <<today, running, user, activity>>

\* autoArchiveColdMemories begins with a look at the clock and the index of its own.
BeginArchive(r) ==
    /\ run[r].at = "decay" /\ run[r].todo = {} /\ run[r].archives
    /\ run' = [run EXCEPT ![r].at = "archive", ![r].now = today,
                          ![r].todo = ArchiveCandidates(today)]
    /\ UNCHANGED <<today, notes, index, running, user, activity, since, fails>>

\* The archived note is written as it was read, without its etag, and not indexed.
ArchiveWrite(r) ==
    LET c == run[r]  n == [c.read EXCEPT !.archived = TRUE]
    IN  /\ c.at = "hide"
        /\ run' = [run EXCEPT ![r] = Walking(c, "archive")]
        /\ \/ /\ Put(c.note, n)
              /\ since' = [since EXCEPT ![c.note] = n]
              /\ UNCHANGED <<docMeta, fails>>
           \/ /\ Fail
              /\ UNCHANGED <<notes, index, since>>
        /\ UNCHANGED <<today, running, user, activity>>

-----------------------------------------------------------------------------
(* The scheduler.                                                            *)

\* Plausible bug: a handler that throws leaves the flag.
EndedQuietly(r) == running' = IF fails' = fails THEN running \ {r} ELSE running

\* runJobOnce resets the flag whatever the handler did.
Ended(r) == running' = running \ {r}

\* The rest of the handler: reports and the journal, which may throw.
End(r) ==
    /\ run[r].at = IF run[r].archives THEN "archive" ELSE "decay"
    /\ run[r].todo = {}
    /\ Fail \/ UNCHANGED fails
    /\ run' = [run EXCEPT ![r] = Idle]
    /\ Ended(r)
    /\ UNCHANGED <<today, notes, index, user, activity, since>>

\* A timer fires. A job that still runs is skipped; the nightly one has no timer then.
Fire(j) ==
    /\ j \in Jobs \ {"idle_dream"} /\ j \notin running
    /\ running' = running \cup {j}
    /\ run' = [run EXCEPT ![j] = Begun(TRUE, j = "memory_temperature_refresh")]
    /\ UNCHANGED <<today, notes, index, user, activity, since, fails>>

\* shouldFireIdleDream.
ShouldFireIdleDream == quiet /\ lastIdleDreamForActivity < lastActivity

\* Plausible bug: the edge is claimed before it is known to be one.
FireIdleClaims ==
    /\ "idle_dream" \in Jobs \ running
    /\ lastIdleDreamForActivity < lastActivity
    /\ lastIdleDreamForActivity' = lastActivity
    /\ IF ~quiet THEN UNCHANGED <<run, running, dreamt>>
       ELSE /\ dreamt' = lastActivity
            /\ running' = running \cup {"idle_dream"}
            /\ run' = [run EXCEPT !["idle_dream"] = Begun(TRUE, FALSE)]
    /\ UNCHANGED <<today, notes, index, user, lastActivity, quiet, since, fails>>

\* The idle edge is claimed before the slow work begins.
FireIdle ==
    /\ "idle_dream" \in Jobs \ running
    /\ ShouldFireIdleDream
    /\ lastIdleDreamForActivity' = lastActivity
    /\ dreamt' = lastActivity
    /\ running' = running \cup {"idle_dream"}
    /\ run' = [run EXCEPT !["idle_dream"] = Begun(TRUE, FALSE)]
    /\ UNCHANGED <<today, notes, index, user, lastActivity, quiet, since, fails>>

-----------------------------------------------------------------------------
(* Calls.                                                                    *)

\* wrapToolHandler marks the begin of a call.
MarkActivity ==
    /\ lastActivity < MaxActivity
    /\ lastActivity' = lastActivity + 1 /\ quiet' = FALSE
    /\ UNCHANGED <<lastIdleDreamForActivity, dreamt>>

\* memory_dream and memory_temperature_refresh, and the dashboard's button.
Call(t) ==
    /\ run[t].at = "idle"
    /\ MarkActivity
    /\ \E decays, archives \in BOOLEAN : run' = [run EXCEPT ![t] = Begun(decays, archives)]
    /\ UNCHANGED <<today, notes, index, running, user, since, fails>>

\* promoteOnAccess and touchRecalledMemories, once a day, and memory_promote: today's
\* access, and a new score or the old one.
Accessed(n) == {m \in Note : /\ m.accessed = today /\ m.decayed = n.decayed
                             /\ m.heat > 0 \/ m.heat = n.heat
                             /\ m.archived \in {n.archived, FALSE}}

\* memory_promote, notes_upsert, notes_archive, and the scores of the temperature tool. What
\* replaces a note may come without last_decayed.
Rescored(n) == {m \in Note : /\ m.accessed = n.accessed /\ m.decayed \in {n.decayed, None}
                             /\ m.archived \in {n.archived, TRUE}}

\* A call reads a note and computes what it will write.
UserRead(u, p) ==
    /\ user[u] = None
    /\ MarkActivity
    /\ \E n \in Rescored(notes[p]) \cup Accessed(notes[p]) :
          user' = [user EXCEPT ![u] = [note |-> p, write |-> n]]
    /\ UNCHANGED <<today, notes, index, run, running, since, fails>>

\* It writes without the etag (touchRecalledMemories passes it, so writes this or nothing).
\* notes_upsert, notes_archive and memory_promote index the note, the others do not.
UserWrite(u) ==
    /\ user[u] # None
    /\ user' = [user EXCEPT ![u] = None]
    /\ \/ /\ Put(user[u].note, user[u].write)
          /\ since' = [since EXCEPT ![user[u].note] = user[u].write]
          /\ docMeta' \in {[docMeta EXCEPT ![user[u].note] = user[u].write], docMeta}
          /\ UNCHANGED fails
       \/ /\ Fail
          /\ UNCHANGED <<notes, index, since>>
    /\ UNCHANGED <<today, run, running, activity>>

-----------------------------------------------------------------------------
(* Time, the index and restarts.                                             *)

NextDay ==
    /\ today < MaxDay /\ today' = today + 1
    /\ UNCHANGED <<notes, index, run, running, user, activity, since, fails>>

\* idleMs have passed without an activity.
Quiet ==
    /\ ~quiet /\ quiet' = TRUE
    /\ UNCHANGED <<today, notes, index, run, running, user, lastActivity,
                   lastIdleDreamForActivity, dreamt, since, fails>>

\* rebuildIndex at its interval takes up a note with a new time (SearchIndex has the rest of
\* it). It records the time first: a note that it cannot read then is not tried again, and
\* one that is written while it reads is taken up the next time.
Rescan(p) ==
    /\ scan[p] = None /\ p \notin stamped
    /\ stamped' = stamped \cup {p}
    /\ \/ docMeta' = [docMeta EXCEPT ![p] = notes[p]] /\ UNCHANGED fails
       \/ Fail /\ UNCHANGED docMeta
    /\ UNCHANGED <<today, notes, scan, run, running, user, activity, since>>

\* A full rebuild, of /repair or of changed source vaults, has cleared the index, and reads
\* the note.
RescanFull(p) ==
    /\ scan[p] = None /\ Fail
    /\ docMeta' = [docMeta EXCEPT ![p] = None]
    /\ stamped' = stamped \ {p}
    /\ scan' = [scan EXCEPT ![p] = notes[p]]
    /\ UNCHANGED <<today, notes, run, running, user, activity, since>>

\* What it has read becomes the entry. It records the time only now, of a file that may have
\* been written since.
StoreFull(p) ==
    /\ scan[p] # None
    /\ docMeta' = [docMeta EXCEPT ![p] = scan[p]]
    /\ stamped' = stamped \cup {p}
    /\ scan' = [scan EXCEPT ![p] = None]
    /\ UNCHANGED <<today, notes, run, running, user, activity, since, fails>>

\* The process ends and comes back: boot counts as activity, and builds the index before
\* any call.
Restart ==
    /\ lastActivity < MaxActivity
    /\ lastActivity' = lastActivity + 1 /\ quiet' = FALSE
    /\ lastIdleDreamForActivity' = 0
    /\ run' = [r \in Runs |-> Idle] /\ running' = {}
    /\ user' = [u \in Users |-> None]
    /\ docMeta' = notes /\ stamped' = Notes /\ scan' = [p \in Notes |-> None]
    /\ UNCHANGED <<today, notes, since, dreamt, fails>>

Step(r) ==
    \/ DecayVisit(r) \/ ArchiveVisit(r) \/ Unreadable(r)
    \/ DecayWrite(r) \/ BeginArchive(r) \/ ArchiveWrite(r) \/ End(r)

Next ==
    \/ \E r \in Runs : Step(r)
    \/ \E j \in Jobs : Fire(j)
    \/ FireIdle
    \/ \E t \in Tools : Call(t)
    \/ \E u \in Users : UserWrite(u) \/ \E p \in Notes : UserRead(u, p)
    \/ \E p \in Notes : Rescan(p) \/ RescanFull(p) \/ StoreFull(p)
    \/ NextDay \/ Quiet \/ Restart

Spec == Init /\ [][Next]_vars

\* The file operations of jobs and rebuilds return, timers fire, the interval rebuilds the
\* index, time passes. A call may hang.
Fairness ==
    /\ \A j \in Jobs : WF_vars(Step(j))
    /\ \A j \in Jobs \ {"idle_dream"} : WF_vars(Fire(j))
    /\ \A p \in Notes : WF_vars(Rescan(p)) /\ WF_vars(StoreFull(p))
    /\ WF_vars(FireIdle) /\ WF_vars(NextDay) /\ WF_vars(Quiet)

FairSpec == Spec /\ Fairness

-----------------------------------------------------------------------------
(* Properties.                                                               *)

\* What decays alone can have made of a note since it was s.
CooledFrom(n, s) ==
    /\ n.accessed = s.accessed /\ n.archived = s.archived
    /\ n.decayed = None <=> s.decayed = None
    /\ n.heat = IF n.decayed = None THEN s.heat
                ELSE Most(0, s.heat - (Units(s.accessed, n.decayed)
                                          - Units(s.accessed, s.decayed)))

\* Decay depends on the time that has passed, not on how often, by how many jobs at once
\* and how slowly it was computed: since the last write of anything else, a note has lost
\* what its age accounts for, and nothing but heat.
DecayByTime == \A p \in Notes : CooledFrom(notes[p], since[p])

\* The index takes the entry of a note to be up to date and it is not: a full rebuild has
\* recorded the time of a write that it had not read, or a rebuild could not read the note.
Forgotten(p) == p \in stamped /\ docMeta[p] # notes[p]

\* A note that is left alone cools, whatever failed, overlapped or was not indexed before:
\* in the end it has lost what is due up to the day. Only one that the index has forgotten,
\* until it is written again or the process restarts, may keep its heat.
CoolsWithTime ==
    \A p \in Notes :
        <>[](~Forgotten(p)) =>
            <>[](notes[p].heat > 0 /\ today - notes[p].accessed > WarmDays =>
                    notes[p].decayed # None /\ BaseDecay(notes[p], today) <= 0)

\* Every burst of activity is followed by a dream, also when it begins while the dream of
\* an earlier one goes on, and after a restart; and by one only.
EveryBurstDreams ==
    /\ <>[](dreamt = lastActivity)
    /\ [][(running' \ running) \cap {"idle_dream"} # {} => dreamt < lastActivity]_vars
=============================================================================
