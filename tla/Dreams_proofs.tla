----------------------------- MODULE Dreams_proofs -----------------------------
(***************************************************************************)
(* Proofs about the heat of memories and the scheduler's flags, for any    *)
(* notes, days and heats and any number of overlapping jobs, tools and     *)
(* calls.                                                                  *)
(***************************************************************************)
EXTENDS Dreams, TLAPS

\* A run that is about to cool a note has found decay due in what it read.
DecayIsDue == \A r \in Runs : run[r].at = "cool" => NeedsRefresh(run[r].read, run[r].now)

Inv == TypeOK /\ DecayIsDue /\ DecayByTime

\* The invariant by parts.
RunOK(c) ==
    /\ c.at \in {"cool", "hide"} => c.note \in Notes /\ c.read \in Note
    /\ c.at = "cool" => NeedsRefresh(c.read, c.now)

RunsOK == run \in [Runs -> Run] /\ \A r \in Runs : RunOK(run[r])

NotesOK ==
    /\ notes \in [Notes -> Note] /\ since \in [Notes -> Note]
    /\ DecayByTime

IndexOK ==
    /\ docMeta \in [Notes -> Note \cup {None}] /\ stamped \subseteq Notes
    /\ scan \in [Notes -> Note \cup {None}]

RestOK ==
    /\ today \in Days
    /\ IndexOK
    /\ running \subseteq Jobs
    /\ user \in [Users -> [note : Notes, write : Note] \cup {None}]
    /\ lastActivity \in 1 .. MaxActivity /\ quiet \in BOOLEAN
    /\ lastIdleDreamForActivity \in 0 .. MaxActivity /\ dreamt \in 0 .. MaxActivity
    /\ fails \in 0 .. MaxFails

-----------------------------------------------------------------------------
\* Units of decay are natural numbers.
LEMMA UnitsNat ==
  ASSUME NEW a \in Days, NEW d \in Days
  PROVE  Units(a, d) \in Nat
BY ConstantsTyped DEF Units, Days, Least, Most

\* A note that has not cooled is as it was.
LEMMA CooledFromItself ==
  ASSUME NEW n \in Note
  PROVE  CooledFrom(n, n)
<1>1. n.heat \in Nat
  BY ConstantsTyped DEF Note, Heats
<1>2. CASE n.decayed = None
  BY <1>2 DEF CooledFrom
<1>3. CASE n.decayed # None
  <2>1. n.accessed \in Days /\ n.decayed \in Days
    BY <1>3 DEF Note
  <2>2. Units(n.accessed, n.decayed) \in Nat
    BY <2>1, UnitsNat
  <2> QED
    BY <1>1, <1>3, <2>2 DEF CooledFrom, Most
<1> QED
  BY <1>2, <1>3

\* Two decays, one after the other, are as one.
LEMMA TwoDecays ==
  ASSUME NEW h \in Nat, NEW u \in Nat, NEW v \in Nat, NEW w \in Nat, w > v
  PROVE  Most(0, Most(0, h - (v - u)) - (w - v)) = Most(0, h - (w - u))
BY DEF Most

\* A refresh gives a note that a decay can have made.
LEMMA RefreshCools ==
  ASSUME NEW n \in Note, NEW now \in Days, NeedsRefresh(n, now)
  PROVE  /\ Refreshed(n, now) \in Note
         /\ n.decayed = None => CooledFrom(Refreshed(n, now), Refreshed(n, now))
         /\ \A s \in Note : n.decayed # None /\ CooledFrom(n, s) => CooledFrom(Refreshed(n, now), s)
<1> DEFINE m == Refreshed(n, now)
<1>1. now # None
  BY ConstantsTyped DEF Days
<1>2. CASE n.decayed = None
  <2>1. m \in Note
    BY <1>2 DEF Refreshed, Anchored, Note
  <2> QED
    BY <1>2, <2>1, CooledFromItself
<1>3. CASE n.decayed # None
  <2> DEFINE v == Units(n.accessed, n.decayed)  w == Units(n.accessed, now)
  <2>1. n.accessed \in Days /\ n.decayed \in Days /\ n.heat \in Heats
    BY <1>3 DEF Note
  <2>2. v \in Nat /\ w \in Nat
    BY <2>1, UnitsNat
  <2>3. w > v
    <3>1. BaseDecay(n, now) > 0
      BY <1>3 DEF NeedsRefresh
    <3>2. BaseDecay(n, now) = w - v
      BY DEF BaseDecay
    <3> HIDE DEF v, w
    <3> QED BY <2>2, <3>1, <3>2
  <2>4. m = [n EXCEPT !.heat = Most(0, n.heat - (w - v)), !.decayed = now]
    BY <1>3 DEF Refreshed, Cooled, BaseDecay
  <2>5. Most(0, n.heat - (w - v)) \in Heats
    <3> HIDE DEF v, w
    <3> QED BY <2>1, <2>2, <2>3, ConstantsTyped DEF Most, Heats
  <2>6. m \in Note /\ m.heat = Most(0, n.heat - (w - v)) /\ m.decayed = now
        /\ m.accessed = n.accessed /\ m.archived = n.archived
    <3> HIDE DEF v, w, m
    <3> QED BY <2>4, <2>5 DEF Note
  <2>7. ASSUME NEW s \in Note, CooledFrom(n, s)
        PROVE  CooledFrom(m, s)
    <3> DEFINE u == Units(s.accessed, s.decayed)
    <3>1. s.accessed = n.accessed /\ s.archived = n.archived /\ s.decayed # None
      BY <1>3, <2>7 DEF CooledFrom
    <3>2. s.decayed \in Days /\ s.heat \in Nat
      BY <3>1, ConstantsTyped DEF Note, Heats
    <3>3. u \in Nat
      BY <2>1, <3>1, <3>2, UnitsNat
    <3>4. n.heat = Most(0, s.heat - (v - u))
      BY <1>3, <2>7, <3>1 DEF CooledFrom
    <3>5. m.heat = Most(0, s.heat - (w - u))
      <4>1. m.heat = Most(0, Most(0, s.heat - (v - u)) - (w - v))
        BY <2>6, <3>4
      <4>2. Most(0, Most(0, s.heat - (v - u)) - (w - v)) = Most(0, s.heat - (w - u))
        <5> HIDE DEF u, v, w
        <5> QED BY <2>2, <2>3, <3>2, <3>3 DEF Most
      <4> QED
        BY <4>1, <4>2
    <3>6. w = Units(s.accessed, m.decayed)
      BY <2>6, <3>1
    <3> HIDE DEF w, m
    <3> QED
      BY <1>1, <2>6, <3>1, <3>5, <3>6 DEF CooledFrom
  <2> QED
    BY <1>3, <2>6, <2>7
<1> QED
  BY <1>2, <1>3

-----------------------------------------------------------------------------
\* A run that is over.
LEMMA IdleTyped == Idle \in Run /\ RunOK(Idle)
BY ConstantsTyped DEF Idle, Run, RunOK, Days

\* A run that begins.
LEMMA BegunTyped ==
  ASSUME today \in Days, NEW d \in BOOLEAN, NEW a \in BOOLEAN
  PROVE  Begun(d, a) \in Run /\ RunOK(Begun(d, a))
BY ConstantsTyped DEF Begun, Idle, Run, RunOK, Days, DecayCandidates

\* The initial states satisfy the invariant.
LEMMA InitInv == Init => RunsOK /\ NotesOK /\ RestOK
<1> SUFFICES ASSUME Init PROVE RunsOK /\ NotesOK /\ RestOK
  OBVIOUS
<1>1. RunsOK
  BY IdleTyped DEF Init, RunsOK
<1>2. NotesOK
  <2>1. notes \in [Notes -> Note] /\ since = notes
    BY DEF Init
  <2> QED
    BY <2>1, CooledFromItself DEF NotesOK, DecayByTime
<1>3. RestOK
  <2>1. IndexOK
    BY DEF Init, IndexOK
  <2>2. user \in [Users -> [note : Notes, write : Note] \cup {None}]
    BY DEF Init
  <2>3. today \in Days /\ running \subseteq Jobs /\ fails \in 0 .. MaxFails
    BY ConstantsTyped DEF Init, Days
  <2>4. lastActivity \in 1 .. MaxActivity
    BY ConstantsTyped DEF Init
  <2>6. quiet \in BOOLEAN
    BY DEF Init
  <2>5. lastIdleDreamForActivity \in 0 .. MaxActivity /\ dreamt \in 0 .. MaxActivity
    BY ConstantsTyped DEF Init
  <2> QED
    BY <2>1, <2>2, <2>3, <2>4, <2>5, <2>6 DEF RestOK
<1> QED
  BY <1>1, <1>2, <1>3

\* The parts are the whole.
LEMMA Parts == (RunsOK /\ NotesOK /\ RestOK) <=> Inv
BY DEF RunsOK, RunOK, NotesOK, RestOK, IndexOK, Inv, TypeOK, DecayIsDue

LEMMA PartsAfter == (RunsOK' /\ NotesOK' /\ RestOK') => Inv'
BY DEF RunsOK, RunOK, NotesOK, RestOK, IndexOK, Inv, TypeOK, DecayIsDue

\* A step of one run.
LEMMA RunGoes ==
  ASSUME RunsOK, NEW r \in Runs, NEW d \in Run, RunOK(d), run' = [run EXCEPT ![r] = d]
  PROVE  RunsOK'
<1>1. run' \in [Runs -> Run]
  BY DEF RunsOK
<1>2. ASSUME NEW c \in Runs PROVE RunOK(run'[c])
  BY DEF RunsOK
<1> QED
  BY <1>1, <1>2 DEF RunsOK

\* A failure is counted.
LEMMA FailCounts == ASSUME fails \in 0 .. MaxFails, Fail PROVE fails' \in 0 .. MaxFails
BY ConstantsTyped DEF Fail

\* A note is written, with or without a new history.
LEMMA NoteWritten ==
  ASSUME NotesOK, NEW p \in Notes, NEW n \in Note, NEW s \in Note, CooledFrom(n, s),
         notes' = [notes EXCEPT ![p] = n], since' = [since EXCEPT ![p] = s]
  PROVE  NotesOK'
<1>1. notes' \in [Notes -> Note] /\ since' \in [Notes -> Note]
  BY DEF NotesOK
<1>2. ASSUME NEW q \in Notes PROVE CooledFrom(notes'[q], since'[q])
  BY DEF NotesOK, DecayByTime
<1> QED
  BY <1>1, <1>2 DEF NotesOK, DecayByTime

\* The files are left alone.
LEMMA NotesKept == NotesOK /\ notes' = notes /\ since' = since => NotesOK'
BY DEF NotesOK, DecayByTime, CooledFrom

\* The index is left alone.
LEMMA IndexKept == IndexOK /\ UNCHANGED index => IndexOK'
BY DEF IndexOK, index

\* A note is written, and its entry with it or not.
LEMMA PutTyped ==
  ASSUME IndexOK, NEW p \in Notes, NEW n \in Note, Put(p, n),
         docMeta' = [docMeta EXCEPT ![p] = n] \/ docMeta' = docMeta
  PROVE  IndexOK'
BY DEF IndexOK, Put

-----------------------------------------------------------------------------
(* The steps of a run.                                                       *)

\* A candidate is passed over.
LEMMA PassedOver ==
  ASSUME RunsOK, NEW r \in Runs, NEW p,
         run' = [run EXCEPT ![r].todo = @ \ {p}]
  PROVE  RunsOK'
<1> DEFINE d == [run[r] EXCEPT !.todo = @ \ {p}]
<1>1. run[r] \in Run /\ RunOK(run[r])
  BY DEF RunsOK
<1>2. d \in Run /\ d.at = run[r].at /\ d.note = run[r].note /\ d.read = run[r].read
      /\ d.now = run[r].now
  BY <1>1 DEF Run
<1>3. RunOK(d)
  <2> HIDE DEF d
  <2> QED BY <1>1, <1>2 DEF RunOK
<1>4. run' = [run EXCEPT ![r] = d]
  BY DEF RunsOK
<1> HIDE DEF d
<1> QED
  BY <1>2, <1>3, <1>4, RunGoes

\* A candidate is read, and not passed over.
LEMMA ReadAndWanted ==
  ASSUME RunsOK, NotesOK, NEW r \in Runs, NEW p \in Notes, NEW next \in {"cool", "hide"},
         next = "cool" => NeedsRefresh(notes[p], run[r].now),
         run' = [run EXCEPT ![r].todo = @ \ {p}, ![r].at = next,
                            ![r].note = p, ![r].read = notes[p]]
  PROVE  RunsOK'
<1> DEFINE d == [run[r] EXCEPT !.todo = @ \ {p}, !.at = next, !.note = p, !.read = notes[p]]
<1>1. run[r] \in Run
  BY DEF RunsOK
<1>2. notes[p] \in Note
  BY DEF NotesOK
<1>3. d \in Run /\ d.at = next /\ d.note = p /\ d.read = notes[p] /\ d.now = run[r].now
  BY <1>1, <1>2 DEF Run
<1>5. RunOK(d)
  <2> HIDE DEF d
  <2> QED BY <1>2, <1>3 DEF RunOK
<1>6. run' = [run EXCEPT ![r] = d]
  BY DEF RunsOK
<1> HIDE DEF d
<1> QED
  BY <1>3, <1>5, <1>6, RunGoes

\* One visit, of either phase.
LEMMA VisitStep ==
  ASSUME RunsOK, NotesOK, RestOK, NEW r \in Runs, NEW phase, NEW wanted,
         NEW next \in {"cool", "hide"},
         next = "cool" => \A p \in wanted : NeedsRefresh(notes[p], run[r].now),
         Visit(r, phase, wanted, next)
  PROVE  RunsOK' /\ NotesOK' /\ RestOK'
<1>1. RunsOK'
  <2>1. run[r].todo \subseteq Notes
    BY DEF RunsOK, Run
  <2>2. PICK p \in run[r].todo :
          \/ /\ p \in wanted
             /\ run' = [run EXCEPT ![r].todo = @ \ {p}, ![r].at = next,
                                   ![r].note = p, ![r].read = notes[p]]
          \/ /\ p \notin wanted
             /\ run' = [run EXCEPT ![r].todo = @ \ {p}]
    BY DEF Visit
  <2>3. CASE /\ p \in wanted
             /\ run' = [run EXCEPT ![r].todo = @ \ {p}, ![r].at = next,
                                   ![r].note = p, ![r].read = notes[p]]
    BY <2>1, <2>3, ReadAndWanted
  <2>4. CASE run' = [run EXCEPT ![r].todo = @ \ {p}]
    BY <2>4, PassedOver
  <2> QED
    BY <2>2, <2>3, <2>4
<1>2. NotesOK'
  BY NotesKept DEF Visit
<1>3. RestOK'
  BY IndexKept DEF Visit, RestOK, activity
<1> QED
  BY <1>1, <1>2, <1>3

LEMMA DecayVisitStep ==
  ASSUME RunsOK, NotesOK, RestOK, NEW r \in Runs, DecayVisit(r)
  PROVE  RunsOK' /\ NotesOK' /\ RestOK'
<1> DEFINE due == {p \in Notes : NeedsRefresh(notes[p], run[r].now)}
<1>1. \A p \in due : NeedsRefresh(notes[p], run[r].now)
  OBVIOUS
<1>2. Visit(r, "decay", due, "cool")
  BY DEF DecayVisit
<1> HIDE DEF due
<1> QED
  BY <1>1, <1>2, VisitStep

LEMMA ArchiveVisitStep ==
  ASSUME RunsOK, NotesOK, RestOK, NEW r \in Runs, ArchiveVisit(r)
  PROVE  RunsOK' /\ NotesOK' /\ RestOK'
<1> DEFINE cold == {p \in Notes : Archivable(p, notes[p], run[r].now)}
<1>1. Visit(r, "archive", cold, "hide")
  BY DEF ArchiveVisit
<1> HIDE DEF cold
<1> QED
  BY <1>1, VisitStep

LEMMA UnreadableStep ==
  ASSUME RunsOK, NotesOK, RestOK, NEW r \in Runs, Unreadable(r)
  PROVE  RunsOK' /\ NotesOK' /\ RestOK'
<1>1. RunsOK'
  BY PassedOver DEF Unreadable
<1>2. NotesOK'
  BY NotesKept DEF Unreadable
<1>3. fails' \in 0 .. MaxFails
  BY FailCounts DEF Unreadable, RestOK
<1>4. RestOK'
  BY <1>3, IndexKept DEF Unreadable, RestOK, activity
<1> QED
  BY <1>1, <1>2, <1>4

\* A run goes on to the next candidate.
LEMMA GoesOn ==
  ASSUME RunsOK, NEW r \in Runs, NEW phase \in {"decay", "archive"},
         run' = [run EXCEPT ![r] = Walking(run[r], phase)]
  PROVE  RunsOK'
<1> DEFINE d == Walking(run[r], phase)
<1>1. d \in Run /\ d.at = phase
  BY DEF RunsOK, Run, Walking
<1>2. RunOK(d)
  <2> HIDE DEF d
  <2> QED BY <1>1 DEF RunOK
<1> HIDE DEF d
<1>3. run' = [run EXCEPT ![r] = d]
  BY DEF d
<1> QED
  BY <1>1, <1>2, <1>3, RunGoes

\* A cooled note is as a decay can have made it, since it was last written by another.
LEMMA DecayWriteStep ==
  ASSUME RunsOK, NotesOK, RestOK, NEW r \in Runs, DecayWrite(r)
  PROVE  RunsOK' /\ NotesOK' /\ RestOK'
<1> DEFINE c == run[r]  p == c.note  n == Refreshed(c.read, c.now)
<1>1. c.at = "cool" /\ p \in Notes /\ c.read \in Note /\ c.now \in Days
      /\ NeedsRefresh(c.read, c.now)
  BY DEF DecayWrite, RunsOK, RunOK, Run
<1>2. RunsOK'
  BY GoesOn DEF DecayWrite
<1>3. n \in Note
  BY <1>1, RefreshCools
<1>4. NotesOK' /\ IndexOK' /\ fails' \in 0 .. MaxFails
  <2>1. CASE /\ Matches(c)
             /\ Put(p, n)
             /\ since' = IF c.read.decayed = None THEN [since EXCEPT ![p] = n] ELSE since
             /\ \/ docMeta' = [docMeta EXCEPT ![p] = n] /\ UNCHANGED fails
                \/ Fail /\ UNCHANGED docMeta
    <3>1. notes[p] = c.read
      BY <2>1 DEF Matches
    <3>2. notes' = [notes EXCEPT ![p] = n]
      BY <2>1 DEF Put
    <3>3. IndexOK' /\ fails' \in 0 .. MaxFails
      <4> HIDE DEF c, n, p
      <4> QED
        BY <1>1, <1>3, <2>1, PutTyped, FailCounts DEF RestOK
    <3>4. CASE c.read.decayed = None
      <4>1. CooledFrom(n, n)
        BY <1>3, CooledFromItself
      <4>2. since' = [since EXCEPT ![p] = n]
        BY <2>1, <3>4
      <4> HIDE DEF c, n, p
      <4>3. NotesOK'
        BY <1>1, <1>3, <3>2, <4>1, <4>2, NoteWritten
      <4> QED
        BY <3>3, <4>3
    <3>5. CASE c.read.decayed # None
      <4>1. since[p] \in Note /\ CooledFrom(c.read, since[p])
        BY <1>1, <3>1 DEF NotesOK, DecayByTime
      <4>2. CooledFrom(n, since[p])
        BY <1>1, <3>5, <4>1, RefreshCools
      <4>3. since' = [since EXCEPT ![p] = since[p]]
        BY <2>1, <3>5 DEF NotesOK
      <4> HIDE DEF c, n, p
      <4>4. NotesOK'
        BY <1>1, <1>3, <3>2, <4>1, <4>2, <4>3, NoteWritten
      <4> QED
        BY <3>3, <4>4
    <3> QED
      BY <3>4, <3>5
  <2>2. CASE UNCHANGED <<notes, index, since, fails>>
    BY <2>2, NotesKept, IndexKept DEF RestOK
  <2>3. CASE Fail /\ UNCHANGED <<notes, index, since>>
    BY <2>3, NotesKept, IndexKept, FailCounts DEF RestOK
  <2> QED
    BY <2>1, <2>2, <2>3 DEF DecayWrite
<1>5. RestOK'
  BY <1>4 DEF DecayWrite, RestOK, activity
<1> QED
  BY <1>2, <1>4, <1>5

LEMMA BeginArchiveStep ==
  ASSUME RunsOK, NotesOK, RestOK, NEW r \in Runs, BeginArchive(r)
  PROVE  RunsOK' /\ NotesOK' /\ RestOK'
<1> DEFINE d == [run[r] EXCEPT !.at = "archive", !.now = today, !.todo = ArchiveCandidates(today)]
<1>1. run[r] \in Run /\ today \in Days /\ ArchiveCandidates(today) \subseteq Notes
  BY DEF RunsOK, RestOK, ArchiveCandidates
<1>2. d \in Run /\ d.at = "archive"
  BY <1>1 DEF Run
<1>3. RunOK(d)
  <2> HIDE DEF d
  <2> QED BY <1>2 DEF RunOK
<1>4. run' = [run EXCEPT ![r] = d]
  BY DEF BeginArchive, RunsOK
<1>5. RunsOK'
  <2> HIDE DEF d
  <2> QED BY <1>2, <1>3, <1>4, RunGoes
<1>6. NotesOK'
  BY NotesKept DEF BeginArchive
<1>7. RestOK'
  BY IndexKept DEF BeginArchive, RestOK, activity
<1> QED
  BY <1>5, <1>6, <1>7

LEMMA ArchiveWriteStep ==
  ASSUME RunsOK, NotesOK, RestOK, NEW r \in Runs, ArchiveWrite(r)
  PROVE  RunsOK' /\ NotesOK' /\ RestOK'
<1> DEFINE c == run[r]  p == c.note  n == [c.read EXCEPT !.archived = TRUE]
<1>1. p \in Notes /\ c.read \in Note
  BY DEF ArchiveWrite, RunsOK, RunOK
<1>2. RunsOK'
  BY GoesOn DEF ArchiveWrite
<1>3. n \in Note
  BY <1>1 DEF Note
<1>4. CooledFrom(n, n)
  BY <1>3, CooledFromItself
<1>5. NotesOK' /\ IndexOK' /\ fails' \in 0 .. MaxFails
  <2>1. CASE /\ Put(p, n)
             /\ since' = [since EXCEPT ![p] = n]
             /\ UNCHANGED <<docMeta, fails>>
    <3> HIDE DEF c, n, p
    <3>1. NotesOK'
      BY <1>1, <1>3, <1>4, <2>1, NoteWritten DEF Put
    <3> QED
      BY <1>1, <1>3, <2>1, <3>1, PutTyped DEF RestOK
  <2>2. CASE Fail /\ UNCHANGED <<notes, index, since>>
    BY <2>2, NotesKept, IndexKept, FailCounts DEF RestOK
  <2> QED
    BY <2>1, <2>2 DEF ArchiveWrite
<1>6. RestOK'
  BY <1>5 DEF ArchiveWrite, RestOK, activity
<1> QED
  BY <1>2, <1>5, <1>6

LEMMA EndStep ==
  ASSUME RunsOK, NotesOK, RestOK, NEW r \in Runs, End(r)
  PROVE  RunsOK' /\ NotesOK' /\ RestOK'
<1>1. RunsOK'
  BY IdleTyped, RunGoes DEF End
<1>2. NotesOK'
  BY NotesKept DEF End
<1>3. fails' \in 0 .. MaxFails
  BY FailCounts DEF End, RestOK
<1>4. RestOK'
  BY <1>3, IndexKept DEF End, Ended, RestOK, activity
<1> QED
  BY <1>1, <1>2, <1>4

-----------------------------------------------------------------------------
(* The scheduler, the calls, time.                                           *)

LEMMA FireStep ==
  ASSUME RunsOK, NotesOK, RestOK, NEW j \in Jobs, Fire(j)
  PROVE  RunsOK' /\ NotesOK' /\ RestOK'
<1> DEFINE archives == (j = "memory_temperature_refresh")
<1>1. Begun(TRUE, archives) \in Run /\ RunOK(Begun(TRUE, archives))
  BY BegunTyped DEF RestOK
<1>2. RunsOK'
  BY <1>1, RunGoes DEF Fire, Runs
<1>3. NotesOK'
  BY NotesKept DEF Fire
<1>4. RestOK'
  BY IndexKept DEF Fire, RestOK, activity
<1> QED
  BY <1>2, <1>3, <1>4

LEMMA FireIdleStep ==
  ASSUME RunsOK, NotesOK, RestOK, FireIdle
  PROVE  RunsOK' /\ NotesOK' /\ RestOK'
<1>1. Begun(TRUE, FALSE) \in Run /\ RunOK(Begun(TRUE, FALSE))
  BY BegunTyped DEF RestOK
<1>2. "idle_dream" \in Runs /\ "idle_dream" \in Jobs
  BY DEF FireIdle, Runs
<1>3. RunsOK'
  BY <1>1, <1>2, RunGoes DEF FireIdle
<1>4. NotesOK'
  BY NotesKept DEF FireIdle
<1>5. lastActivity \in 0 .. MaxActivity
  BY ConstantsTyped DEF RestOK
<1>6. RestOK'
  BY <1>2, <1>5, IndexKept DEF FireIdle, RestOK
<1> QED
  BY <1>3, <1>4, <1>6

\* An activity is counted.
LEMMA ActivityCounts ==
  ASSUME lastActivity \in 1 .. MaxActivity, lastActivity < MaxActivity,
         lastActivity' = lastActivity + 1
  PROVE  lastActivity' \in 1 .. MaxActivity
BY ConstantsTyped

LEMMA CallStep ==
  ASSUME RunsOK, NotesOK, RestOK, NEW t \in Tools, Call(t)
  PROVE  RunsOK' /\ NotesOK' /\ RestOK'
<1>1. PICK decays \in BOOLEAN, archives \in BOOLEAN :
        run' = [run EXCEPT ![t] = Begun(decays, archives)]
  BY DEF Call
<1>2. Begun(decays, archives) \in Run /\ RunOK(Begun(decays, archives))
  BY BegunTyped DEF RestOK
<1>3. RunsOK'
  BY <1>1, <1>2, RunGoes DEF Runs
<1>4. NotesOK'
  BY NotesKept DEF Call
<1>5. lastActivity' \in 1 .. MaxActivity
  BY ActivityCounts DEF Call, MarkActivity, RestOK
<1>6. RestOK'
  BY <1>5, IndexKept DEF Call, MarkActivity, RestOK
<1> QED
  BY <1>3, <1>4, <1>6

\* What a call writes is a note.
LEMMA WritesTyped ==
  ASSUME NEW n \in Note, today \in Days, NEW m \in Rescored(n) \cup Accessed(n)
  PROVE  m \in Note
BY DEF Rescored, Accessed

LEMMA UserReadStep ==
  ASSUME RunsOK, NotesOK, RestOK, NEW u \in Users, NEW p \in Notes, UserRead(u, p)
  PROVE  RunsOK' /\ NotesOK' /\ RestOK'
<1>1. RunsOK'
  BY DEF RunsOK, UserRead
<1>2. NotesOK'
  BY NotesKept DEF UserRead
<1>3. PICK n \in Rescored(notes[p]) \cup Accessed(notes[p]) :
          user' = [user EXCEPT ![u] = [note |-> p, write |-> n]]
  BY DEF UserRead
<1>4. n \in Note
  BY <1>3, WritesTyped DEF NotesOK, RestOK
<1>5. user' \in [Users -> [note : Notes, write : Note] \cup {None}]
  BY <1>3, <1>4 DEF RestOK
<1>6. lastActivity' \in 1 .. MaxActivity
  BY ActivityCounts DEF UserRead, MarkActivity, RestOK
<1>7. RestOK'
  BY <1>5, <1>6, IndexKept DEF UserRead, MarkActivity, RestOK
<1> QED
  BY <1>1, <1>2, <1>7

LEMMA UserWriteStep ==
  ASSUME RunsOK, NotesOK, RestOK, NEW u \in Users, UserWrite(u)
  PROVE  RunsOK' /\ NotesOK' /\ RestOK'
<1> DEFINE p == user[u].note  n == user[u].write
<1>1. p \in Notes /\ n \in Note
  BY DEF UserWrite, RestOK
<1>2. RunsOK'
  BY DEF RunsOK, UserWrite
<1>3. NotesOK' /\ IndexOK' /\ fails' \in 0 .. MaxFails
  <2>1. CASE /\ Put(p, n)
             /\ since' = [since EXCEPT ![p] = n]
             /\ docMeta' \in {[docMeta EXCEPT ![p] = n], docMeta}
             /\ UNCHANGED fails
    <3>1. CooledFrom(n, n)
      BY <1>1, CooledFromItself
    <3> HIDE DEF n, p
    <3>2. NotesOK'
      BY <1>1, <2>1, <3>1, NoteWritten DEF Put
    <3> QED
      BY <1>1, <2>1, <3>2, PutTyped DEF RestOK
  <2>2. CASE Fail /\ UNCHANGED <<notes, index, since>>
    BY <2>2, NotesKept, IndexKept, FailCounts DEF RestOK
  <2> QED
    BY <2>1, <2>2 DEF UserWrite
<1>4. user' \in [Users -> [note : Notes, write : Note] \cup {None}]
  BY DEF UserWrite, RestOK
<1>5. RestOK'
  BY <1>3, <1>4 DEF UserWrite, RestOK, activity
<1> QED
  BY <1>2, <1>3, <1>5

\* The process comes back with nothing running and no call under way.
LEMMA RestartStep ==
  ASSUME RunsOK, NotesOK, RestOK, Restart
  PROVE  RunsOK' /\ NotesOK' /\ RestOK'
<1>1. RunsOK'
  BY IdleTyped DEF Restart, RunsOK
<1>2. NotesOK'
  BY NotesKept DEF Restart
<1>3. lastActivity' \in 1 .. MaxActivity
  BY ActivityCounts DEF Restart, RestOK
<1>4. IndexOK' /\ running' \subseteq Jobs
      /\ user' \in [Users -> [note : Notes, write : Note] \cup {None}]
  BY DEF Restart, NotesOK, IndexOK
<1>5. lastIdleDreamForActivity' \in 0 .. MaxActivity
  BY ConstantsTyped DEF Restart
<1>6. RestOK'
  BY <1>3, <1>4, <1>5 DEF Restart, RestOK
<1> QED
  BY <1>1, <1>2, <1>6

\* A rebuild takes up a note, or stores what it has read.
LEMMA RescanStep ==
  ASSUME RunsOK, NotesOK, RestOK, NEW p \in Notes, Rescan(p) \/ RescanFull(p) \/ StoreFull(p)
  PROVE  RunsOK' /\ NotesOK' /\ RestOK'
<1>1. run' = run /\ notes' = notes /\ since' = since
  BY DEF Rescan, RescanFull, StoreFull
<1>2. RunsOK' /\ NotesOK'
  BY <1>1, NotesKept DEF RunsOK
<1>3. notes[p] \in Note /\ scan[p] \in Note \cup {None}
  BY DEF NotesOK, RestOK, IndexOK
<1>4. IndexOK'
  BY <1>3 DEF Rescan, RescanFull, StoreFull, RestOK, IndexOK
<1>5. fails' \in 0 .. MaxFails
  BY FailCounts DEF Rescan, RescanFull, StoreFull, RestOK
<1>6. RestOK'
  BY <1>4, <1>5 DEF Rescan, RescanFull, StoreFull, RestOK, activity
<1> QED
  BY <1>2, <1>6

\* Time changes nothing that is read.
LEMMA QuietSteps ==
  ASSUME RunsOK, NotesOK, RestOK, NextDay \/ Quiet \/ UNCHANGED vars
  PROVE  RunsOK' /\ NotesOK' /\ RestOK'
<1>1. run' = run /\ notes' = notes /\ since' = since
  BY DEF NextDay, Quiet, vars
<1>2. RunsOK' /\ NotesOK'
  BY <1>1, NotesKept DEF RunsOK
<1>3. CASE NextDay
  <2>1. today' \in Days
    BY <1>3, ConstantsTyped DEF NextDay, RestOK, Days
  <2> QED
    BY <1>2, <1>3, <2>1, IndexKept DEF NextDay, RestOK, activity
<1>4. CASE Quiet
  BY <1>2, <1>4, IndexKept DEF Quiet, RestOK
<1>5. CASE UNCHANGED vars
  BY <1>2, <1>5, IndexKept DEF vars, RestOK, activity
<1> QED
  BY <1>3, <1>4, <1>5

-----------------------------------------------------------------------------
\* Every step keeps the invariant.
LEMMA StepInv == Inv /\ [Next]_vars => Inv'
<1> SUFFICES ASSUME RunsOK, NotesOK, RestOK, [Next]_vars
             PROVE  RunsOK' /\ NotesOK' /\ RestOK'
  BY Parts, PartsAfter
<1>1. ASSUME NEW r \in Runs, Step(r)
      PROVE  RunsOK' /\ NotesOK' /\ RestOK'
  BY <1>1, DecayVisitStep, ArchiveVisitStep, UnreadableStep, DecayWriteStep,
     BeginArchiveStep, ArchiveWriteStep, EndStep DEF Step
<1>2. CASE \E j \in Jobs : Fire(j)
  BY <1>2, FireStep
<1>3. CASE FireIdle
  BY <1>3, FireIdleStep
<1>4. CASE \E t \in Tools : Call(t)
  BY <1>4, CallStep
<1>5. CASE \E u \in Users : UserWrite(u) \/ \E p \in Notes : UserRead(u, p)
  BY <1>5, UserWriteStep, UserReadStep
<1>6. CASE Restart
  BY <1>6, RestartStep
<1>7. CASE NextDay \/ Quiet \/ UNCHANGED vars
  BY <1>7, QuietSteps
<1>8. CASE \E p \in Notes : Rescan(p) \/ RescanFull(p) \/ StoreFull(p)
  BY <1>8, RescanStep
<1> QED
  BY <1>1, <1>2, <1>3, <1>4, <1>5, <1>6, <1>7, <1>8 DEF Next

\* The inductive invariant holds in every reachable state: what a run has read needs the
\* refresh that it is about to write, so that decays add up.
THEOREM Invariant == Spec => []Inv
<1>1. Init => Inv
  BY InitInv, Parts
<1> QED
  BY <1>1, StepInv, PTL DEF Spec

\* Every variable keeps its type: no decay takes the heat of a note below zero
\* (decayMemories).
THEOREM TypeCorrect == Spec => []TypeOK
<1>1. Inv => TypeOK
  BY DEF Inv
<1> QED
  BY <1>1, Invariant, PTL

\* Decay depends on time alone, however many jobs, tools and calls overlap
\* (decayMemories: last_decayed and the etag).
THEOREM DecayByTimeHolds == Spec => []DecayByTime
<1>1. Inv => DecayByTime
  BY DEF Inv
<1> QED
  BY <1>1, Invariant, PTL

-----------------------------------------------------------------------------
(* Bursts of activity and the flags of the jobs.                            *)

\* A job that may not start is under way, or its burst is over: when the server is quiet
\* after a burst without a dream, the idle dream still runs or may fire.
NoBurstIsLost ==
    /\ \A j \in running : run[j].at # "idle"
    /\ quiet /\ dreamt < lastActivity /\ "idle_dream" \in Jobs =>
         "idle_dream" \in running \/ ShouldFireIdleDream

\* The flag of a job is up exactly while its run is under way.
FlagsMatchRuns == \A j \in Jobs : j \in running <=> run[j].at # "idle"

\* A burst is claimed only for a dream that began, and a restart forgets the claim.
ClaimedIsDreamt == lastIdleDreamForActivity \in {0, dreamt}

EdgeInv == FlagsMatchRuns /\ ClaimedIsDreamt

\* A run that visits a candidate goes on.
LEMMA VisitGoesOn ==
  ASSUME TypeOK, NEW r \in Runs, NEW phase \in {"decay", "archive"}, NEW wanted,
         NEW next \in {"cool", "hide"}, Visit(r, phase, wanted, next)
  PROVE  /\ run[r].at # "idle" /\ run'[r].at # "idle"
         /\ \A c \in Runs \ {r} : run'[c] = run[c]
         /\ running' = running
<1>1. run \in [Runs -> Run] /\ run[r] \in Run
  BY DEF TypeOK
<1>2. PICK p \in run[r].todo :
        \/ run' = [run EXCEPT ![r].todo = @ \ {p}, ![r].at = next,
                              ![r].note = p, ![r].read = notes[p]]
        \/ run' = [run EXCEPT ![r].todo = @ \ {p}]
  BY DEF Visit
<1>3. run[r].at # "idle" /\ running' = running
  BY DEF Visit
<1>4. run'[r].at \in {next, run[r].at} /\ \A c \in Runs \ {r} : run'[c] = run[c]
  BY <1>1, <1>2 DEF Run
<1> QED
  BY <1>3, <1>4

\* A run that goes on has its flag as before.
LEMMA GoesOnFlagged ==
  ASSUME TypeOK, FlagsMatchRuns, NEW r \in Runs,
         DecayVisit(r) \/ ArchiveVisit(r) \/ Unreadable(r)
           \/ DecayWrite(r) \/ BeginArchive(r) \/ ArchiveWrite(r)
  PROVE  FlagsMatchRuns'
<1>1. run \in [Runs -> Run] /\ run[r] \in Run
  BY DEF TypeOK
<1>2. /\ run[r].at # "idle" /\ run'[r].at # "idle"
      /\ \A c \in Runs \ {r} : run'[c] = run[c]
      /\ running' = running
  <2>1. CASE DecayVisit(r)
    BY <2>1, VisitGoesOn DEF DecayVisit
  <2>2. CASE ArchiveVisit(r)
    BY <2>2, VisitGoesOn DEF ArchiveVisit
  <2>3. CASE Unreadable(r)
    BY <1>1, <2>3 DEF Unreadable, Run
  <2>4. CASE DecayWrite(r) \/ BeginArchive(r) \/ ArchiveWrite(r)
    BY <1>1, <2>4 DEF DecayWrite, BeginArchive, ArchiveWrite, Walking, Run
  <2> QED
    BY <2>1, <2>2, <2>3, <2>4
<1> QED
  BY <1>2 DEF FlagsMatchRuns, Runs

\* A job that begins raises its flag.
LEMMA BegunFlagged ==
  ASSUME TypeOK, FlagsMatchRuns, NEW j \in Jobs, NEW d, NEW a,
         run' = [run EXCEPT ![j] = Begun(d, a)], running' = running \cup {j}
  PROVE  FlagsMatchRuns'
<1>1. run \in [Runs -> Run] /\ j \in Runs
  BY DEF TypeOK, Runs
<1>2. run'[j].at = "decay" /\ \A c \in Runs \ {j} : run'[c] = run[c]
  BY <1>1 DEF Begun, Idle
<1> QED
  BY <1>2 DEF FlagsMatchRuns, Runs

\* Every step keeps flags and claims.
LEMMA StepEdge == Inv /\ EdgeInv /\ [Next]_vars => EdgeInv'
<1> SUFFICES ASSUME TypeOK, FlagsMatchRuns, ClaimedIsDreamt, [Next]_vars
             PROVE  FlagsMatchRuns' /\ ClaimedIsDreamt'
  BY DEF Inv, EdgeInv
<1>1. ASSUME NEW r \in Runs, Step(r)
      PROVE  FlagsMatchRuns' /\ ClaimedIsDreamt'
  <2>1. ClaimedIsDreamt'
    BY <1>1 DEF Step, DecayVisit, ArchiveVisit, Visit, Unreadable, DecayWrite, BeginArchive,
                ArchiveWrite, End, activity, ClaimedIsDreamt
  <2>2. CASE End(r)
    <3>1. run'[r].at = "idle" /\ (\A c \in Runs \ {r} : run'[c] = run[c])
          /\ running' = running \ {r}
      BY <2>2 DEF End, Ended, Idle, TypeOK
    <3>2. FlagsMatchRuns'
      BY <3>1 DEF FlagsMatchRuns, Runs
    <3> QED
      BY <2>1, <3>2
  <2> QED
    BY <1>1, <2>1, <2>2, GoesOnFlagged DEF Step
<1>2. ASSUME NEW j \in Jobs, Fire(j)
      PROVE  FlagsMatchRuns' /\ ClaimedIsDreamt'
  <2>1. FlagsMatchRuns'
    BY <1>2, BegunFlagged DEF Fire
  <2> QED
    BY <1>2, <2>1 DEF Fire, activity, ClaimedIsDreamt
<1>3. CASE FireIdle
  <2>1. FlagsMatchRuns'
    BY <1>3, BegunFlagged DEF FireIdle
  <2> QED
    BY <1>3, <2>1 DEF FireIdle, ClaimedIsDreamt
<1>4. ASSUME NEW t \in Tools, Call(t)
      PROVE  FlagsMatchRuns' /\ ClaimedIsDreamt'
  <2>1. t \notin Jobs
    BY ConstantsTyped
  <2>2. \A j \in Jobs : run'[j] = run[j]
    BY <1>4, <2>1 DEF Call, TypeOK, Runs
  <2>3. FlagsMatchRuns'
    BY <1>4, <2>2 DEF FlagsMatchRuns, Call
  <2> QED
    BY <1>4, <2>3 DEF Call, MarkActivity, ClaimedIsDreamt
<1>5. ASSUME NEW u \in Users, UserWrite(u) \/ \E p \in Notes : UserRead(u, p)
      PROVE  FlagsMatchRuns' /\ ClaimedIsDreamt'
  BY <1>5 DEF UserWrite, UserRead, MarkActivity, activity, FlagsMatchRuns, ClaimedIsDreamt
<1>6. CASE Restart
  <2>1. \A j \in Jobs : run'[j].at = "idle"
    BY <1>6 DEF Restart, Idle, Runs
  <2> QED
    BY <1>6, <2>1 DEF Restart, FlagsMatchRuns, ClaimedIsDreamt
<1>7. CASE NextDay \/ Quiet \/ UNCHANGED vars
  BY <1>7 DEF NextDay, Quiet, vars, activity, FlagsMatchRuns, ClaimedIsDreamt
<1>8. CASE \E p \in Notes : Rescan(p) \/ RescanFull(p) \/ StoreFull(p)
  BY <1>8 DEF Rescan, RescanFull, StoreFull, activity, FlagsMatchRuns, ClaimedIsDreamt
<1> QED
  BY <1>1, <1>2, <1>3, <1>4, <1>5, <1>6, <1>7, <1>8 DEF Next

\* No burst of activity is lost on the way to its dream, however jobs overlap, fail and are
\* cut off: the safety half of EveryBurstDreams (runJobOnce resets the flag in its finally,
\* and the idle edge is claimed with the dream).
THEOREM BurstsKept == Spec => []NoBurstIsLost
<1>1. Init => EdgeInv
  BY DEF Init, EdgeInv, FlagsMatchRuns, ClaimedIsDreamt, Idle, Runs
<1>2. Inv /\ EdgeInv => NoBurstIsLost
  <2> SUFFICES ASSUME TypeOK, FlagsMatchRuns, ClaimedIsDreamt PROVE NoBurstIsLost
    BY DEF Inv, EdgeInv
  <2>1. lastActivity \in Int /\ 0 < lastActivity
    BY DEF TypeOK
  <2>2. running \subseteq Jobs
    BY DEF TypeOK
  <2>3. \A j \in running : run[j].at # "idle"
    BY <2>2 DEF FlagsMatchRuns
  <2>4. dreamt < lastActivity => lastIdleDreamForActivity < lastActivity
    BY <2>1 DEF ClaimedIsDreamt
  <2> QED
    BY <2>3, <2>4 DEF NoBurstIsLost, ShouldFireIdleDream
<1> QED
  BY <1>1, <1>2, StepEdge, Invariant, PTL DEF Spec
=============================================================================
