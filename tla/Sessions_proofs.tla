---------------------------- MODULE Sessions_proofs ----------------------------
(***************************************************************************)
(* Proofs about the sessions, for any finite set of ids, any number of     *)
(* initialisations at a time, and any caps and times.                      *)
(***************************************************************************)
EXTENDS Sessions, FiniteSetTheorems, TLAPS

Sessionless == [Ids -> Session \cup {None}]

\* What is left of a map of sessions.
LEMMA WithoutKeeps ==
  ASSUME NEW f \in Sessionless, NEW D
  PROVE  /\ Without(f, D) \in Sessionless
         /\ Kept(Without(f, D)) = Kept(f) \ D
         /\ \A s \in Kept(f) \ D : Without(f, D)[s] = f[s]
BY DEF Without, Kept, Sessionless

\* A flush writes sessions that are live or have metadata, and all of them unless
\* the file is full.
LEMMA SaveWrites ==
  ASSUME TypeOK, Save
  PROVE  /\ disk' \in Sessionless
         /\ Kept(disk') \subseteq Kept(live) \cup Kept(meta)
         /\ \A s \in Kept(live) :
               IF s \in Kept(disk') THEN disk'[s] = live[s]
               ELSE Cardinality(Kept(disk')) = MaxPersisted
<1>1. PICK R \in SUBSET Ids : IsNewest(R, Records) /\ disk' = Without(Records, Ids \ R)
  BY DEF Save
<1>2. /\ Records \in Sessionless
      /\ Kept(Records) = Kept(live) \cup Kept(meta)
      /\ \A s \in Kept(live) : Records[s] = live[s]
  BY DEF TypeOK, Records, Kept, Sessionless
<1>3. R \subseteq Kept(Records)
  BY <1>1 DEF IsNewest
<1>4. Kept(disk') = R /\ disk' \in Sessionless /\ \A s \in R : disk'[s] = Records[s]
  BY <1>1, <1>2, <1>3, WithoutKeeps DEF Kept
<1>5. R # Kept(Records) => Cardinality(R) = MaxPersisted
  BY <1>1 DEF IsNewest
<1> QED
  BY <1>2, <1>3, <1>4, <1>5

-----------------------------------------------------------------------------
\* Sessions, metadata and file stay well typed, and no handler leaves metadata of
\* a session that is live or being initialised.
THEOREM TypeCorrect == Spec => []TypeOK
<1>1. Init => TypeOK
  <2> SUFFICES ASSUME Init
               PROVE  TypeOK
    OBVIOUS
  <2>1. Nothing \in Sessionless
    BY DEF Nothing, Sessionless
  <2>2. Kept(meta) = {}
    BY DEF Init, Nothing, Kept
  <2>3. inits \in [Inits -> [id : Ids, calls : Nat] \cup {None}] /\ now \in Nat
    BY DEF Init
  <2>4. dirty \in BOOLEAN /\ deletes \subseteq Ids /\ closed \subseteq Ids
    BY DEF Init
  <2> QED
    BY <2>1, <2>2, <2>3, <2>4 DEF Init, TypeOK, Sessionless
<1>2. TypeOK /\ [Next]_vars => TypeOK'
  <2> SUFFICES ASSUME TypeOK, [Next]_vars
               PROVE  TypeOK'
    OBVIOUS
  <2> USE DEF Sessionless
  <2>1. ASSUME NEW i \in Inits, NEW s \in Ids, InitBegin(i, s)
        PROVE  TypeOK'
    <3>1. [id |-> s, calls |-> IF meta[s] = None THEN 0 ELSE meta[s].calls]
             \in [id : Ids, calls : Nat]
      BY DEF TypeOK, Session
    <3>2. meta' \in Sessionless /\ Kept(meta') = Kept(meta) \ {s}
      BY <2>1, WithoutKeeps DEF InitBegin, TypeOK
    <3> QED
      BY <2>1, <3>1, <3>2 DEF InitBegin, TypeOK, Kept
  <2>2. ASSUME NEW i \in Inits, InitEnd(i)
        PROVE  TypeOK'
    <3>1. PICK V \in SUBSET Ids :
             /\ IsLeastActive(V)
             /\ live' = [Without(live, V) EXCEPT ![inits[i].id] =
                            [last |-> now, calls |-> inits[i].calls]]
             /\ meta' = Without(meta, V)
             /\ closed' = (closed \cup V) \ {inits[i].id}
      BY <2>2 DEF InitEnd
    <3>2. inits[i] \in [id : Ids, calls : Nat]
      BY <2>2 DEF InitEnd, TypeOK
    <3>3. /\ Without(live, V) \in Sessionless /\ Kept(Without(live, V)) = Kept(live) \ V
          /\ meta' \in Sessionless /\ Kept(meta') = Kept(meta) \ V
      BY <3>1, WithoutKeeps DEF TypeOK
    <3>4. /\ live' \in Sessionless
          /\ Kept(live') \subseteq Kept(live) \cup {inits[i].id}
      BY <3>1, <3>2, <3>3 DEF Session, TypeOK, Kept
    <3>5. /\ inits' \in [Inits -> [id : Ids, calls : Nat] \cup {None}]
          /\ \A j \in Inits : inits'[j] # None => inits'[j] = inits[j]
      BY <2>2 DEF InitEnd, TypeOK
    <3>6. inits[i].id \notin Kept(meta)
      BY <2>2 DEF InitEnd, TypeOK
    <3>7. closed' \subseteq Ids /\ dirty' \in BOOLEAN /\ UNCHANGED <<disk, deletes, now>>
      BY <2>2, <3>1 DEF InitEnd, TypeOK
    <3> QED
      BY <3>3, <3>4, <3>5, <3>6, <3>7 DEF TypeOK
  <2>3. ASSUME NEW i \in Inits, InitFails(i)
        PROVE  TypeOK'
    BY <2>3 DEF InitFails, TypeOK, Kept
  <2>4. ASSUME NEW s \in Ids, Request(s)
        PROVE  TypeOK'
    <3>1. live' \in Sessionless /\ Kept(live') = Kept(live)
      BY <2>4, NoneIsNone DEF Request, TypeOK, Session, Kept
    <3> QED
      BY <2>4, <3>1 DEF Request, TypeOK, Kept
  <2>5. ASSUME NEW s \in Ids, ToolCall(s)
        PROVE  TypeOK'
    <3>1. live' \in Sessionless /\ Kept(live') = Kept(live)
      BY <2>5, NoneIsNone DEF ToolCall, TypeOK, Session, Kept
    <3> QED
      BY <2>5, <3>1 DEF ToolCall, TypeOK, Kept
  <2>6. ASSUME NEW s \in Ids, Unknown(s)
        PROVE  TypeOK'
    <3>1. meta' \in Sessionless /\ Kept(meta') = Kept(meta) \ {s}
      BY <2>6, WithoutKeeps DEF Unknown, TypeOK
    <3> QED
      BY <2>6, <3>1 DEF Unknown, TypeOK, Kept
  <2>7. ASSUME NEW D \in SUBSET Ids, live' = Without(live, D), NEW E \in SUBSET Ids,
               Dropped(E), UNCHANGED <<disk, inits, now>>,
               deletes' \subseteq Ids, closed' \subseteq Ids
        PROVE  TypeOK'
    <3>1. /\ live' \in Sessionless /\ Kept(live') = Kept(live) \ D
          /\ meta' \in Sessionless /\ Kept(meta') = Kept(meta) \ E
      BY <2>7, WithoutKeeps DEF Dropped, TypeOK
    <3> QED
      BY <2>7, <3>1 DEF Dropped, TypeOK, Kept
  <2>8. ASSUME NEW s \in Ids, DeleteBegin(s) \/ DeleteEnd(s) \/ Kill(s)
        PROVE  TypeOK'
    <3>1. CASE UNCHANGED <<live, meta, dirty, closed>> /\ DeleteBegin(s)
      BY <3>1 DEF DeleteBegin, TypeOK, Kept
    <3>2. CASE ~(UNCHANGED <<live, meta, dirty, closed>> /\ DeleteBegin(s))
      <4>1. /\ live' = Without(live, {s}) /\ Dropped({s})
            /\ UNCHANGED <<disk, inits, now>>
            /\ deletes' \subseteq Ids /\ closed' \subseteq Ids
        BY <2>8, <3>2 DEF DeleteBegin, DeleteEnd, Kill, TypeOK
      <4> QED
        BY <4>1, <2>7
    <3> QED
      BY <3>1, <3>2
  <2>9. CASE Cleanup
    BY <2>9, <2>7 DEF Cleanup, Kept, TypeOK
  <2>10. CASE Flush
    BY <2>10, SaveWrites DEF Flush, TypeOK, Kept
  <2>11. CASE Restart
    <3>1. disk' \in Sessionless
      BY <2>11, SaveWrites DEF Restart, TypeOK
    <3>2. live' \in Sessionless /\ Kept(live') = {}
      BY <2>11 DEF Restart, Nothing, Kept
    <3>3. meta' \in Sessionless
      BY <2>11, <3>1 DEF Restart
    <3>4. \A i \in Inits : inits'[i] = None
      BY <2>11 DEF Restart
    <3>5. /\ inits' \in [Inits -> [id : Ids, calls : Nat] \cup {None}]
          /\ dirty' \in BOOLEAN /\ deletes' \subseteq Ids /\ closed' \subseteq Ids
          /\ now' \in Nat
      BY <2>11 DEF Restart, TypeOK
    <3> QED
      BY <3>1, <3>2, <3>3, <3>4, <3>5 DEF TypeOK
  <2>12. CASE Tick
    BY <2>12 DEF Tick, TypeOK, Kept
  <2>13. CASE UNCHANGED vars
    BY <2>13 DEF vars, TypeOK, Kept
  <2> QED
    BY <2>1, <2>2, <2>3, <2>4, <2>5, <2>6, <2>8, <2>9, <2>10, <2>11, <2>12, <2>13 DEF Next
<1> QED
  BY <1>1, <1>2, PTL DEF Spec

-----------------------------------------------------------------------------
\* Every step but the end of an initialisation at most takes sessions away.
LEMMA LiveSteps ==
  ASSUME TypeOK, [Next]_vars
  PROVE  \/ Kept(live') \subseteq Kept(live)
         \/ \E i \in Inits : InitEnd(i)
<1>1. ASSUME NEW s \in Ids, Request(s) \/ ToolCall(s)
      PROVE  Kept(live') \subseteq Kept(live)
  BY <1>1 DEF Request, ToolCall, Kept, TypeOK
<1>2. ASSUME NEW D, live' = Without(live, D)
      PROVE  Kept(live') \subseteq Kept(live)
  BY <1>2 DEF Without, Kept
<1>3. ASSUME NEW s \in Ids, DeleteBegin(s) \/ DeleteEnd(s) \/ Kill(s)
      PROVE  Kept(live') \subseteq Kept(live)
  <2>1. live' = live \/ live' = Without(live, {s})
    BY <1>3 DEF DeleteBegin, DeleteEnd, Kill
  <2> QED
    BY <2>1, <1>2 DEF Kept
<1>4. CASE Cleanup
  BY <1>4, <1>2 DEF Cleanup
<1>5. CASE Restart
  BY <1>5 DEF Restart, Nothing, Kept
<1>6. ASSUME UNCHANGED live
      PROVE  Kept(live') \subseteq Kept(live)
  BY <1>6 DEF Kept
<1> QED
  BY <1>1, <1>3, <1>4, <1>5, <1>6
     DEF Next, InitBegin, InitFails, Unknown, Flush, Tick, vars

\* What taking some elements out and putting one in does to a cardinality.
LEMMA SwapCardinality ==
  ASSUME NEW S, IsFiniteSet(S), NEW V \in SUBSET S, NEW x
  PROVE  /\ IsFiniteSet((S \ V) \cup {x}) /\ Cardinality((S \ V) \cup {x}) \in Nat
         /\ Cardinality((S \ V) \cup {x}) <= Cardinality(S) - Cardinality(V) + 1
<1> DEFINE R == S \ V
<1>1. S \cap V = V
  OBVIOUS
<1>2. IsFiniteSet(R) /\ Cardinality(R) = Cardinality(S) - Cardinality(V)
  BY <1>1, FS_Difference
<1>3. Cardinality(R) \in Nat
  BY <1>2, FS_CardinalityType
<1> HIDE DEF R
<1>4. /\ IsFiniteSet(R \cup {x})
      /\ Cardinality(R \cup {x}) = IF x \in R THEN Cardinality(R) ELSE Cardinality(R) + 1
  BY <1>2, FS_AddElement
<1>5. Cardinality(R \cup {x}) \in Nat
  BY <1>4, FS_CardinalityType
<1>6. Cardinality(R \cup {x}) <= Cardinality(S) - Cardinality(V) + 1
  BY <1>2, <1>3, <1>4
<1> QED
  BY <1>4, <1>5, <1>6 DEF R

\* The cap on live sessions holds whatever number of initialisations end, in any
\* order, because each of them makes room in the step that stores its session.
THEOREM CapHeldHolds == Spec => []CapHeld
<1>1. Init => CapHeld
  <2>1. Init => Kept(live) = {}
    BY DEF Init, Nothing, Kept
  <2> QED
    BY <2>1, FS_EmptySet, LimitsAreNatural DEF CapHeld
<1>2. TypeOK /\ CapHeld /\ [Next]_vars => CapHeld'
  <2> SUFFICES ASSUME TypeOK, CapHeld, [Next]_vars, MaxActive > 0
               PROVE  Cardinality(Kept(live')) <= MaxActive
    BY DEF CapHeld
  <2>1. IsFiniteSet(Kept(live)) /\ Cardinality(Kept(live)) \in Nat
    BY IdsAreFinite, FS_Subset, FS_CardinalityType DEF Kept
  <2>2. CASE Kept(live') \subseteq Kept(live)
    <3>1. Cardinality(Kept(live')) <= Cardinality(Kept(live)) /\ IsFiniteSet(Kept(live'))
      BY <2>1, <2>2, FS_Subset
    <3>2. Cardinality(Kept(live')) \in Nat
      BY <3>1, FS_CardinalityType
    <3> QED
      BY <2>1, <3>1, <3>2, LimitsAreNatural DEF CapHeld
  <2>3. ASSUME NEW i \in Inits, InitEnd(i)
        PROVE  Cardinality(Kept(live')) <= MaxActive
    <3> DEFINE s == inits[i].id
    <3>1. PICK V \in SUBSET Ids :
             /\ IsLeastActive(V)
             /\ live' = [Without(live, V) EXCEPT ![s] = [last |-> now, calls |-> inits[i].calls]]
      BY <2>3 DEF InitEnd
    <3> DEFINE rest == Kept(live) \ V
    <3>2. Kept(live') \subseteq rest \cup {s}
      <4>1. /\ Without(live, V) \in Sessionless
            /\ Kept(Without(live, V)) = rest
        BY WithoutKeeps DEF TypeOK, Sessionless
      <4>2. \A t \in Ids \ {s} : live'[t] = Without(live, V)[t]
        BY <3>1, <4>1 DEF Sessionless
      <4> QED
        BY <4>1, <4>2 DEF Kept
    <3>3. V \subseteq Kept(live)
      BY <3>1 DEF IsLeastActive
    <3>4. Cardinality(V) = IF Cardinality(Kept(live)) + 1 - MaxActive > 0
                           THEN Cardinality(Kept(live)) + 1 - MaxActive ELSE 0
      BY <3>1, LimitsAreNatural DEF IsLeastActive
    <3>5. /\ IsFiniteSet(rest \cup {s}) /\ Cardinality(rest \cup {s}) \in Nat
          /\ Cardinality(rest \cup {s}) <= Cardinality(Kept(live)) - Cardinality(V) + 1
      BY <2>1, <3>3, SwapCardinality
    <3>6. Cardinality(rest \cup {s}) <= MaxActive
      BY <2>1, <3>4, <3>5, LimitsAreNatural
    <3>7. IsFiniteSet(Kept(live')) /\ Cardinality(Kept(live')) <= Cardinality(rest \cup {s})
      BY <3>2, <3>5, FS_Subset
    <3>8. Cardinality(Kept(live')) \in Nat
      BY <3>7, FS_CardinalityType
    <3> QED
      BY <3>5, <3>6, <3>7, <3>8, LimitsAreNatural
  <2> QED
    BY <2>2, <2>3, LiveSteps
<1> QED
  BY <1>1, <1>2, TypeCorrect, PTL DEF Spec

-----------------------------------------------------------------------------
\* A closed session is neither live nor known from before the restart.
ClosedGone == closed \cap (Kept(live) \cup Kept(meta)) = {}

\* A step either leaves the sessions and the file alone, or flushes, or restarts,
\* or takes closed sessions away, or ends an initialisation.
LEMMA ClosedSteps ==
  ASSUME TypeOK, [Next]_vars
  PROVE  \/ /\ UNCHANGED <<disk, dirty, closed>>
            /\ Kept(live') = Kept(live) /\ Kept(meta') \subseteq Kept(meta)
            /\ \A s \in Kept(live) : live'[s].calls = live[s].calls
         \/ Flush
         \/ Restart
         \/ /\ dirty' = TRUE
            /\ Kept(live') \subseteq Kept(live) /\ Kept(meta') \subseteq Kept(meta)
            /\ closed' \subseteq closed \cup (Ids \ (Kept(live') \cup Kept(meta')))
         \/ \E i \in Inits : InitEnd(i)
<1>1. ASSUME NEW s \in Ids, Request(s)
      PROVE  /\ UNCHANGED <<disk, dirty, closed, meta>> /\ Kept(live') = Kept(live)
             /\ \A t \in Kept(live) : live'[t].calls = live[t].calls
  BY <1>1, NoneIsNone DEF Request, Kept, TypeOK, Session
<1>2. ASSUME NEW s \in Ids, ToolCall(s)
      PROVE  /\ UNCHANGED <<closed, meta>> /\ dirty' = TRUE /\ Kept(live') \subseteq Kept(live)
  BY <1>2 DEF ToolCall, Kept, TypeOK
<1>3. ASSUME NEW s \in Ids, Unknown(s)
      PROVE  /\ UNCHANGED <<closed, live>> /\ dirty' = TRUE /\ Kept(meta') \subseteq Kept(meta)
  BY <1>3 DEF Unknown, Without, Kept
<1>4. ASSUME NEW D \in SUBSET Ids, live' = Without(live, D), NEW E \in SUBSET Ids, Dropped(E),
             E # {}, D \subseteq E, closed' = closed \cup D
      PROVE  /\ dirty' = TRUE
             /\ Kept(live') \subseteq Kept(live) /\ Kept(meta') \subseteq Kept(meta)
             /\ closed' \subseteq closed \cup (Ids \ (Kept(live') \cup Kept(meta')))
  <2>1. dirty' = TRUE
    BY <1>4 DEF Dropped
  <2>2. /\ Kept(live') = Kept(live) \ D /\ Kept(meta') = Kept(meta) \ E
    BY <1>4, WithoutKeeps DEF Dropped, TypeOK, Sessionless
  <2> QED
    BY <1>4, <2>1, <2>2
<1>5. ASSUME NEW s \in Ids, DeleteBegin(s) \/ DeleteEnd(s) \/ Kill(s)
      PROVE  \/ UNCHANGED <<disk, live, meta, dirty, closed>>
             \/ /\ live' = Without(live, {s}) /\ Dropped({s}) /\ closed' = closed \cup {s}
  BY <1>5 DEF DeleteBegin, DeleteEnd, Kill
<1>6. CASE Cleanup
  <2> DEFINE idle == {s \in Kept(live) : Timeout > 0 /\ now - live[s].last > Timeout}
             old == {s \in Kept(meta) : now - meta[s].last > Retention}
  <2>1. idle \in SUBSET Ids /\ idle \cup old \in SUBSET Ids
    BY DEF Kept
  <2>2. /\ live' = Without(live, idle) /\ Dropped(idle \cup old)
        /\ idle \cup old # {} /\ closed' = closed \cup idle
    BY <1>6 DEF Cleanup
  <2> HIDE DEF idle, old
  <2> QED
    BY <1>4, <2>1, <2>2
<1>7. ASSUME NEW i \in Inits, NEW s \in Ids, InitBegin(i, s)
      PROVE  UNCHANGED <<disk, live, dirty, closed>> /\ Kept(meta') \subseteq Kept(meta)
  BY <1>7 DEF InitBegin, Without, Kept
<1>8. ASSUME UNCHANGED <<disk, live, dirty, closed>>, Kept(meta') \subseteq Kept(meta)
      PROVE  /\ Kept(live') = Kept(live) /\ Kept(meta') \subseteq Kept(meta)
             /\ \A s \in Kept(live) : live'[s].calls = live[s].calls
  BY <1>8 DEF Kept
<1>9. ASSUME UNCHANGED meta
      PROVE  Kept(meta') = Kept(meta)
  BY <1>9 DEF Kept
<1>10. ASSUME UNCHANGED live
       PROVE  Kept(live') = Kept(live)
  BY <1>10 DEF Kept
<1>11. ASSUME NEW s \in Ids, DeleteBegin(s) \/ DeleteEnd(s) \/ Kill(s)
       PROVE  \/ UNCHANGED <<disk, live, meta, dirty, closed>>
              \/ /\ dirty' = TRUE
                 /\ Kept(live') \subseteq Kept(live) /\ Kept(meta') \subseteq Kept(meta)
                 /\ closed' \subseteq closed \cup (Ids \ (Kept(live') \cup Kept(meta')))
  <2>1. {s} \in SUBSET Ids /\ {s} # {} /\ {s} \subseteq {s}
    OBVIOUS
  <2> QED
    BY <1>5, <1>11, <1>4, <2>1
<1>12. CASE UNCHANGED <<disk, live, meta, dirty, closed>>
  BY <1>8, <1>9, <1>12
<1> QED
  BY <1>1, <1>2, <1>3, <1>6, <1>7, <1>8, <1>9, <1>10, <1>11, <1>12
     DEF Next, InitFails, Tick, vars

\* Once a flush has followed the close of a session, its record is out of the file
\* for good, unless the client initialises it again.
THEOREM ClosedForgottenHolds == Spec => []ClosedForgotten
<1> DEFINE IInv == ClosedGone /\ ClosedForgotten
<1>1. Init => IInv
  BY DEF Init, ClosedGone, ClosedForgotten
<1>2. TypeOK /\ IInv /\ [Next]_vars => IInv'
  <2> SUFFICES ASSUME TypeOK, ClosedGone, ClosedForgotten, [Next]_vars
               PROVE  ClosedGone' /\ ClosedForgotten'
    OBVIOUS
  <2>1. CASE UNCHANGED <<disk, dirty, closed>> /\ Kept(live') = Kept(live)
             /\ Kept(meta') \subseteq Kept(meta)
    BY <2>1 DEF ClosedGone, ClosedForgotten, Kept
  <2>2. CASE Flush
    BY <2>2, SaveWrites DEF Flush, ClosedGone, ClosedForgotten, Kept
  <2>3. CASE Restart
    BY <2>3 DEF Restart, ClosedGone, ClosedForgotten
  <2>4. CASE /\ dirty' = TRUE
             /\ Kept(live') \subseteq Kept(live) /\ Kept(meta') \subseteq Kept(meta)
             /\ closed' \subseteq closed \cup (Ids \ (Kept(live') \cup Kept(meta')))
    BY <2>4 DEF ClosedGone, ClosedForgotten
  <2>5. ASSUME NEW i \in Inits, InitEnd(i)
        PROVE  ClosedGone' /\ ClosedForgotten'
    <3> DEFINE s == inits[i].id
    <3>1. PICK V \in SUBSET Ids :
             /\ live' = [Without(live, V) EXCEPT ![s] = [last |-> now, calls |-> inits[i].calls]]
             /\ meta' = Without(meta, V)
             /\ closed' = (closed \cup V) \ {s}
      BY <2>5 DEF InitEnd
    <3>2. /\ Without(live, V) \in Sessionless /\ Kept(Without(live, V)) = Kept(live) \ V
          /\ Kept(meta') = Kept(meta) \ V
      BY <3>1, WithoutKeeps DEF TypeOK, Sessionless
    <3>3. Kept(live') \subseteq (Kept(live) \ V) \cup {s}
      <4>1. \A t \in Ids \ {s} : live'[t] = Without(live, V)[t]
        BY <3>1, <3>2 DEF Sessionless
      <4> QED
        BY <3>2, <4>1 DEF Kept
    <3>4. s \notin Kept(meta)
      BY <2>5 DEF InitEnd, TypeOK
    <3> QED
      BY <2>5, <3>1, <3>2, <3>3, <3>4 DEF InitEnd, ClosedGone, ClosedForgotten
  <2> QED
    BY <2>1, <2>2, <2>3, <2>4, <2>5, ClosedSteps
<1> QED
  BY <1>1, <1>2, TypeCorrect, PTL DEF Spec

\* With nothing left to flush, the file has the history of every live session, or
\* is full of others.
THEOREM CallsFlushedHolds == Spec => []CallsFlushed
<1>1. Init => CallsFlushed
  BY DEF Init, CallsFlushed, Nothing, Kept
<1>2. TypeOK /\ CallsFlushed /\ [Next]_vars => CallsFlushed'
  <2> SUFFICES ASSUME TypeOK, CallsFlushed, [Next]_vars
               PROVE  CallsFlushed'
    OBVIOUS
  <2>1. CASE /\ UNCHANGED <<disk, dirty, closed>> /\ Kept(live') = Kept(live)
             /\ \A s \in Kept(live) : live'[s].calls = live[s].calls
    BY <2>1 DEF CallsFlushed, Kept
  <2>2. CASE Flush
    <3>1. UNCHANGED live /\ Save
      BY <2>2 DEF Flush
    <3> QED
      BY <3>1, SaveWrites DEF CallsFlushed, Kept
  <2>3. CASE Restart
    BY <2>3 DEF Restart, CallsFlushed, Nothing, Kept
  <2>4. CASE dirty' = TRUE
    BY <2>4 DEF CallsFlushed
  <2>5. ASSUME NEW i \in Inits, InitEnd(i)
        PROVE  CallsFlushed'
    BY <2>5 DEF InitEnd, CallsFlushed
  <2> QED
    BY <2>1, <2>2, <2>3, <2>4, <2>5, ClosedSteps
<1> QED
  BY <1>1, <1>2, TypeCorrect, PTL DEF Spec
=============================================================================
