------------------------ MODULE KnowledgeGraph_proofs ------------------------
(***************************************************************************)
(* Proofs about the knowledge graph, for any keys, objects, times, sources *)
(* and any number of rows.                                                 *)
(***************************************************************************)
EXTENDS KnowledgeGraph, TLAPS

\* A new row and a closed one are rows.
LEMMA RowUpdates ==
  /\ \A id \in Ids, t \in Times, s \in Sources, old \in Ids \cup {None} :
        LET y == NewRow(id, t, s, old)
        IN  y \in Row /\ y.id = id /\ IsOpen(y) /\ y.from = t /\ y.by = None
  /\ \A x \in Row, t \in Times, id \in Ids :
        LET y == Closed(x, t, id)
        IN  /\ y \in Row /\ y.id = x.id /\ ~IsOpen(y) /\ y.from = x.from
            /\ y.to = t /\ y.by = id
  /\ \A x \in Row, t \in Times :
        LET y == [x EXCEPT !.to = t]
        IN  /\ y \in Row /\ y.id = x.id /\ ~IsOpen(y) /\ y.from = x.from
            /\ y.to = t /\ y.by = x.by
BY TimesAreNumbers DEF NewRow, Closed, Row, IsOpen

\* The id of a row that kgSupersede inserts is an id of the fact.
LEMMA IntervalIds ==
  ASSUME NEW k \in Keys, NEW o \in Objects, NEW t \in Times, NEW s \in Sources
  PROVE  /\ IntervalId(k, o, t, s) \in Ids
         /\ IntervalId(k, o, t, s)[1] = k
         /\ IntervalId(k, o, t, s)[2] = o
BY DEF IntervalId, Ids

-----------------------------------------------------------------------------
\* A supersession by the row of id: it closes the rivals, and N is empty when the
\* fact had an open row or else holds the row it opens.
Superseded(k, o, t, s, id, N) ==
    /\ id \in Ids /\ id[1] = k /\ id[2] = o
    /\ triples' = (triples \ Rivals(k, o)) \cup {Closed(y, t, id) : y \in Rivals(k, o)} \cup N
    /\ evidence' = evidence \cup {<<id, s>>}
    /\ \/ N = {} /\ \E x \in triples : x.id = id /\ IsOpen(x)
       \/ /\ \E old \in Ids \cup {None} : N = {NewRow(id, t, s, old)}
          /\ id \notin {x.id : x \in triples}
          /\ \A x \in RowsOf(k, o) : ~IsOpen(x)

\* Both branches of kgSupersede are a supersession by the row of some id.
LEMMA SupersedeCases ==
  ASSUME TypeOK, NEW k \in Keys, NEW o \in Objects, NEW t \in Times, NEW s \in Sources,
         Supersede(k, o, t, s)
  PROVE  \E id, N : Superseded(k, o, t, s, id, N)
<1> DEFINE new == IntervalId(k, o, t, s)
           rivals == Rivals(k, o)
<1>0. \A x \in triples : x.id \in Ids
  BY DEF TypeOK, Row
<1>1. ASSUME NEW x \in RowsOf(k, o), IsOpen(x),
             triples' = (triples \ rivals) \cup {Closed(y, t, x.id) : y \in rivals},
             evidence' = evidence \cup {<<x.id, s>>}
      PROVE  Superseded(k, o, t, s, x.id, {})
  BY <1>0, <1>1 DEF Superseded, RowsOf, KeyOf, ObjectOf
<1>2. ASSUME \A x \in RowsOf(k, o) : ~IsOpen(x),
             new \notin {x.id : x \in triples},
             NEW old \in IF rivals = {} THEN {None} ELSE {x.id : x \in rivals},
             triples' = (triples \ rivals) \cup {Closed(y, t, new) : y \in rivals}
                           \cup {NewRow(new, t, s, old)},
             evidence' = evidence \cup {<<new, s>>}
      PROVE  Superseded(k, o, t, s, new, {NewRow(new, t, s, old)})
  <2>1. old \in Ids \cup {None}
    BY <1>0 DEF Rivals
  <2> QED
    BY <1>2, <2>1, IntervalIds DEF Superseded
<1> QED
  BY <1>1, <1>2 DEF Supersede

-----------------------------------------------------------------------------
\* What every step but Recreate does to the rows: u closes some open rows and
\* keeps the others, N holds at most one new row, open and of a fresh id, whose
\* fact has no open row.
RowStep(u, N) ==
    /\ u \in [triples -> Row]
    /\ \A x \in triples :
          u[x] = x \/ (/\ IsOpen(x) /\ ~IsOpen(u[x])
                       /\ u[x] = [x EXCEPT !.to = u[x].to, !.by = u[x].by])
    /\ \A y \in N : y \in Row /\ IsOpen(y) /\ y.by = None
    /\ \A y, z \in N : y = z
    /\ \A y \in N, x \in triples :
          /\ y.id # x.id
          /\ KeyOf(x) = KeyOf(y) /\ ObjectOf(x) = ObjectOf(y) => ~IsOpen(x)
    /\ triples' = {u[x] : x \in triples} \cup N
    /\ evidence' \subseteq evidence \cup ({x.id : x \in triples'} \X Sources)

\* A supersession only closes open rows and opens at most one.
LEMMA SupersededRows ==
  ASSUME TypeOK, NEW k \in Keys, NEW o \in Objects, NEW t \in Times, NEW s \in Sources,
         NEW id, NEW N, Superseded(k, o, t, s, id, N)
  PROVE  \E u : RowStep(u, N)
<1> DEFINE rivals == Rivals(k, o)
           u == [x \in triples |-> IF x \in rivals THEN Closed(x, t, id) ELSE x]
<1>0. \A x \in triples : x \in Row
  BY DEF TypeOK
<1>1. u \in [triples -> Row]
  BY <1>0, RowUpdates DEF Superseded
<1>2. ASSUME NEW x \in triples
      PROVE  u[x] = x \/ (/\ IsOpen(x) /\ ~IsOpen(u[x])
                          /\ u[x] = [x EXCEPT !.to = u[x].to, !.by = u[x].by])
  <2>1. CASE x \in rivals
    <3>1. u[x] = Closed(x, t, id) /\ IsOpen(x)
      BY <2>1 DEF Rivals
    <3>2. Closed(x, t, id).to = t /\ Closed(x, t, id).by = id /\ ~IsOpen(Closed(x, t, id))
      BY <1>0, RowUpdates DEF Superseded
    <3> QED
      BY <3>1, <3>2 DEF Closed
  <2> QED
    BY <2>1
<1>3. \A y \in N : y \in Row /\ IsOpen(y) /\ y.by = None /\ y.id = id
  BY RowUpdates DEF Superseded
<1>4. \A y, z \in N : y = z
  BY DEF Superseded
<1>5. \A y \in N, x \in triples :
         /\ y.id # x.id
         /\ KeyOf(x) = KeyOf(y) /\ ObjectOf(x) = ObjectOf(y) => ~IsOpen(x)
  BY <1>3 DEF Superseded, RowsOf, KeyOf, ObjectOf
<1>6. triples' = {u[x] : x \in triples} \cup N
  BY DEF Superseded, Rivals
<1>7. evidence' \subseteq evidence \cup ({x.id : x \in triples'} \X Sources)
  <2>1. \E x \in triples' : x.id = id
    <3>1. CASE N = {} /\ \E x \in triples : x.id = id /\ IsOpen(x)
      <4>1. PICK x \in triples : x.id = id
        BY <3>1
      <4>2. x \notin rivals
        BY <4>1 DEF Rivals, ObjectOf, Superseded
      <4> QED
        BY <4>1, <4>2 DEF Superseded
    <3>2. CASE \E old \in Ids \cup {None} : N = {NewRow(id, t, s, old)}
      BY <3>2, <1>3, <1>6
    <3> QED
      BY <3>1, <3>2 DEF Superseded
  <2> QED
    BY <2>1 DEF Superseded
<1> QED
  BY <1>1, <1>2, <1>3, <1>4, <1>5, <1>6, <1>7 DEF RowStep

\* Every step is a RowStep, except that kgRepair may empty the graph.
LEMMA NextRows ==
  ASSUME TypeOK, [Next]_vars
  PROVE  (triples' = {} /\ evidence' = {}) \/ \E u, N : RowStep(u, N)
<1> DEFINE same == [x \in triples |-> x]
<1>0. \A x \in triples : x \in Row
  BY DEF TypeOK
<1>1. ASSUME triples' = triples,
             evidence' \subseteq evidence \cup ({x.id : x \in triples} \X Sources)
      PROVE  RowStep(same, {})
  <2>1. same \in [triples -> Row] /\ {same[x] : x \in triples} = triples
    BY <1>0
  <2> QED
    BY <1>1, <2>1 DEF RowStep
<1>2. ASSUME NEW k \in Keys, NEW o \in Objects, NEW t \in Times, NEW s \in Sources,
             Add(k, o, t, s)
      PROVE  \E u, N : RowStep(u, N)
  <2> DEFINE new == NewRow(<<k, o, First>>, t, s, None)
  <2>1. CASE RowsOf(k, o) = {}
    <3>1. /\ new \in Row /\ IsOpen(new) /\ new.by = None /\ new.id = <<k, o, First>>
          /\ KeyOf(new) = k /\ ObjectOf(new) = o
      BY RowUpdates DEF Ids, KeyOf, ObjectOf
    <3>2. \A x \in triples : ~(KeyOf(x) = k /\ ObjectOf(x) = o)
      BY <2>1 DEF RowsOf
    <3>3. \A x \in triples : new.id # x.id
      BY <3>1, <3>2 DEF KeyOf, ObjectOf
    <3>4. same \in [triples -> Row] /\ {same[x] : x \in triples} = triples
      BY <1>0
    <3>5. triples' = triples \cup {new} /\ evidence' = evidence \cup {<<new.id, s>>}
      BY <1>2, <2>1, <3>1 DEF Add
    <3>6. \A y \in {new}, x \in triples :
             /\ y.id # x.id
             /\ KeyOf(x) = KeyOf(y) /\ ObjectOf(x) = ObjectOf(y) => ~IsOpen(x)
      BY <3>1, <3>2, <3>3
    <3>7. evidence' \subseteq evidence \cup ({x.id : x \in triples'} \X Sources)
      BY <3>5
    <3>8. \A y \in {new} : y \in Row /\ IsOpen(y) /\ y.by = None
      BY <3>1
    <3>9. triples' = {same[x] : x \in triples} \cup {new}
      BY <3>4, <3>5
    <3>10. RowStep(same, {new})
      <4> HIDE DEF new
      <4> QED
        BY <3>4, <3>6, <3>7, <3>8, <3>9 DEF RowStep
    <3> QED
      BY <3>10
  <2>2. CASE RowsOf(k, o) # {}
    BY <1>1, <1>2, <2>2 DEF Add, RowsOf
  <2> QED
    BY <2>1, <2>2
<1>3. ASSUME NEW k \in Keys, NEW o \in Objects, NEW t \in Times, NEW s \in Sources,
             Supersede(k, o, t, s)
      PROVE  \E u, N : RowStep(u, N)
  BY <1>3, SupersedeCases, SupersededRows
<1>4. ASSUME NEW k \in Keys, NEW o \in Objects, NEW t \in Times, Invalidate(k, o, t)
      PROVE  \E u, N : RowStep(u, N)
  <2> DEFINE ended(x) == x \in RowsOf(k, o) /\ IsOpen(x)
             u == [x \in triples |-> IF ended(x) THEN [x EXCEPT !.to = t] ELSE x]
  <2>1. u \in [triples -> Row]
    BY <1>0, RowUpdates
  <2>2. ASSUME NEW x \in triples
        PROVE  u[x] = x \/ (/\ IsOpen(x) /\ ~IsOpen(u[x])
                            /\ u[x] = [x EXCEPT !.to = u[x].to, !.by = u[x].by])
    <3>1. CASE ended(x)
      <4> DEFINE y == [x EXCEPT !.to = t]
      <4>1. u[x] = y /\ IsOpen(x)
        BY <3>1
      <4>2. ~IsOpen(y) /\ y.by = x.by /\ y.to = t
        BY <1>0, RowUpdates
      <4>3. y = [x EXCEPT !.to = t, !.by = x.by]
        BY <1>0 DEF Row
      <4> QED
        BY <4>1, <4>2, <4>3
    <3> QED
      BY <3>1
  <2>3. triples' = {u[x] : x \in triples} \cup {} /\ evidence' = evidence
    BY <1>4 DEF Invalidate
  <2>4. RowStep(u, {})
    BY <2>1, <2>2, <2>3 DEF RowStep
  <2> QED
    BY <2>4
<1>5. CASE Recreate
  BY <1>5 DEF Recreate
<1>6. CASE UNCHANGED vars
  BY <1>1, <1>6 DEF vars
<1> QED
  BY <1>2, <1>3, <1>4, <1>5, <1>6 DEF Next
-----------------------------------------------------------------------------
\* The parts of a RowStep that most proofs need, without the columns of a row.
LEMMA RowStepParts ==
  ASSUME NEW u, NEW N, RowStep(u, N)
  PROVE  /\ \A x \in triples : u[x] \in Row
         /\ \A x \in triples : u[x] = x \/ (IsOpen(x) /\ ~IsOpen(u[x]))
         /\ \A y \in N : y \in Row /\ IsOpen(y) /\ y.by = None
         /\ \A y, z \in N : y = z
         /\ \A y \in N, x \in triples :
               /\ y.id # x.id
               /\ KeyOf(x) = KeyOf(y) /\ ObjectOf(x) = ObjectOf(y) => ~IsOpen(x)
         /\ triples' = {u[x] : x \in triples} \cup N
         /\ evidence' \subseteq evidence \cup ({x.id : x \in triples'} \X Sources)
BY DEF RowStep

\* A RowStep keeps the ids of the rows.
LEMMA RowStepIds ==
  ASSUME TypeOK, NEW u, NEW N, RowStep(u, N), NEW x \in triples
  PROVE  u[x].id = x.id
<1>1. CASE u[x] = x
  BY <1>1
<1>2. CASE u[x] = [x EXCEPT !.to = u[x].to, !.by = u[x].by]
  <2>1. x \in Row
    BY DEF TypeOK
  <2>2. \A p, q : [x EXCEPT !.to = p, !.by = q].id = x.id
    BY <2>1 DEF Row
  <2> QED
    BY <1>2, <2>2
<1>3. u[x] = x \/ u[x] = [x EXCEPT !.to = u[x].to, !.by = u[x].by]
  BY DEF RowStep
<1> QED
  BY <1>1, <1>2, <1>3

\* A RowStep keeps the rows typed, their ids unique and the evidence anchored.
LEMMA NextTypeOK == TypeOK /\ [Next]_vars => TypeOK'
<1> SUFFICES ASSUME TypeOK, [Next]_vars PROVE TypeOK'
  OBVIOUS
<1>1. CASE triples' = {} /\ evidence' = {}
  BY <1>1 DEF TypeOK
<1>2. ASSUME NEW u, NEW N, RowStep(u, N) PROVE TypeOK'
  <2>0. \A x \in triples : x \in Row
    BY DEF TypeOK
  <2>1. triples' \subseteq Row
    BY <1>2, RowStepParts
  <2>2. \A x \in triples : u[x].id = x.id
    BY <1>2, RowStepIds
  <2>3. ASSUME NEW a \in triples', NEW b \in triples', a.id = b.id PROVE a = b
    <3>1. CASE a \in N \/ b \in N
      <4>1. \A y, z \in N : y = z
        BY <1>2, RowStepParts
      <4>2. \A y \in N, x \in triples : y.id # x.id
        BY <1>2, RowStepParts
      <4>3. triples' = {u[x] : x \in triples} \cup N
        BY <1>2, RowStepParts
      <4> QED
        BY <2>2, <2>3, <3>1, <4>1, <4>2, <4>3
    <3>2. CASE a \notin N /\ b \notin N
      <4>1. PICK x \in triples, y \in triples : a = u[x] /\ b = u[y]
        BY <1>2, <3>2, RowStepParts
      <4>2. x.id = y.id
        BY <2>2, <2>3, <4>1
      <4> QED
        BY <4>1, <4>2 DEF TypeOK
    <3> QED
      BY <3>1, <3>2
  <2>4. ASSUME NEW x \in triples PROVE \E y \in triples' : y.id = x.id
    BY <1>2, <2>2, RowStepParts
  <2>5. {x.id : x \in triples} \subseteq {x.id : x \in triples'}
    BY <2>4
  <2>6. evidence' \subseteq {x.id : x \in triples'} \X Sources
    <3>1. evidence' \subseteq evidence \cup ({x.id : x \in triples'} \X Sources)
      BY <1>2, RowStepParts
    <3>2. evidence \subseteq {x.id : x \in triples} \X Sources
      BY DEF TypeOK
    <3> QED
      BY <2>5, <3>1, <3>2
  <2> QED
    BY <2>1, <2>3, <2>6 DEF TypeOK
<1> QED
  BY <1>1, <1>2, NextRows

\* Rows are rows, ids are keys and evidence belongs to a row, in every state.
THEOREM TypeCorrect == Spec => []TypeOK
<1>1. Init => TypeOK
  BY DEF Init, TypeOK
<1> QED
  BY <1>1, NextTypeOK, PTL DEF Spec

-----------------------------------------------------------------------------
\* No step opens a second interval of a fact.
LEMMA NextOneOpenInterval ==
  TypeOK /\ OneOpenInterval /\ [Next]_vars => OneOpenInterval'
<1> SUFFICES ASSUME TypeOK, OneOpenInterval, [Next]_vars,
                    NEW a \in triples', NEW b \in triples',
                    IsOpen(a), IsOpen(b), KeyOf(a) = KeyOf(b), ObjectOf(a) = ObjectOf(b)
             PROVE  a = b
  BY DEF OneOpenInterval, IsOpen, KeyOf, ObjectOf
<1>1. PICK u, N : RowStep(u, N)
  BY NextRows
<1>2. \A c \in triples' : IsOpen(c) => c \in N \/ c \in triples
  BY <1>1, RowStepParts
<1>3. /\ \A y, z \in N : y = z
      /\ \A y \in N, x \in triples :
            KeyOf(x) = KeyOf(y) /\ ObjectOf(x) = ObjectOf(y) => ~IsOpen(x)
  BY <1>1, RowStepParts
<1> QED
  BY <1>2, <1>3 DEF OneOpenInterval

\* A fact holds in one open interval at most.
THEOREM OneOpenIntervalHolds == Spec => []OneOpenInterval
<1>1. Init => OneOpenInterval
  BY DEF Init, OneOpenInterval
<1> QED
  BY <1>1, NextOneOpenInterval, TypeCorrect, PTL DEF Spec

-----------------------------------------------------------------------------
\* A closed row stays as it is, an open one is at most closed.
LEMMA NextHistoryKept ==
  ASSUME TypeOK, [Next]_vars, NEW x \in triples
  PROVE  \/ x \in triples'
         \/ IsOpen(x) /\ \E y \in triples' :
                y = [x EXCEPT !.to = y.to, !.by = y.by] /\ ~IsOpen(y)
         \/ triples' = {}
<1>1. CASE triples' = {}
  BY <1>1
<1>2. ASSUME NEW u, NEW N, RowStep(u, N)
      PROVE  \/ x \in triples'
             \/ IsOpen(x) /\ \E y \in triples' :
                    y = [x EXCEPT !.to = y.to, !.by = y.by] /\ ~IsOpen(y)
  <2>1. u[x] \in triples'
    BY <1>2, RowStepParts
  <2> QED
    BY <1>2, <2>1 DEF RowStep
<1> QED
  BY <1>1, <1>2, NextRows

\* History is kept: no row of the graph is deleted or rewritten.
THEOREM HistoryKeptHolds == Spec => HistoryKept
<1>1. TypeOK /\ [Next]_vars =>
        [\A x \in triples :
            \/ x \in triples'
            \/ IsOpen(x) /\ \E y \in triples' :
                   y = [x EXCEPT !.to = y.to, !.by = y.by] /\ ~IsOpen(y)
            \/ triples' = {}]_vars
  BY NextHistoryKept
<1> QED
  BY <1>1, TypeCorrect, PTL DEF Spec, HistoryKept

-----------------------------------------------------------------------------
\* Only closed rows are linked to a replacement. With OneOpenInterval this makes
\* SupersessionLeavesOne and LinksEnd inductive.
OpenUnlinked == \A x \in triples : IsOpen(x) => x.by = None

\* No step links a row and leaves it open.
LEMMA NextOpenUnlinked == TypeOK /\ OpenUnlinked /\ [Next]_vars => OpenUnlinked'
<1> SUFFICES ASSUME TypeOK, OpenUnlinked, [Next]_vars, NEW a \in triples', IsOpen(a)
             PROVE  a.by = None
  BY DEF OpenUnlinked, IsOpen
<1>1. PICK u, N : RowStep(u, N)
  BY NextRows
<1> QED
  BY <1>1, RowStepParts DEF OpenUnlinked

\* An open row has no replacement, in every state.
LEMMA OpenUnlinkedHolds == Spec => []OpenUnlinked
<1>1. Init => OpenUnlinked
  BY DEF Init, OpenUnlinked
<1> QED
  BY <1>1, NextOpenUnlinked, TypeCorrect, PTL DEF Spec

\* After a supersession by id one row of the key is open, the one of id, and
\* what was linked is linked to it.
LEMMA SupersededLinks ==
  ASSUME TypeOK, OneOpenInterval, OpenUnlinked,
         NEW k \in Keys, NEW o \in Objects, NEW t \in Times, NEW s \in Sources,
         NEW id, NEW N, Superseded(k, o, t, s, id, N)
  PROVE  /\ \E z \in triples' : /\ z.id = id /\ z.by = None
                                /\ {x \in triples' : KeyOf(x) = k /\ IsOpen(x)} = {z}
         /\ \A x \in triples' : \/ x \in triples \/ x.by = None
                                \/ x.by = id /\ KeyOf(x) = k /\ ObjectOf(x) # o
         /\ id[1] = k /\ id[2] = o
<1>0. \A x \in triples : x \in Row
  BY DEF TypeOK
<1>1. \A x \in Rivals(k, o) : LET y == Closed(x, t, id)
                              IN  y.id = x.id /\ ~IsOpen(y) /\ y.by = id
  BY <1>0, RowUpdates DEF Superseded, Rivals
<1>2. \A y \in N : /\ IsOpen(y) /\ y.by = None /\ y.id = id
                   /\ \A x \in RowsOf(k, o) : ~IsOpen(x)
                   /\ N = {y}
  BY RowUpdates DEF Superseded
<1>3. triples' = (triples \ Rivals(k, o)) \cup {Closed(y, t, id) : y \in Rivals(k, o)} \cup N
  BY DEF Superseded
<1>4. id[1] = k /\ id[2] = o
  BY DEF Superseded
<1>5. \A x \in triples' : \/ x \in triples \/ x.by = None
                          \/ x.by = id /\ KeyOf(x) = k /\ ObjectOf(x) # o
  BY <1>1, <1>2, <1>3 DEF Rivals, KeyOf, ObjectOf
<1>6. PICK z \in triples' : z.id = id /\ z.by = None /\ IsOpen(z)
  <2>1. CASE N = {} /\ \E x \in triples : x.id = id /\ IsOpen(x)
    <3>1. PICK x \in triples : x.id = id /\ IsOpen(x)
      BY <2>1
    <3>2. x \notin Rivals(k, o)
      BY <1>4, <3>1 DEF Rivals, ObjectOf
    <3> QED
      BY <1>3, <3>1, <3>2 DEF OpenUnlinked
  <2>2. CASE \E old \in Ids \cup {None} : N = {NewRow(id, t, s, old)}
    BY <1>2, <1>3, <2>2
  <2> QED
    BY <2>1, <2>2 DEF Superseded
<1>7. ASSUME NEW x \in triples', KeyOf(x) = k, IsOpen(x) PROVE x = z
  <2>1. x \in N \/ (x \in triples /\ x \notin Rivals(k, o))
    BY <1>1, <1>3, <1>7
  <2>2. z \in N \/ (z \in triples /\ z \notin Rivals(k, o))
    BY <1>1, <1>3, <1>6
  <2>3. ObjectOf(x) = o
    <3>1. CASE x \in N
      BY <1>2, <1>4, <3>1 DEF ObjectOf
    <3>2. CASE x \in triples /\ x \notin Rivals(k, o)
      BY <1>7, <3>2 DEF Rivals
    <3> QED
      BY <2>1, <3>1, <3>2
  <2>4. KeyOf(z) = k /\ ObjectOf(z) = o
    BY <1>4, <1>6 DEF KeyOf, ObjectOf
  <2>5. \A y \in triples : y \in N \/ IsOpen(y) => N = {} \/ y \in N \/ y \notin RowsOf(k, o)
    BY <1>2
  <2>6. CASE x \in N \/ z \in N
    BY <1>2, <1>6, <1>7, <2>1, <2>2, <2>3, <2>4, <2>6 DEF RowsOf
  <2>7. CASE x \in triples /\ z \in triples
    BY <1>6, <1>7, <2>3, <2>4, <2>7 DEF OneOpenInterval
  <2> QED
    BY <2>1, <2>2, <2>6, <2>7
<1>8. {x \in triples' : KeyOf(x) = k /\ IsOpen(x)} = {z}
  BY <1>4, <1>6, <1>7 DEF KeyOf
<1> QED
  BY <1>4, <1>5, <1>6, <1>8

\* Only a supersession links rows.
LEMMA NextLinks ==
  ASSUME TypeOK, OpenUnlinked, [Next]_vars
  PROVE  \/ \A x \in triples' : x \in triples \/ x.by = None
         \/ \E k \in Keys, o \in Objects, t \in Times, s \in Sources :
               \E id, N : Superseded(k, o, t, s, id, N)
<1>0. \A x \in triples : x \in Row
  BY DEF TypeOK
<1>1. CASE \E k \in Keys, o \in Objects, t \in Times, s \in Sources : Supersede(k, o, t, s)
  BY <1>1, SupersedeCases
<1>2. ASSUME NEW k \in Keys, NEW o \in Objects, NEW t \in Times, NEW s \in Sources,
             Add(k, o, t, s)
      PROVE  \A x \in triples' : x \in triples \/ x.by = None
  BY <1>2 DEF Add, NewRow
<1>3. ASSUME NEW k \in Keys, NEW o \in Objects, NEW t \in Times, Invalidate(k, o, t)
      PROVE  \A x \in triples' : x \in triples \/ x.by = None
  <2>1. \A x \in triples : IsOpen(x) => [x EXCEPT !.to = t].by = None
    BY <1>0, RowUpdates DEF OpenUnlinked
  <2> QED
    BY <1>3, <2>1 DEF Invalidate
<1>4. CASE Recreate
  BY <1>4 DEF Recreate
<1>5. CASE UNCHANGED vars
  BY <1>5 DEF vars
<1> QED
  BY <1>1, <1>2, <1>3, <1>4, <1>5 DEF Next

\* A supersession leaves one open row of its key, whatever the order of notes and
\* of edits by hand.
THEOREM SupersessionLeavesOneHolds == Spec => SupersessionLeavesOne
<1> DEFINE LeavesOne ==
      \A k \in Keys :
         (\E x \in triples' : KeyOf(x) = k /\ x.by # None /\ x \notin triples)
            => \E z \in triples' : {x \in triples' : KeyOf(x) = k /\ IsOpen(x)} = {z}
<1>1. TypeOK /\ OneOpenInterval /\ OpenUnlinked /\ [Next]_vars => LeavesOne
  <2> SUFFICES ASSUME TypeOK, OneOpenInterval, OpenUnlinked, [Next]_vars, NEW k \in Keys,
                      NEW x \in triples', KeyOf(x) = k, x.by # None, x \notin triples
               PROVE  \E z \in triples' : {y \in triples' : KeyOf(y) = k /\ IsOpen(y)} = {z}
    OBVIOUS
  <2>0. PICK kk \in Keys, o \in Objects, t \in Times, s \in Sources :
           \E id, N : Superseded(kk, o, t, s, id, N)
    BY NextLinks
  <2>1. PICK id, N : Superseded(kk, o, t, s, id, N)
    BY <2>0
  <2>2. KeyOf(x) = kk
    BY <2>1, SupersededLinks
  <2>3. \E z \in triples' : {y \in triples' : KeyOf(y) = kk /\ IsOpen(y)} = {z}
    BY <2>1, SupersededLinks
  <2> QED
    BY <2>2, <2>3
<1>2. TypeOK /\ OneOpenInterval /\ OpenUnlinked /\ [Next]_vars => [LeavesOne]_vars
  BY <1>1
<1> QED
  BY <1>2, TypeCorrect, OneOpenIntervalHolds, OpenUnlinkedHolds, PTL
     DEF Spec, SupersessionLeavesOne

-----------------------------------------------------------------------------
\* A linked row points to a row of the same key with another object.
LinksKept ==
    \A x \in triples : x.by # None =>
        \E y \in triples : y.id = x.by /\ KeyOf(y) = KeyOf(x) /\ ObjectOf(y) # ObjectOf(x)

\* No set of linked rows is closed under the links, so that a walk along them
\* leaves any set of linked rows and ends.
NoLinkCycle ==
    \A S \in SUBSET {x \in triples : x.by # None} :
        S # {} => \E x \in S : x.by \notin {y.id : y \in S}

\* A step keeps the row of an id, unless it empties the graph.
LEMMA NextIds ==
  ASSUME TypeOK, [Next]_vars, triples' # {}, NEW x \in triples
  PROVE  \E y \in triples' : y.id = x.id
<1>1. CASE evidence' = {} /\ triples' = {}
  BY <1>1
<1>2. ASSUME NEW u, NEW N, RowStep(u, N) PROVE \E y \in triples' : y.id = x.id
  <2>1. u[x].id = x.id
    BY <1>2, RowStepIds
  <2>2. u[x] \in triples'
    BY <1>2, RowStepParts
  <2> QED
    BY <2>1, <2>2
<1> QED
  BY <1>1, <1>2, NextRows

\* No step leaves a link without a row of another object of the key at its end.
LEMMA NextLinksKept ==
  TypeOK /\ OneOpenInterval /\ OpenUnlinked /\ LinksKept /\ [Next]_vars => LinksKept'
<1> SUFFICES ASSUME TypeOK, OneOpenInterval, OpenUnlinked, LinksKept, [Next]_vars,
                    NEW x \in triples', x.by # None
             PROVE  \E y \in triples' :
                       y.id = x.by /\ KeyOf(y) = KeyOf(x) /\ ObjectOf(y) # ObjectOf(x)
  BY DEF LinksKept, KeyOf, ObjectOf
<1>1. CASE x \in triples
  <2>1. PICK y \in triples : y.id = x.by /\ KeyOf(y) = KeyOf(x) /\ ObjectOf(y) # ObjectOf(x)
    BY <1>1 DEF LinksKept
  <2>2. PICK z \in triples' : z.id = y.id
    BY NextIds
  <2> QED
    BY <2>1, <2>2 DEF KeyOf, ObjectOf
<1>2. CASE x \notin triples
  <2>0. PICK k \in Keys, o \in Objects, t \in Times, s \in Sources :
           \E id, N : Superseded(k, o, t, s, id, N)
    BY <1>2, NextLinks
  <2>1. PICK id, N : Superseded(k, o, t, s, id, N)
    BY <2>0
  <2>2. x.by = id /\ KeyOf(x) = k /\ ObjectOf(x) # o /\ id[1] = k /\ id[2] = o
    BY <1>2, <2>1, SupersededLinks
  <2>3. PICK z \in triples' : z.id = id
    BY <2>1, SupersededLinks
  <2> QED
    BY <2>2, <2>3 DEF KeyOf, ObjectOf
<1> QED
  BY <1>1, <1>2

\* No step closes a cycle of links: a new link ends in a row that has none.
LEMMA NextNoLinkCycle ==
  TypeOK /\ OneOpenInterval /\ OpenUnlinked /\ NoLinkCycle /\ [Next]_vars => NoLinkCycle'
<1> SUFFICES ASSUME TypeOK, OneOpenInterval, OpenUnlinked, NoLinkCycle, [Next]_vars,
                    NEW S \in SUBSET {x \in triples' : x.by # None}, S # {}
             PROVE  \E x \in S : x.by \notin {y.id : y \in S}
  BY DEF NoLinkCycle
<1>1. CASE S \subseteq triples
  BY <1>1 DEF NoLinkCycle
<1>2. ASSUME NEW x \in S, x \notin triples PROVE x.by \notin {y.id : y \in S}
  <2>0. PICK k \in Keys, o \in Objects, t \in Times, s \in Sources :
           \E id, N : Superseded(k, o, t, s, id, N)
    BY <1>2, NextLinks
  <2>1. PICK id, N : Superseded(k, o, t, s, id, N)
    BY <2>0
  <2>2. x.by = id
    BY <1>2, <2>1, SupersededLinks
  <2>3. PICK z \in triples' : z.id = id /\ z.by = None
    BY <2>1, SupersededLinks
  <2>4. \A y \in triples' : y.id = id => y = z
    BY <2>3, NextTypeOK DEF TypeOK
  <2> QED
    BY <2>2, <2>3, <2>4
<1> QED
  BY <1>1, <1>2

\* Following superseded_by ends in a row of the same key, in every state.
THEOREM LinksEndHolds == Spec => []LinksEnd
<1>1. Init => LinksKept /\ NoLinkCycle
  BY DEF Init, LinksKept, NoLinkCycle
<1>2. LinksKept /\ NoLinkCycle => LinksEnd
  BY DEF LinksKept, NoLinkCycle, LinksEnd
<1> QED
  BY <1>1, <1>2, NextLinksKept, NextNoLinkCycle, TypeCorrect, OneOpenIntervalHolds,
     OpenUnlinkedHolds, PTL DEF Spec

-----------------------------------------------------------------------------
\* The rows of k are in the order of their event times: each is closed no
\* earlier than it began.
InOrder(k) == \A x \in triples : KeyOf(x) = k => IsOpen(x) \/ x.from <= x.to

\* The interval of x ends before that of y begins.
Before(x, y) == ~IsOpen(x) /\ x.to <= y.from

\* What makes AsOfUnique inductive for a key k that notes alone write: the key
\* has one open row as soon as it has any, and its intervals do not overlap.
OneValueAt(k) ==
    /\ \A x, y \in triples :
          KeyOf(x) = k /\ KeyOf(y) = k /\ IsOpen(x) /\ IsOpen(y) => x = y
    /\ \A x \in triples : KeyOf(x) = k => \E y \in triples : KeyOf(y) = k /\ IsOpen(y)
    /\ InOrder(k) => \A x, y \in triples :
          KeyOf(x) = k /\ KeyOf(y) = k => x = y \/ Before(x, y) \/ Before(y, x)

\* Every single-valued relation that notes alone write has one value at a time.
OneValue == \A k \in Functional \ Manual : OneValueAt(k)

\* A step that leaves the rows of a key alone leaves its intervals alone.
LEMMA SameRowsOneValue ==
  ASSUME NEW k, OneValueAt(k),
         \A x : KeyOf(x) = k => (x \in triples <=> x \in triples')
  PROVE  OneValueAt(k)'
BY DEF OneValueAt, InOrder, Before, KeyOf, IsOpen

\* The row that a supersession closes and the row it opens follow on each other
\* and on all earlier rows of the key.
LEMMA SupersededOneValue ==
  ASSUME TypeOK, NEW k \in Keys, NEW o \in Objects, NEW t \in Times, NEW s \in Sources,
         NEW id, NEW N, Superseded(k, o, t, s, id, N), OneValueAt(k)
  PROVE  OneValueAt(k)'
<1> DEFINE rivals == Rivals(k, o)
<1>0. \A x \in triples : x \in Row
  BY DEF TypeOK
<1>1. \A x \in rivals : /\ Closed(x, t, id).id = x.id /\ ~IsOpen(Closed(x, t, id))
                        /\ Closed(x, t, id).from = x.from /\ Closed(x, t, id).to = t
  BY <1>0, RowUpdates DEF Superseded, Rivals
<1>2. triples' = (triples \ rivals) \cup {Closed(y, t, id) : y \in rivals} \cup N
  BY DEF Superseded
<1>3. CASE N = {} /\ \E x \in triples : x.id = id /\ IsOpen(x)
  <2>1. PICK x \in triples : x.id = id /\ IsOpen(x)
    BY <1>3
  <2>2. KeyOf(x) = k /\ ObjectOf(x) = o
    BY <2>1 DEF Superseded, KeyOf, ObjectOf
  <2>3. rivals = {}
    BY <2>1, <2>2 DEF Rivals, OneValueAt
  <2>4. triples' = triples
    BY <1>2, <1>3, <2>3
  <2> QED
    BY <2>4, SameRowsOneValue
<1>4. CASE /\ \E old \in Ids \cup {None} : N = {NewRow(id, t, s, old)}
           /\ \A x \in RowsOf(k, o) : ~IsOpen(x)
  <2>1. PICK z : N = {z} /\ IsOpen(z) /\ z.id = id /\ z.from = t
    BY <1>4, RowUpdates DEF Superseded
  <2>2. KeyOf(z) = k
    BY <2>1 DEF Superseded, KeyOf
  \* The rows of k after the step, one kind each.
  <2>3. \A x \in triples' : KeyOf(x) = k =>
           \/ x = z
           \/ x \in triples /\ ~IsOpen(x)
           \/ \E y \in rivals : x = Closed(y, t, id)
    BY <1>2, <1>4, <2>1 DEF Rivals, RowsOf
  <2>4. z \in triples'
    BY <1>2, <2>1
  <2>5. \A y \in rivals : y \in triples /\ KeyOf(y) = k /\ IsOpen(y)
    BY DEF Rivals
  <2>6. \A x, y \in rivals : x = y
    BY <2>5 DEF OneValueAt
  <2>7. \A x \in triples : ~IsOpen(x) => x \in triples'
    BY <1>2 DEF Rivals
  <2>8. \A y \in rivals : Closed(y, t, id) \in triples' /\ KeyOf(Closed(y, t, id)) = k
    BY <1>1, <1>2, <2>5 DEF KeyOf
  <2>9. ASSUME NEW x \in triples', NEW y \in triples', KeyOf(x) = k, KeyOf(y) = k,
               IsOpen(x), IsOpen(y)
        PROVE  x = y
    BY <1>1, <2>3, <2>9
  <2>10. ASSUME NEW x \in triples', NEW y \in triples', KeyOf(x) = k, KeyOf(y) = k,
                InOrder(k)'
         PROVE  x = y \/ Before(x, y) \/ Before(y, x)
    <3>1. \A a \in triples' : KeyOf(a) = k => IsOpen(a) \/ a.from <= a.to
      BY <2>10 DEF InOrder, KeyOf, IsOpen
    <3>2. InOrder(k)
      BY <3>1, <2>7 DEF InOrder
    <3>3. \A a, b \in triples : KeyOf(a) = k /\ KeyOf(b) = k =>
             a = b \/ Before(a, b) \/ Before(b, a)
      BY <3>2 DEF OneValueAt
    <3>4. \A a \in triples : a.from \in Int /\ (~IsOpen(a) => a.to \in Int)
      BY <1>0, TimesAreNumbers DEF Row, IsOpen
    <3>5. \A y1 \in rivals : y1.from <= t
      BY <1>1, <2>8, <3>1
    <3>6. t \in Int
      BY TimesAreNumbers
    <3>7. \A a \in triples, y1 \in rivals :
             KeyOf(a) = k /\ ~IsOpen(a) => a.to <= y1.from /\ a.to <= t
      BY <2>5, <3>3, <3>4, <3>5, <3>6 DEF Before
    \* A closed row that was there ends before the new row.
    <3>8. \A a \in triples : KeyOf(a) = k /\ ~IsOpen(a) => a.to <= t
      <4> SUFFICES ASSUME NEW a \in triples, KeyOf(a) = k, ~IsOpen(a) PROVE a.to <= t
        OBVIOUS
      <4>1. PICK y1 \in triples : KeyOf(y1) = k /\ IsOpen(y1)
        BY DEF OneValueAt
      <4>2. y1 \in rivals
        BY <1>4, <4>1 DEF Rivals, RowsOf
      <4> QED
        BY <3>7, <4>2
    <3> DEFINE Old(a) == a \in triples /\ ~IsOpen(a)
               Ended(a) == \E y1 \in rivals : a = Closed(y1, t, id)
    <3>9. (x = z \/ Old(x) \/ Ended(x)) /\ (y = z \/ Old(y) \/ Ended(y))
      BY <2>3, <2>10
    <3>10. \A a \in triples : Old(a) /\ KeyOf(a) = k => Before(a, z)
      BY <2>1, <3>8 DEF Before
    <3>11. \A a : Ended(a) => Before(a, z)
      BY <1>1, <2>1, <3>6 DEF Before
    <3>12. \A a, b : Old(a) /\ KeyOf(a) = k /\ Ended(b) => Before(a, b)
      BY <1>1, <3>7 DEF Before
    <3>13. \A a, b : Ended(a) /\ Ended(b) => a = b
      BY <2>6
    <3>14. \A a, b : Old(a) /\ Old(b) /\ KeyOf(a) = k /\ KeyOf(b) = k =>
              a = b \/ Before(a, b) \/ Before(b, a)
      BY <3>3
    <3> QED
      <4> HIDE DEF Old, Ended
      <4> QED
        BY <2>10, <3>9, <3>10, <3>11, <3>12, <3>13, <3>14 DEF Old
  <2> QED
    BY <2>1, <2>2, <2>4, <2>9, <2>10 DEF OneValueAt, InOrder, Before, KeyOf, IsOpen
<1> QED
  BY <1>3, <1>4 DEF Superseded

\* A step leaves the rows of a key alone, empties the graph, or supersedes.
LEMMA NextOneValue == TypeOK /\ OneValue /\ [Next]_vars => OneValue'
<1> SUFFICES ASSUME TypeOK, OneValue, [Next]_vars, NEW q \in Functional \ Manual
             PROVE  OneValueAt(q)'
  BY DEF OneValue
<1>0. OneValueAt(q)
  BY DEF OneValue
<1>1. ASSUME NEW k \in Keys, NEW o \in Objects, NEW t \in Times, NEW s \in Sources,
             Supersede(k, o, t, s)
      PROVE  OneValueAt(q)'
  <2>1. PICK id, N : Superseded(k, o, t, s, id, N)
    BY <1>1, SupersedeCases
  <2>2. CASE k = q
    BY <1>0, <2>1, <2>2, SupersededOneValue
  <2>3. CASE k # q
    <3>1. \A x \in Rivals(k, o) : KeyOf(x) = k /\ KeyOf(Closed(x, t, id)) = k
      BY <2>1, RowUpdates DEF Superseded, Rivals, KeyOf, TypeOK
    <3>2. \A x \in N : KeyOf(x) = k
      BY <2>1, RowUpdates DEF Superseded, KeyOf
    <3>3. \A x : KeyOf(x) = q => (x \in triples <=> x \in triples')
      BY <2>1, <2>3, <3>1, <3>2 DEF Superseded
    <3> QED
      BY <1>0, <3>3, SameRowsOneValue
  <2> QED
    BY <2>2, <2>3
<1>2. ASSUME NEW k \in Keys, NEW o \in Objects, NEW t \in Times, NEW s \in Sources,
             Add(k, o, t, s)
      PROVE  OneValueAt(q)'
  <2>1. k # q
    BY <1>2 DEF Add
  <2>2. KeyOf(NewRow(<<k, o, First>>, t, s, None)) = k
    BY DEF KeyOf, NewRow
  <2>3. \A x : KeyOf(x) = q => (x \in triples <=> x \in triples')
    BY <1>2, <2>1, <2>2 DEF Add
  <2> QED
    BY <1>0, <2>3, SameRowsOneValue
<1>3. ASSUME NEW k \in Keys, NEW o \in Objects, NEW t \in Times, Invalidate(k, o, t)
      PROVE  OneValueAt(q)'
  <2> DEFINE ended(x) == [x EXCEPT !.to = t]
  <2>1. k # q
    BY <1>3 DEF Invalidate
  <2>2. \A x \in RowsOf(k, o) : KeyOf(x) = k /\ KeyOf(ended(x)) = k
    BY RowUpdates DEF TypeOK, RowsOf, KeyOf
  <2>3. \A x : KeyOf(x) = q => (x \in triples <=> x \in triples')
    BY <1>3, <2>1, <2>2 DEF Invalidate
  <2> QED
    BY <1>0, <2>3, SameRowsOneValue
<1>4. CASE Recreate
  BY <1>4 DEF Recreate, OneValueAt
<1>5. CASE UNCHANGED vars
  BY <1>0, <1>5, SameRowsOneValue DEF vars
<1> QED
  BY <1>1, <1>2, <1>3, <1>4, <1>5 DEF Next

\* A single-valued relation that notes alone write has one value at any event
\* time, whatever the order in which the supersessions of all keys come, as long
\* as the notes of its own key come in the order of their event times.
THEOREM AsOfUniqueHolds == Spec => []AsOfUnique
<1>1. Init => OneValue
  BY DEF Init, OneValue, OneValueAt
<1>2. TypeOK /\ OneValue => AsOfUnique
  <2> SUFFICES ASSUME TypeOK, OneValue, NEW k \in Functional \ Manual, InOrder(k),
                      NEW t \in Times, NEW x \in AsOf(k, t), NEW y \in AsOf(k, t)
               PROVE  x = y
    BY DEF AsOfUnique, InOrder
  <2>1. \A a \in AsOf(k, t) :
           a \in triples /\ KeyOf(a) = k /\ a.from <= t /\ (IsOpen(a) \/ a.to > t)
    BY DEF AsOf
  <2>2. x = y \/ Before(x, y) \/ Before(y, x)
    BY <2>1 DEF OneValue, OneValueAt
  <2>3. \A a \in triples : a.from \in Int /\ (~IsOpen(a) => a.to \in Int)
    BY TimesAreNumbers DEF TypeOK, Row, IsOpen
  <2>4. t \in Int
    BY TimesAreNumbers
  <2> QED
    BY <2>1, <2>2, <2>3, <2>4 DEF Before
<1> QED
  BY <1>1, <1>2, NextOneValue, TypeCorrect, PTL DEF Spec
=============================================================================
