---------------------------- MODULE KnowledgeGraph ----------------------------
(***************************************************************************)
(* The bitemporal knowledge graph of the server (lib/knowledge-graph.ts)   *)
(* and the supersession of single-valued facts at ingest (the KG half of   *)
(* runSupersessionPass, lib/bitemporal.ts).                                *)
(*                                                                         *)
(* A fact says that a key (a subject and predicate) has an object. A row   *)
(* of triples is an interval of event time in which a fact held. Rows are  *)
(* closed and linked to their replacement, never deleted. better-sqlite3   *)
(* is synchronous, so each primitive is one action.                        *)
(*                                                                         *)
(* Ids are md5 digests, taken to be injective in what they digest. The     *)
(* program sets valid_to and invalidated_at together, so "to" stands for   *)
(* both. Entity rows only ever get added and are left out. Every assertion *)
(* names its source; without one kgAddTriple would only keep no evidence.  *)
(***************************************************************************)
EXTENDS Integers, FiniteSets

CONSTANTS
    Keys,       \* pairs of a subject and a predicate
    Functional, \* the keys whose predicate is in SINGLE_VALUED
    Manual,     \* the keys that kg_add and kg_invalidate are used on
    Objects,
    Times,      \* event times, as numbers
    Sources,    \* notes
    Open,       \* valid_to and invalidated_at are NULL
    None,       \* superseded_by or supersedes is NULL
    First,      \* marks the id of the first row of a fact
    MaxRows     \* bound: rows of triples

ASSUME KeysAreKeys == Functional \subseteq Keys /\ Manual \subseteq Keys
ASSUME TimesAreNumbers == Times \subseteq Int /\ Open \notin Int
ASSUME FirstIsNoInterval == First \notin Times \X Sources
ASSUME RowsAreBounded == MaxRows \in Nat

\* The first row of a fact has the id of the fact, any later one an id made of
\* the fact, its event time and its source.
Ids == Keys \X Objects \X ((Times \X Sources) \cup {First})

ASSUME NoneIsNoId == None \notin Ids

VARIABLES
    triples,    \* the set of rows of triples
    evidence    \* triple_evidence: pairs of a row's id and a source

vars == <<triples, evidence>>

Row ==
    [id : Ids, from : Times, to : Times \cup {Open}, source : Sources,
     by : Ids \cup {None}, replaces : Ids \cup {None}]

TypeOK ==
    /\ triples \subseteq Row
    /\ \A x, y \in triples : x.id = y.id => x = y
    /\ evidence \subseteq {x.id : x \in triples} \X Sources

Init == triples = {} /\ evidence = {}

KeyOf(x) == x.id[1]
ObjectOf(x) == x.id[2]
IsOpen(x) == x.to = Open

RowsOf(k, o) == {x \in triples : KeyOf(x) = k /\ ObjectOf(x) = o}

NewRow(id, t, s, old) ==
    [id |-> id, from |-> t, to |-> Open, source |-> s, by |-> None, replaces |-> old]

-----------------------------------------------------------------------------
\* Plausible bug: a fact that is added again gets its old row back.
AddReopens(k, o, t, s) ==
    /\ k \in Manual
    /\ RowsOf(k, o) # {} \/ Cardinality(triples) < MaxRows
    /\ triples' = (triples \ RowsOf(k, o)) \cup {NewRow(<<k, o, First>>, t, s, None)}
    /\ evidence' = evidence \cup {<<<<k, o, First>>, s>>}

\* kgAddTriple: the first assertion of a fact opens a row, any other is evidence
\* for the open row or else for the newest one.
Add(k, o, t, s) ==
    /\ k \in Manual
    /\ IF RowsOf(k, o) = {}
       THEN /\ Cardinality(triples) < MaxRows
            /\ triples' = triples \cup {NewRow(<<k, o, First>>, t, s, None)}
            /\ evidence' = evidence \cup {<<<<k, o, First>>, s>>}
       ELSE \E x \in RowsOf(k, o) :
            /\ \A y \in RowsOf(k, o) :
                  \/ IsOpen(x) /\ ~IsOpen(y)
                  \/ (IsOpen(x) <=> IsOpen(y)) /\ x.from >= y.from
            /\ evidence' = evidence \cup {<<x.id, s>>}
            /\ UNCHANGED triples

\* kgInvalidateTriple closes every open row of the fact.
Invalidate(k, o, t) ==
    /\ k \in Manual
    /\ triples' = {IF x \in RowsOf(k, o) /\ IsOpen(x) THEN [x EXCEPT !.to = t] ELSE x :
                      x \in triples}
    /\ UNCHANGED evidence

\* Plausible bug: rows that were closed before are closed again.
RivalsEver(k, o) == {x \in triples : KeyOf(x) = k /\ ObjectOf(x) # o}

\* The open rows of a key that say something else.
Rivals(k, o) == {x \in triples : KeyOf(x) = k /\ ObjectOf(x) # o /\ IsOpen(x)}

\* Plausible bug: the link names the fact instead of its interval.
ClosedByFact(x, t, id) == [x EXCEPT !.to = t, !.by = <<id[1], id[2], First>>]

\* A rival ends where the new fact begins.
Closed(x, t, id) == [x EXCEPT !.to = t, !.by = id]

\* The id kgSupersede gives a row it inserts.
IntervalId(k, o, t, s) ==
    IF RowsOf(k, o) = {} THEN <<k, o, First>> ELSE <<k, o, <<t, s>>>>

\* Plausible bug: the open row of the fact is not looked for.
SupersedeAlways(k, o, t, s) ==
    LET id == IntervalId(k, o, t, s)
    IN  /\ k \in Functional
        /\ id \notin {x.id : x \in triples}
        /\ Cardinality(triples) < MaxRows
        /\ triples' = (triples \ Rivals(k, o))
                         \cup {Closed(x, t, id) : x \in Rivals(k, o)}
                         \cup {NewRow(id, t, s, None)}
        /\ evidence' = evidence \cup {<<id, s>>}

\* Plausible bug: only one of several rivals is closed.
SupersedeOne(k, o, t, s) ==
    LET active == {x \in RowsOf(k, o) : IsOpen(x)}
        id == IntervalId(k, o, t, s)
    IN  /\ k \in Functional
        /\ active = {}
        /\ id \notin {x.id : x \in triples}
        /\ Cardinality(triples) < MaxRows
        /\ \E x \in Rivals(k, o) :
              triples' = (triples \ {x})
                            \cup {Closed(x, t, id), NewRow(id, t, s, x.id)}
        /\ evidence' = evidence \cup {<<id, s>>}

\* kgSupersede: closes the open rows that say something else and links them to
\* the open row of the fact, or to a new one that links back to one of them. An
\* id that is in use violates the primary key and rolls everything back.
Supersede(k, o, t, s) ==
    LET rivals == Rivals(k, o)
        rest == triples \ rivals
    IN  /\ k \in Functional
        /\ \/ \E x \in RowsOf(k, o) :
                 /\ IsOpen(x)
                 /\ \A y \in RowsOf(k, o) : IsOpen(y) => x.from >= y.from
                 /\ triples' = rest \cup {Closed(y, t, x.id) : y \in rivals}
                 /\ evidence' = evidence \cup {<<x.id, s>>}
           \/ LET id == IntervalId(k, o, t, s)
              IN  /\ \A x \in RowsOf(k, o) : ~IsOpen(x)
                  /\ id \notin {x.id : x \in triples}
                  /\ Cardinality(triples) < MaxRows
                  /\ \E old \in IF rivals = {} THEN {None} ELSE {x.id : x \in rivals} :
                        triples' = rest \cup {Closed(y, t, id) : y \in rivals}
                                        \cup {NewRow(id, t, s, old)}
                  /\ evidence' = evidence \cup {<<id, s>>}

\* kgRepair finds the database corrupt and starts an empty one.
Recreate ==
    /\ triples' = {}
    /\ evidence' = {}

Next ==
    \/ \E k \in Keys, o \in Objects, t \in Times, s \in Sources :
          Add(k, o, t, s) \/ Supersede(k, o, t, s)
    \/ \E k \in Keys, o \in Objects, t \in Times : Invalidate(k, o, t)
    \/ Recreate

Spec == Init /\ [][Next]_vars

-----------------------------------------------------------------------------
(* Properties.                                                             *)

\* A fact holds in one open interval at most, however often and by whomever it is
\* asserted, ended and asserted again.
OneOpenInterval ==
    \A x, y \in triples :
        IsOpen(x) /\ IsOpen(y) /\ KeyOf(x) = KeyOf(y) /\ ObjectOf(x) = ObjectOf(y)
            => x = y

\* "Never hard-deletes": rows stay, a closed one exactly as it was closed, an
\* open one with its beginning and its source.
HistoryKept ==
    [][\A x \in triples :
          \/ x \in triples'
          \/ IsOpen(x) /\ \E y \in triples' :
                 y = [x EXCEPT !.to = y.to, !.by = y.by] /\ ~IsOpen(y)
          \/ triples' = {}]_vars

\* A supersession leaves one open row of its key, also when kg_add had opened
\* several values of a single-valued relation beside each other.
SupersessionLeavesOne ==
    [][\A k \in Keys :
          (\E x \in triples' : KeyOf(x) = k /\ x.by # None /\ x \notin triples)
             => \E z \in triples' :
                   {x \in triples' : KeyOf(x) = k /\ IsOpen(x)} = {z}]_vars

\* Following superseded_by from any row never comes round to the same row and
\* ends in a row of the same key.
LinksEnd ==
    /\ \A x \in triples : x.by # None =>
          \E y \in triples : y.id = x.by /\ KeyOf(y) = KeyOf(x) /\ ObjectOf(y) # ObjectOf(x)
    /\ \A S \in SUBSET {x \in triples : x.by # None} :
          S # {} => \E x \in S : x.by \notin {y.id : y \in S}

\* The rows that kgQueryEntity returns as of t for a key.
AsOf(k, t) == {x \in triples : KeyOf(x) = k /\ x.from <= t /\ (IsOpen(x) \/ x.to > t)}

\* A single-valued relation that only notes write has one value at any event
\* time, as long as no note arrived after a note of a later event time.
AsOfUnique ==
    \A k \in Functional \ Manual :
        (\A x \in triples : KeyOf(x) = k => IsOpen(x) \/ x.from <= x.to)
            => \A t \in Times : \A x, y \in AsOf(k, t) : x = y
=============================================================================
