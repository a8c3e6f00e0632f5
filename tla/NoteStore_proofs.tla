---------------------------- MODULE NoteStore_proofs ----------------------------
(***************************************************************************)
(* Proofs about the brain vault's files, for any paths and any number of   *)
(* clients.                                                                *)
(***************************************************************************)
EXTENDS NoteStore, TLAPS

\* The writers that are in the chain of promises of a path.
Chain(p) == {c \in Writers : phase[c] \in {"queued", "checked", "open"} /\ path[c] = p}

\* Only a member of a chain awaits anyone, and whoever is past its wait awaits nobody.
Waiters ==
    \A c \in Clients : before[c] # Nobody =>
        c \in Writers /\ phase[c] = "queued" /\ before[c] \in Chain(path[c])

\* Each client of a path awaits another one, or nobody.
OneSuccessor ==
    \A p \in Paths : \A c, d \in Chain(p) : before[c] = before[d] => c = d

\* The map holds the end of the chain, which nobody awaits.
TailIsEnd ==
    \A p \in Paths : tail[p] # Nobody =>
        tail[p] \in Chain(p) /\ \A c \in Writers : before[c] # tail[p]

\* A path without an entry in the map has no chain.
TailKept == \A p \in Paths : tail[p] = Nobody => Chain(p) = {}

\* Nobody awaits himself, however far round.
Grounded ==
    \A S \in SUBSET Writers :
        S # {} => \E c \in S : before[c] \notin S

\* A client of createNote reads nothing and joins no chain.
CreatorsOnlyCreate == \A c \in Creators : phase[c] \in {"idle", "open"} /\ seen[c] = {}

ChainInv == Waiters /\ OneSuccessor /\ TailIsEnd /\ TailKept /\ Grounded

-----------------------------------------------------------------------------
\* The end of a call keeps the types.
LEMMA ReleaseTypeOK ==
  ASSUME TypeOK, NEW c \in Clients, Release(c), files' \in [Paths -> {Absent} \cup Texts]
  PROVE  TypeOK'
<1>1. tail' \in [Paths -> Writers \cup {Nobody}]
  BY DEF TypeOK, Release
<1>2. phase' \in [Clients -> Phases] /\ path' \in [Clients -> Paths]
  BY DEF TypeOK, Release, Phases
<1>3. seen' \in [Clients -> Texts] /\ ifMatch' \in [Clients -> BOOLEAN]
  BY DEF TypeOK, Release, Texts
<1>4. before' \in [Clients -> Writers \cup {Nobody}]
  BY DEF TypeOK, Release
<1>5. linked' \subseteq {d \in Clients : phase'[d] = "open"}
  BY DEF TypeOK, Release
<1> QED
  BY <1>1, <1>2, <1>3, <1>4, <1>5 DEF TypeOK

\* Creators never leave their own way.
LEMMA NextCreators ==
  TypeOK /\ CreatorsOnlyCreate /\ [Next]_vars => CreatorsOnlyCreate'
<1> SUFFICES ASSUME TypeOK, CreatorsOnlyCreate, [Next]_vars, NEW d \in Creators
             PROVE  phase'[d] \in {"idle", "open"} /\ seen'[d] = {}
  BY DEF CreatorsOnlyCreate
<1>0. d \in Clients /\ d \notin Writers
  BY ClientsDiffer DEF Clients
<1>1. ASSUME NEW c \in Writers, NEW p \in Paths, NEW m \in BOOLEAN, Read(c, p, m)
      PROVE  phase'[d] \in {"idle", "open"} /\ seen'[d] = {}
  BY <1>0, <1>1 DEF Read, CreatorsOnlyCreate, TypeOK
<1>2. ASSUME NEW c \in Clients, Release(c)
      PROVE  phase'[d] \in {"idle", "open"} /\ seen'[d] = {}
  BY <1>0, <1>2 DEF Release, CreatorsOnlyCreate, TypeOK
<1>3. ASSUME NEW c \in Clients, Step(c)
      PROVE  phase'[d] \in {"idle", "open"} /\ seen'[d] = {}
  BY <1>0, <1>2, <1>3
     DEF Step, Queue, Check, Truncate, Fill, Fail, clientVars, CreatorsOnlyCreate, TypeOK
<1>4. ASSUME NEW c \in Creators, NEW p \in Paths, Create(c, p)
      PROVE  phase'[d] \in {"idle", "open"} /\ seen'[d] = {}
  BY <1>0, <1>4 DEF Create, CreatorsOnlyCreate, TypeOK
<1>5. ASSUME NEW p \in Paths, Delete(p)
      PROVE  phase'[d] \in {"idle", "open"} /\ seen'[d] = {}
  BY <1>5 DEF Delete, CreatorsOnlyCreate, clientVars
<1>6. CASE Crash
  BY <1>0, <1>6 DEF Crash
<1>7. CASE UNCHANGED vars
  BY <1>7 DEF vars, CreatorsOnlyCreate
<1> QED
  BY <1>1, <1>3, <1>4, <1>5, <1>6, <1>7 DEF Next

\* Every step keeps the types.
LEMMA NextTypeOK == TypeOK /\ CreatorsOnlyCreate /\ [Next]_vars => TypeOK'
<1> SUFFICES ASSUME TypeOK, CreatorsOnlyCreate, [Next]_vars PROVE TypeOK'
  OBVIOUS
<1>0. \A c \in Clients : seen[c] \in Texts /\ seen[c] \cup {c} \in Texts /\ {c} \in Texts
  BY DEF TypeOK, Texts
<1>1. ASSUME NEW c \in Writers, NEW p \in Paths, NEW m \in BOOLEAN, Read(c, p, m)
      PROVE  TypeOK'
  <2>1. c \in Clients
    BY DEF Clients
  <2>2. files[p] \in {Absent} \cup Texts
    BY DEF TypeOK
  <2>3. (IF files[p] = Absent THEN {} ELSE files[p]) \in Texts
    BY <2>2 DEF Texts
  <2>4. phase' \in [Clients -> Phases] /\ path' \in [Clients -> Paths]
    BY <1>1, <2>1 DEF Read, TypeOK, Phases
  <2>5. seen' \in [Clients -> Texts] /\ ifMatch' \in [Clients -> BOOLEAN]
    BY <1>1, <2>1, <2>3 DEF Read, TypeOK
  <2>6. linked' \subseteq {d \in Clients : phase'[d] = "open"}
    BY <1>1, <2>1 DEF Read, TypeOK
  <2> QED
    BY <1>1, <2>4, <2>5, <2>6 DEF Read, TypeOK
<1>2. ASSUME NEW c \in Clients, Queue(c) PROVE TypeOK'
  <2>1. path[c] \in Paths
    BY DEF TypeOK
  <2>2. c \in Writers
    BY <1>2 DEF Queue, CreatorsOnlyCreate, Clients
  <2>3. phase' \in [Clients -> Phases]
    BY <1>2 DEF Queue, TypeOK, Phases
  <2>4. tail' \in [Paths -> Writers \cup {Nobody}] /\ before' \in [Clients -> Writers \cup {Nobody}]
    BY <1>2, <2>1, <2>2 DEF Queue, TypeOK
  <2>5. linked' \subseteq {d \in Clients : phase'[d] = "open"}
    BY <1>2 DEF Queue, TypeOK
  <2> QED
    BY <1>2, <2>3, <2>4, <2>5 DEF Queue, TypeOK, clientVars
<1>3. ASSUME NEW c \in Clients, Check(c) PROVE TypeOK'
  <2>1. CASE Release(c) /\ UNCHANGED files
    BY <2>1, ReleaseTypeOK DEF TypeOK
  <2>2. CASE ~(ifMatch[c] /\ files[path[c]] # seen[c])
    BY <1>3, <2>2 DEF Check, TypeOK, Phases, clientVars
  <2> QED
    BY <1>3, <2>1, <2>2 DEF Check
<1>4. ASSUME NEW c \in Clients, Truncate(c) PROVE TypeOK'
  <2>1. {} \in Texts
    BY DEF Texts
  <2>2. files' \in [Paths -> {Absent} \cup Texts]
    BY <1>4, <2>1 DEF Truncate, TypeOK
  <2>3. phase' \in [Clients -> Phases] /\ linked' \subseteq {d \in Clients : phase'[d] = "open"}
    BY <1>4 DEF Truncate, TypeOK, Phases
  <2> QED
    BY <1>4, <2>2, <2>3 DEF Truncate, TypeOK, clientVars
<1>5. ASSUME NEW c \in Clients, Fill(c) PROVE TypeOK'
  <2>1. PICK base \in {seen[c], {}} :
           files' = IF c \in linked THEN [files EXCEPT ![path[c]] = base \cup {c}] ELSE files
    BY <1>5 DEF Fill
  <2>2. base \cup {c} \in Texts
    BY <1>0, <2>1
  <2>3. files' \in [Paths -> {Absent} \cup Texts]
    BY <2>1, <2>2 DEF TypeOK
  <2> QED
    BY <1>5, <2>3, ReleaseTypeOK DEF Fill
<1>6. ASSUME NEW c \in Clients, Fail(c) PROVE TypeOK'
  BY <1>6, ReleaseTypeOK DEF Fail, TypeOK
<1>7. ASSUME NEW c \in Creators, NEW p \in Paths, Create(c, p) PROVE TypeOK'
  <2>1. c \in Clients /\ {} \in Texts
    BY DEF Clients, Texts
  <2>2. files' \in [Paths -> {Absent} \cup Texts] /\ path' \in [Clients -> Paths]
    BY <1>7, <2>1 DEF Create, TypeOK
  <2>3. phase' \in [Clients -> Phases] /\ linked' \subseteq {d \in Clients : phase'[d] = "open"}
    BY <1>7, <2>1 DEF Create, TypeOK, Phases
  <2> QED
    BY <1>7, <2>2, <2>3 DEF Create, TypeOK
<1>8. ASSUME NEW p \in Paths, Delete(p) PROVE TypeOK'
  BY <1>8 DEF Delete, TypeOK, clientVars
<1>9. CASE Crash
  <2>1. {} \in Texts
    BY DEF Texts
  <2> QED
    BY <1>9, <2>1 DEF Crash, TypeOK, Phases
<1>10. CASE UNCHANGED vars
  BY <1>10 DEF vars, TypeOK
<1> QED
  BY <1>1, <1>2, <1>3, <1>4, <1>5, <1>6, <1>7, <1>8, <1>9, <1>10 DEF Next, Step

\* The types, and that creators only create, in every state.
LEMMA TypedCreators == Spec => [](TypeOK /\ CreatorsOnlyCreate)
<1>1. Init => TypeOK /\ CreatorsOnlyCreate
  BY DEF Init, TypeOK, Phases, Texts, CreatorsOnlyCreate, Clients
<1> QED
  BY <1>1, NextTypeOK, NextCreators, PTL DEF Spec

\* Types, in every state.
THEOREM TypeCorrect == Spec => []TypeOK
BY TypedCreators, PTL

-----------------------------------------------------------------------------
\* What a step can do to the chains: nothing, let a writer join, let the head of
\* one leave, or forget them all.
SameChains ==
    /\ tail' = tail /\ before' = before
    /\ \A c \in Writers :
          /\ c \in Chain(path[c]) \/ c \in Chain(path[c])' => path'[c] = path[c]
          /\ \A p \in Paths : c \in Chain(p)' <=> c \in Chain(p)
          /\ before[c] # Nobody => phase'[c] = phase[c]

Joins(c) ==
    /\ phase[c] = "read"
    /\ phase' = [phase EXCEPT ![c] = "queued"]
    /\ before' = [before EXCEPT ![c] = tail[path[c]]]
    /\ tail' = [tail EXCEPT ![path[c]] = c]
    /\ path' = path

Leaves(c) ==
    /\ before[c] = Nobody /\ phase[c] \in {"queued", "checked", "open"}
    /\ phase' = [phase EXCEPT ![c] = "idle"]
    /\ tail' = [tail EXCEPT ![path[c]] = IF @ = c THEN Nobody ELSE @]
    /\ before' = [d \in Clients |-> IF before[d] = c THEN Nobody ELSE before[d]]
    /\ path' = path

\* The steps in these terms.
LEMMA NextChains ==
  ASSUME TypeOK, CreatorsOnlyCreate, ChainInv, [Next]_vars
  PROVE  \/ SameChains
         \/ \E c \in Writers : Joins(c) \/ Leaves(c)
         \/ Crash
<1>0. Writers \subseteq Clients /\ \A c \in Creators : c \in Clients /\ c \notin Writers
  BY ClientsDiffer DEF Clients
<1>1. ASSUME NEW c \in Writers, NEW p \in Paths, NEW m \in BOOLEAN, Read(c, p, m)
      PROVE  SameChains
  BY <1>0, <1>1 DEF Read, SameChains, Chain, TypeOK, ChainInv, Waiters
<1>2. ASSUME NEW c \in Clients, Queue(c) PROVE \E d \in Writers : Joins(d)
  BY <1>2 DEF Queue, Joins, clientVars, CreatorsOnlyCreate, Clients
<1>3. ASSUME NEW c \in Clients, Release(c), phase[c] \in {"queued", "checked", "open"},
             phase[c] = "queued" => before[c] = Nobody
      PROVE  SameChains \/ \E d \in Writers : Leaves(d)
  <2>1. before[c] = Nobody
    BY <1>3 DEF ChainInv, Waiters
  <2>2. CASE c \in Writers
    BY <1>3, <2>1, <2>2 DEF Release, Leaves
  <2>3. CASE c \notin Writers
    <3>1. tail' = tail /\ path' = path
      BY <1>3, <2>3, ClientsDiffer DEF Release, TypeOK, Clients
    <3>2. before' = before
      BY <1>3, <2>3, ClientsDiffer DEF Release, TypeOK, Clients
    <3>3. \A d \in Writers : phase'[d] = phase[d]
      BY <1>0, <1>3, <2>3 DEF Release, TypeOK
    <3> QED
      BY <3>1, <3>2, <3>3 DEF SameChains, Chain
  <2> QED
    BY <2>2, <2>3
<1>4. ASSUME NEW c \in Clients, phase[c] \in {"queued", "checked"}, before[c] = Nobody,
             phase' = [phase EXCEPT ![c] = "checked"] \/ phase' = [phase EXCEPT ![c] = "open"],
             tail' = tail, before' = before, path' = path
      PROVE  SameChains
  <2>1. \A d \in Writers : d # c => phase'[d] = phase[d]
    BY <1>0, <1>4 DEF TypeOK
  <2>2. phase'[c] \in {"queued", "checked", "open"}
    BY <1>4 DEF TypeOK
  <2> QED
    BY <1>4, <2>1, <2>2 DEF SameChains, Chain
<1>5. ASSUME NEW c \in Clients, Check(c)
      PROVE  SameChains \/ \E d \in Writers : Leaves(d)
  <2>1. CASE ifMatch[c] /\ files[path[c]] # seen[c]
    BY <1>3, <1>5, <2>1 DEF Check
  <2>2. CASE ~(ifMatch[c] /\ files[path[c]] # seen[c])
    BY <1>4, <1>5, <2>2 DEF Check, clientVars
  <2> QED
    BY <2>1, <2>2
<1>6. ASSUME NEW c \in Clients, Truncate(c) PROVE SameChains
  <2>1. before[c] = Nobody
    BY <1>6 DEF Truncate, ChainInv, Waiters
  <2> QED
    BY <1>4, <1>6, <2>1 DEF Truncate, clientVars
<1>7. ASSUME NEW c \in Clients, Fill(c) \/ Fail(c)
      PROVE  SameChains \/ \E d \in Writers : Leaves(d)
  BY <1>3, <1>7 DEF Fill, Fail
<1>8. ASSUME NEW c \in Creators, NEW p \in Paths, Create(c, p) PROVE SameChains
  <2>1. \A d \in Writers : phase'[d] = phase[d] /\ path'[d] = path[d]
    BY <1>0, <1>8 DEF Create, TypeOK
  <2> QED
    BY <1>8, <2>1 DEF Create, SameChains, Chain
<1>9. ASSUME NEW p \in Paths, Delete(p) PROVE SameChains
  BY <1>9 DEF Delete, SameChains, Chain, clientVars
<1>10. CASE UNCHANGED vars
  BY <1>10 DEF vars, SameChains, Chain
<1> QED
  BY <1>1, <1>2, <1>5, <1>6, <1>7, <1>8, <1>9, <1>10 DEF Next, Step

-----------------------------------------------------------------------------
\* A writer that joins goes to the end of its chain.
LEMMA JoinKeepsChains ==
  ASSUME TypeOK, ChainInv, NEW c \in Writers, Joins(c)
  PROVE  ChainInv'
<1> DEFINE p == path[c]
<1>0. Writers \subseteq Clients /\ p \in Paths /\ c # Nobody /\ c \in Clients
  BY ClientsDiffer DEF Clients, TypeOK
<1>1. /\ \A d \in Clients : d # c => phase'[d] = phase[d] /\ before'[d] = before[d]
      /\ phase'[c] = "queued" /\ before'[c] = tail[p]
      /\ \A q \in Paths : q # p => tail'[q] = tail[q]
      /\ tail'[p] = c /\ path' = path
  BY <1>0 DEF Joins, TypeOK
<1>2. \A q \in Paths : Chain(q)' = IF q = p THEN Chain(q) \cup {c} ELSE Chain(q)
  BY <1>0, <1>1 DEF Chain
<1>3. c \notin Chain(p) /\ before[c] = Nobody /\ \A d \in Clients : before[d] # c
  BY <1>0 DEF Joins, ChainInv, Waiters, Chain
<1>4. tail[p] = Nobody \/ (tail[p] \in Chain(p) /\ \A d \in Writers : before[d] # tail[p])
  BY <1>0 DEF ChainInv, TailIsEnd
<1>5. Waiters'
  BY <1>0, <1>1, <1>2, <1>3, <1>4 DEF ChainInv, Waiters, TypeOK
<1>6. OneSuccessor'
  <2> SUFFICES ASSUME NEW q \in Paths, NEW d \in Chain(q)', NEW e \in Chain(q)',
                      before'[d] = before'[e]
               PROVE  d = e
    BY DEF OneSuccessor
  <2>0. d \in Writers /\ e \in Writers
    BY DEF Chain
  <2>1. CASE d # c /\ e # c
    <3>1. d \in Chain(q) /\ e \in Chain(q)
      BY <1>2, <2>1
    <3>2. before[d] = before[e]
      BY <1>0, <1>1, <2>0, <2>1
    <3> QED
      BY <3>1, <3>2 DEF ChainInv, OneSuccessor
  <2>2. ASSUME NEW x \in Chain(q)', x # c, c \in Chain(q)', before'[x] = before'[c] PROVE FALSE
    <3>1. q = p /\ x \in Chain(p) /\ x \in Writers
      BY <1>0, <1>1, <1>2, <2>2 DEF Chain
    <3>2. before[x] = tail[p]
      BY <1>0, <1>1, <2>2, <3>1
    <3>3. tail[p] = Nobody
      BY <1>4, <3>1, <3>2
    <3> QED
      BY <1>0, <3>1, <3>3 DEF ChainInv, TailKept
  <2> QED
    BY <2>1, <2>2
<1>7. TailIsEnd'
  <2> SUFFICES ASSUME NEW q \in Paths, tail'[q] # Nobody
               PROVE  tail'[q] \in Chain(q)' /\ \A d \in Writers : before'[d] # tail'[q]
    BY DEF TailIsEnd
  <2>1. CASE q = p
    <3>1. \A d \in Writers : before'[d] # c
      BY <1>0, <1>1, <1>3, <1>4 DEF Chain
    <3> QED
      BY <1>0, <1>1, <1>2, <2>1, <3>1
  <2>2. CASE q # p
    <3>1. /\ tail[q] # Nobody /\ tail[q] \in Chain(q)
          /\ \A d \in Writers : before[d] # tail[q]
      BY <1>1, <2>2 DEF ChainInv, TailIsEnd
    <3>2. tail[p] # tail[q]
      BY <1>4, <2>2, <3>1 DEF Chain
    <3> QED
      BY <1>0, <1>1, <1>2, <2>2, <3>1, <3>2
  <2> QED
    BY <2>1, <2>2
<1>8. TailKept'
  BY <1>0, <1>1, <1>2 DEF ChainInv, TailKept
<1>9. Grounded'
  <2> SUFFICES ASSUME NEW S \in SUBSET Writers, S # {}
               PROVE  \E d \in S : before'[d] \notin S
    BY DEF Grounded
  <2>1. CASE S \ {c} = {}
    <3>1. S = {c} /\ tail[p] # c
      BY <1>3, <1>4, <2>1, <1>0
    <3> QED
      BY <1>1, <3>1
  <2>2. CASE S \ {c} # {}
    <3>1. PICK d \in S \ {c} : before[d] \notin S \ {c}
      BY <2>2 DEF ChainInv, Grounded
    <3> QED
      BY <1>0, <1>1, <1>3, <3>1
  <2> QED
    BY <2>1, <2>2
<1> QED
  BY <1>5, <1>6, <1>7, <1>8, <1>9 DEF ChainInv

\* When the head of a chain leaves, the next one becomes the head.
LEMMA LeaveKeepsChains ==
  ASSUME TypeOK, ChainInv, NEW c \in Writers, Leaves(c)
  PROVE  ChainInv'
<1> DEFINE p == path[c]
<1>0. Writers \subseteq Clients /\ p \in Paths /\ c # Nobody /\ c \in Clients
  BY ClientsDiffer DEF Clients, TypeOK
<1>1. /\ \A d \in Clients : d # c => phase'[d] = phase[d]
      /\ phase'[c] = "idle" /\ path' = path
      /\ \A d \in Clients : before'[d] = IF before[d] = c THEN Nobody ELSE before[d]
      /\ \A q \in Paths : q # p => tail'[q] = tail[q]
      /\ tail'[p] = IF tail[p] = c THEN Nobody ELSE tail[p]
  BY <1>0 DEF Leaves, TypeOK
<1>2. \A q \in Paths : Chain(q)' = Chain(q) \ {c}
  BY <1>0, <1>1 DEF Chain
<1>3. c \in Chain(p) /\ before[c] = Nobody
  BY DEF Leaves, Chain
<1>4. \A d \in Chain(p) : before[d] = Nobody => d = c
  BY <1>0, <1>3 DEF ChainInv, OneSuccessor
<1>5. Waiters'
  BY <1>0, <1>1, <1>2, <1>3 DEF ChainInv, Waiters, TypeOK
<1>6. OneSuccessor'
  <2> SUFFICES ASSUME NEW q \in Paths, NEW d \in Chain(q)', NEW e \in Chain(q)',
                      before'[d] = before'[e]
               PROVE  d = e
    BY DEF OneSuccessor
  <2>1. /\ d \in Chain(q) /\ d # c /\ d \in Clients
        /\ e \in Chain(q) /\ e # c /\ e \in Clients
    BY <1>0, <1>2 DEF Chain
  <2>2. ASSUME NEW x \in Chain(q), NEW y \in Chain(q), before[x] = c, before[y] = Nobody
        PROVE  y = c
    <3>1. q = p
      BY <1>0, <2>2 DEF ChainInv, Waiters, Chain
    <3> QED
      BY <1>4, <2>2, <3>1
  <2>3. CASE before[d] = before[e]
    BY <2>1, <2>3 DEF ChainInv, OneSuccessor
  <2>4. CASE before[d] # before[e]
    <3>1. \/ before[d] = c /\ before[e] = Nobody
          \/ before[e] = c /\ before[d] = Nobody
      BY <1>1, <2>1, <2>4
    <3> QED
      BY <2>1, <2>2, <3>1
  <2> QED
    BY <2>3, <2>4
<1>7. TailIsEnd'
  <2> SUFFICES ASSUME NEW q \in Paths, tail'[q] # Nobody
               PROVE  tail'[q] \in Chain(q)' /\ \A d \in Writers : before'[d] # tail'[q]
    BY DEF TailIsEnd
  <2>1. tail'[q] = tail[q] /\ tail[q] # Nobody /\ tail[q] # c
    <3>1. CASE q = p
      BY <1>1, <3>1
    <3>2. CASE q # p
      <4>1. tail'[q] = tail[q] /\ tail[q] # Nobody
        BY <1>1, <3>2
      <4>2. tail[q] \in Chain(q)
        BY <4>1 DEF ChainInv, TailIsEnd
      <4> QED
        BY <1>3, <3>2, <4>1, <4>2 DEF Chain
    <3> QED
      BY <3>1, <3>2
  <2>2. tail[q] \in Chain(q) /\ \A d \in Writers : before[d] # tail[q]
    BY <2>1 DEF ChainInv, TailIsEnd
  <2> QED
    BY <1>0, <1>1, <1>2, <2>1, <2>2
<1>8. TailKept'
  <2> SUFFICES ASSUME NEW q \in Paths, tail'[q] = Nobody PROVE Chain(q)' = {}
    BY DEF TailKept
  <2>1. CASE tail[q] = Nobody
    BY <1>2, <2>1 DEF ChainInv, TailKept
  <2>2. CASE tail[q] # Nobody
    <3>1. q = p /\ tail[p] = c
      BY <1>1, <2>2
    <3>2. \A d \in Writers : before[d] # c
      BY <1>0, <3>1 DEF ChainInv, TailIsEnd
    <3>3. ASSUME Chain(p) \ {c} # {} PROVE FALSE
      <4>1. Chain(p) \ {c} \in SUBSET Writers
        BY DEF Chain
      <4>2. PICK d \in Chain(p) \ {c} : before[d] \notin Chain(p) \ {c}
        BY <3>3, <4>1 DEF ChainInv, Grounded
      <4>3. before[d] # Nobody
        BY <1>4, <4>2
      <4>4. before[d] \in Chain(path[d]) /\ path[d] = p
        BY <1>0, <4>2, <4>3 DEF ChainInv, Waiters, Chain
      <4> QED
        BY <3>2, <4>2, <4>4 DEF Chain
    <3> QED
      BY <1>2, <3>1, <3>3
  <2> QED
    BY <2>1, <2>2
<1>9. Grounded'
  <2> SUFFICES ASSUME NEW S \in SUBSET Writers, S # {}
               PROVE  \E d \in S : before'[d] \notin S
    BY DEF Grounded
  <2>1. PICK d \in S : before[d] \notin S
    BY DEF ChainInv, Grounded
  <2>2. Nobody \notin S
    BY <1>0, ClientsDiffer
  <2> QED
    BY <1>0, <1>1, <2>1, <2>2
<1> QED
  BY <1>5, <1>6, <1>7, <1>8, <1>9 DEF ChainInv

\* Every step keeps the chains in order.
LEMMA NextChainInv ==
  TypeOK /\ CreatorsOnlyCreate /\ ChainInv /\ [Next]_vars => ChainInv'
<1> SUFFICES ASSUME TypeOK, CreatorsOnlyCreate, ChainInv, [Next]_vars PROVE ChainInv'
  OBVIOUS
<1>1. CASE SameChains
  <2>0. \A c \in Writers : path[c] \in Paths /\ path'[c] \in Paths
    BY NextTypeOK DEF TypeOK, Clients
  <2>1. Waiters'
    BY <1>1, <2>0 DEF SameChains, ChainInv, Waiters, Chain
  <2>2. OneSuccessor'
    BY <1>1, <2>0 DEF SameChains, ChainInv, OneSuccessor, Chain
  <2>3. \A q \in Paths : Chain(q)' = Chain(q)
    BY <1>1 DEF SameChains, Chain
  <2>4. TailIsEnd' /\ TailKept'
    BY <1>1, <2>3 DEF SameChains, ChainInv, TailIsEnd, TailKept
  <2>5. Grounded'
    BY <1>1 DEF SameChains, ChainInv, Grounded
  <2> QED
    BY <2>1, <2>2, <2>4, <2>5 DEF ChainInv
<1>2. CASE \E c \in Writers : Joins(c) \/ Leaves(c)
  BY <1>2, JoinKeepsChains, LeaveKeepsChains
<1>3. CASE Crash
  <2>1. /\ \A c \in Writers : c \in Clients /\ c # Nobody
        /\ \A c \in Clients : before'[c] = Nobody /\ phase'[c] = "idle"
        /\ \A q \in Paths : tail'[q] = Nobody
    BY <1>3, ClientsDiffer DEF Crash, Clients
  <2>2. \A q : Chain(q)' = {}
    BY <2>1 DEF Chain
  <2>3. Grounded'
    BY <2>1 DEF Grounded
  <2> QED
    BY <2>1, <2>2, <2>3 DEF ChainInv, Waiters, OneSuccessor, TailIsEnd, TailKept
<1> QED
  BY <1>1, <1>2, <1>3, NextChains

\* The chains are in order in every state.
LEMMA ChainInvHolds == Spec => []ChainInv
<1>1. Init => ChainInv
  <2> SUFFICES ASSUME Init PROVE ChainInv
    OBVIOUS
  <2>1. /\ \A c \in Writers : c \in Clients /\ c # Nobody
        /\ \A c \in Clients : before[c] = Nobody /\ phase[c] = "idle"
        /\ \A q \in Paths : tail[q] = Nobody
    BY ClientsDiffer DEF Init, Clients
  <2>2. \A q : Chain(q) = {}
    BY <2>1 DEF Chain
  <2>3. Grounded
    BY <2>1 DEF Grounded
  <2> QED
    BY <2>1, <2>2, <2>3 DEF ChainInv, Waiters, OneSuccessor, TailIsEnd, TailKept
<1> QED
  BY <1>1, NextChainInv, TypedCreators, PTL DEF Spec

\* The lock of a path is held by one writer at a time, whoever comes, leaves, fails
\* or comes back.
LEMMA ChainsSerial == ASSUME TypeOK, ChainInv PROVE WritesSerial
<1> SUFFICES ASSUME NEW c \in Writers, NEW d \in Writers, Writing(c), Writing(d),
                    path[c] = path[d]
             PROVE  c = d
  BY DEF WritesSerial
<1>1. before[c] = Nobody /\ before[d] = Nobody
  BY DEF Writing, ChainInv, Waiters, Clients
<1>2. c \in Chain(path[d]) /\ d \in Chain(path[d]) /\ path[d] \in Paths
  BY DEF Writing, Chain, TypeOK, Clients
<1> QED
  BY <1>1, <1>2 DEF ChainInv, OneSuccessor

\* Writers of one path are serialized, for any number of them.
THEOREM WritesSerialHolds == Spec => []WritesSerial
<1>1. TypeOK /\ ChainInv => WritesSerial
  BY ChainsSerial
<1> QED
  BY <1>1, TypeCorrect, ChainInvHolds, PTL

\* A chain has a head, which awaits nobody.
HeadAwaitsNobody == \A p \in Paths : Chain(p) # {} => \E c \in Chain(p) : before[c] = Nobody

\* The lock never blocks: as long as writers of a path have asked for it, one of them has
\* it. No error path, release or crash leaves writers that only await each other.
THEOREM LockNeverBlocks == Spec => []HeadAwaitsNobody
<1>1. ChainInv => HeadAwaitsNobody
  <2> SUFFICES ASSUME ChainInv, NEW p \in Paths, Chain(p) # {}
               PROVE  \E c \in Chain(p) : before[c] = Nobody
    BY DEF HeadAwaitsNobody
  <2>1. PICK c \in Chain(p) : before[c] \notin Chain(p)
    <3>1. Chain(p) \in SUBSET Writers
      BY DEF Chain
    <3> QED
      BY <3>1 DEF ChainInv, Grounded
  <2>2. c \in Clients /\ path[c] = p
    BY DEF Chain, Clients
  <2> QED
    BY <2>1, <2>2 DEF ChainInv, Waiters
<1> QED
  BY <1>1, ChainInvHolds, PTL

-----------------------------------------------------------------------------
\* While a writer that passed its check waits for its file to be opened, other
\* clients can only delete the note or create it again.
LEMMA NextMatchedKeepsWrites ==
  TypeOK /\ CreatorsOnlyCreate /\ ChainInv /\ MatchedKeepsWrites /\ [Next]_vars
     => MatchedKeepsWrites'
<1> SUFFICES ASSUME TypeOK, CreatorsOnlyCreate, ChainInv, MatchedKeepsWrites, [Next]_vars,
                    NEW w \in Writers, phase'[w] = "checked", ifMatch'[w],
                    files'[path'[w]] # Absent
             PROVE  files'[path'[w]] \ seen'[w] \subseteq Creators
  BY DEF MatchedKeepsWrites
<1> DEFINE Kept == files'[path'[w]] \ seen'[w] \subseteq Creators
<1>0. /\ w \in Clients /\ path[w] \in Paths /\ WritesSerial
      /\ \A c \in Creators : c \in Clients /\ c \notin Writers
  BY ChainsSerial, ClientsDiffer DEF TypeOK, Clients
<1>1. ASSUME phase[w] = "checked", ifMatch[w], path'[w] = path[w], seen'[w] = seen[w],
             files'[path[w]] = files[path[w]]
      PROVE  Kept
  BY <1>1 DEF MatchedKeepsWrites
<1>2. ASSUME NEW c \in Writers, NEW p \in Paths, NEW m \in BOOLEAN, Read(c, p, m)
      PROVE  Kept
  <2>1. c \in Clients /\ c # w
    BY <1>0, <1>2 DEF Read, TypeOK, Clients
  <2> QED
    BY <1>0, <1>1, <1>2, <2>1 DEF Read, TypeOK
<1>3. ASSUME NEW c \in Clients, Release(c)
      PROVE  c # w /\ phase[w] = "checked" /\ ifMatch[w] /\ path' = path /\ seen'[w] = seen[w]
  BY <1>0, <1>3 DEF Release, TypeOK
<1>4. ASSUME NEW c \in Clients, Queue(c) PROVE Kept
  <2>1. c # w
    BY <1>0, <1>4 DEF Queue, TypeOK
  <2> QED
    BY <1>0, <1>1, <1>4, <2>1 DEF Queue, TypeOK, clientVars
<1>5. ASSUME NEW c \in Clients, Check(c) PROVE Kept
  <2>1. CASE ifMatch[c] /\ files[path[c]] # seen[c]
    BY <1>1, <1>3, <1>5, <2>1 DEF Check
  <2>2. CASE ~(ifMatch[c] /\ files[path[c]] # seen[c])
    <3>1. phase' = [phase EXCEPT ![c] = "checked"] /\ UNCHANGED <<files, path, seen, ifMatch>>
      BY <1>5, <2>2 DEF Check, clientVars
    <3>2. CASE c = w
      <4>1. files[path[w]] = seen[w]
        BY <2>2, <3>1, <3>2
      <4> QED
        BY <3>1, <4>1
    <3>3. CASE c # w
      BY <1>0, <1>1, <3>1, <3>3 DEF TypeOK
    <3> QED
      BY <3>2, <3>3
  <2> QED
    BY <2>1, <2>2
<1>6. ASSUME NEW c \in Clients, Truncate(c) PROVE Kept
  <2>1. c # w
    BY <1>0, <1>6 DEF Truncate, TypeOK
  <2>2. phase[w] = "checked" /\ ifMatch[w] /\ UNCHANGED <<path, seen>>
    BY <1>0, <1>6, <2>1 DEF Truncate, TypeOK, clientVars
  <2>3. c \in Writers
    BY <1>6 DEF Truncate, CreatorsOnlyCreate, Clients
  <2>4. path[c] # path[w]
    BY <1>0, <1>6, <2>1, <2>2, <2>3 DEF Truncate, WritesSerial, Writing
  <2>5. files'[path[w]] = files[path[w]]
    BY <1>0, <1>6, <2>4 DEF Truncate, TypeOK
  <2> QED
    BY <1>1, <2>2, <2>5
<1>7. ASSUME NEW c \in Clients, Fill(c) PROVE Kept
  <2>1. c # w /\ phase[w] = "checked" /\ ifMatch[w] /\ path' = path /\ seen'[w] = seen[w]
    BY <1>3, <1>7 DEF Fill
  <2>2. PICK base \in {seen[c], {}} :
           files' = IF c \in linked THEN [files EXCEPT ![path[c]] = base \cup {c}] ELSE files
    BY <1>7 DEF Fill
  <2>3. CASE c \notin linked \/ path[c] # path[w]
    <3>1. files'[path[w]] = files[path[w]]
      BY <1>0, <2>2, <2>3 DEF TypeOK
    <3> QED
      BY <1>1, <2>1, <3>1
  <2>4. CASE c \in linked /\ path[c] = path[w]
    <3>1. c \notin Writers
      BY <1>0, <1>7, <2>1, <2>4 DEF Fill, WritesSerial, Writing
    <3>2. c \in Creators /\ base = {}
      BY <2>2, <3>1 DEF CreatorsOnlyCreate, Clients
    <3>3. files'[path[w]] = {c}
      BY <1>0, <2>2, <2>4, <3>2 DEF TypeOK
    <3> QED
      BY <2>1, <3>2, <3>3
  <2> QED
    BY <2>3, <2>4
<1>8. ASSUME NEW c \in Clients, Fail(c) PROVE Kept
  BY <1>1, <1>3, <1>8 DEF Fail
<1>9. ASSUME NEW c \in Creators, NEW p \in Paths, Create(c, p) PROVE Kept
  <2>1. phase[w] = "checked" /\ ifMatch[w] /\ path'[w] = path[w] /\ seen'[w] = seen[w]
    BY <1>0, <1>9 DEF Create, TypeOK
  <2>2. files'[path[w]] = {} \/ files'[path[w]] = files[path[w]]
    BY <1>0, <1>9 DEF Create, TypeOK
  <2> QED
    BY <1>1, <2>1, <2>2
<1>10. ASSUME NEW p \in Paths, Delete(p) PROVE Kept
  <2>1. phase[w] = "checked" /\ ifMatch[w] /\ path' = path /\ seen' = seen
    BY <1>10 DEF Delete, clientVars
  <2>2. files'[path[w]] = files[path[w]]
    BY <1>0, <1>10, <2>1 DEF Delete, TypeOK
  <2> QED
    BY <1>1, <2>1, <2>2
<1>11. CASE Crash
  BY <1>0, <1>11 DEF Crash
<1>12. CASE UNCHANGED vars
  BY <1>1, <1>12 DEF vars
<1> QED
  BY <1>2, <1>4, <1>5, <1>6, <1>7, <1>8, <1>9, <1>10, <1>11, <1>12 DEF Next, Step

\* A write with an etag never overwrites another writer's edit, in any state.
THEOREM MatchedKeepsWritesHolds == Spec => []MatchedKeepsWrites
<1>1. Init => MatchedKeepsWrites
  BY DEF Init, MatchedKeepsWrites, Clients
<1> QED
  BY <1>1, NextMatchedKeepsWrites, TypedCreators, ChainInvHolds, PTL DEF Spec
=============================================================================
