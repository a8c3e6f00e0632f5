------------------------- MODULE IndexDaemon_proofs -------------------------
(***************************************************************************)
(* Proofs about the proxy-indexing queue and about the loop of the queue   *)
(* and a daemon, for any repositories, machines, paths and limits.         *)
(*                                                                         *)
(* Of the queue, under any callers: each invariant is inductive on top of  *)
(* TypeOK; with RowsApart and FailedFinite they give the refinement of     *)
(* IndexJobs.  Of the loop: its steps are steps of the queue, so that what *)
(* holds of the queue holds of the loop; the symbols it pushes are there   *)
(* when a request is closed, and nobody waits for a push that is over.     *)
(***************************************************************************)
EXTENDS IndexDaemon, TLAPS, FiniteSetTheorems, SequenceTheorems

\* The updates of a row stay within its columns.
LEMMA RowUpdates ==
  ASSUME NEW x \in Request
  PROVE  /\ Resolved(x, "done") \in Request
         /\ Resolved(x, "failed") \in Request
         /\ \A m, S : AfterClaim(x, m, S) \in Request
         /\ x.age <= ReclaimAfter => [x EXCEPT !.age = x.age + 1] \in Request
<1>1. /\ 0 \in 0 .. ReclaimAfter + 1
      /\ x.attempts + 1 \in Nat
      /\ x.age <= ReclaimAfter => x.age + 1 \in 0 .. ReclaimAfter + 1
  BY LimitsAreNatural DEF Request
<1>2. Resolved(x, "done") \in Request /\ Resolved(x, "failed") \in Request
  BY <1>1 DEF Resolved, Request
<1>3. [x EXCEPT !.status = "claimed", !.age = 0, !.attempts = x.attempts + 1] \in Request
  BY <1>1 DEF Request
<1>4. \A m, S : AfterClaim(x, m, S) \in Request
  BY <1>2, <1>3 DEF AfterClaim
<1>5. x.age <= ReclaimAfter => [x EXCEPT !.age = x.age + 1] \in Request
  BY <1>1 DEF Request
<1> QED
  BY <1>2, <1>4, <1>5

\* The tables start empty.
LEMMA InitTypeOK == Init => TypeOK
BY NonesAreNone DEF Init, TypeOK

\* Taking a path over only removes checkouts.
LEMMA TakenOverRemoves ==
  ASSUME TypeOK, NEW r \in Repos, NEW m \in Machines, NEW p \in Paths,
         NEW rest \in TakenOver(r, m, p)
  PROVE  /\ rest \in [Repos -> [Machines -> Paths \cup {NoPath}]]
         /\ \A q \in Repos, n \in Machines : rest[q][n] = checkouts[q][n] \/ rest[q][n] = NoPath
         /\ rest[r] = checkouts[r]
<1>0. checkouts \in [Repos -> [Machines -> Paths \cup {NoPath}]]
  BY DEF TypeOK
<1>1. \/ rest = checkouts
      \/ \E q \in Repos \ {r} : rest = [checkouts EXCEPT ![q][m] = NoPath]
  BY DEF TakenOver
<1>2. ASSUME NEW q \in Repos \ {r}, rest = [checkouts EXCEPT ![q][m] = NoPath]
      PROVE  /\ rest \in [Repos -> [Machines -> Paths \cup {NoPath}]]
             /\ \A p1 \in Repos, n \in Machines :
                   rest[p1][n] = checkouts[p1][n] \/ rest[p1][n] = NoPath
             /\ rest[r] = checkouts[r]
  BY <1>0, <1>2
<1> QED
  BY <1>0, <1>1, <1>2

\* Every handler keeps the tables well typed.
LEMMA NextTypeOK == TypeOK /\ [Next]_vars => TypeOK'
<1> USE ServerIsMachine, NonesAreNone, CodeReposAreRepos, LimitsAreNatural
<1> SUFFICES ASSUME TypeOK, [Next]_vars PROVE TypeOK'
  OBVIOUS
<1>1. ASSUME NEW r \in Repos, Enqueue(r) PROVE TypeOK'
  <2>1. NewRequests(r) \subseteq Request
    BY DEF TypeOK, NewRequests, Request, Remote
  <2> QED
    BY <1>1, <2>1 DEF TypeOK, Enqueue
<1>2. ASSUME NEW m \in Remote, NEW limit, NEW S \in SUBSET requests, Claim(m, limit, S)
      PROVE TypeOK'
  <2>1. \A x \in requests : AfterClaim(x, m, S) \in Request
    BY RowUpdates DEF TypeOK
  <2> QED
    BY <1>2, <2>1 DEF TypeOK, Claim
<1>3. ASSUME NEW m \in Remote, NEW p \in Paths, Fail(m, p) PROVE TypeOK'
  BY <1>3, RowUpdates DEF TypeOK, Fail, IsReported
<1>4. ASSUME NEW r \in Repos, NEW m \in Machines, NEW p \in Paths, NEW s \in Slugs,
             IngestBegin(r, m, p, s) \/ IngestFailed(r, m, p, s) \/ IngestRefused(r, m, p, s)
      PROVE TypeOK'
  <2>1. TakenOver(r, m, p) \subseteq [Repos -> [Machines -> Paths \cup {NoPath}]]
    BY TakenOverRemoves
  <2>2. CASE IngestRefused(r, m, p, s)
    BY <2>1, <2>2 DEF TypeOK, IngestRefused
  <2>3. CASE IngestBegin(r, m, p, s) \/ IngestFailed(r, m, p, s)
    <3>1. PICK rest \in TakenOver(r, m, p) : checkouts' = [rest EXCEPT ![r][m] = p]
      BY <2>3 DEF IngestBegin, IngestFailed, StoreRepo
    <3>2. checkouts' \in [Repos -> [Machines -> Paths \cup {NoPath}]]
      BY <2>1, <3>1
    <3>3. /\ slugs' \in [Repos -> Slugs \cup {NoSlug}]
          /\ requests' = requests /\ enqueues' = enqueues
      BY <2>3 DEF TypeOK, IngestBegin, IngestFailed, StoreRepo
    <3>4. ingesting' \in [Repos -> Machines \cup {NoMachine}]
      BY <2>3 DEF TypeOK, IngestBegin, IngestFailed
    <3> QED
      BY <3>2, <3>3, <3>4 DEF TypeOK
  <2> QED
    BY <1>4, <2>2, <2>3
<1>5. ASSUME NEW r \in Repos, IngestEnd(r) PROVE TypeOK'
  BY <1>5, RowUpdates DEF TypeOK, IngestEnd, Completed
<1>6. ASSUME NEW r \in Repos, Drop(r) PROVE TypeOK'
  BY <1>6 DEF TypeOK, Drop
<1>7. ASSUME NEW r \in Repos, NEW p \in Paths, NEW s \in Slugs, Register(r, p, s)
      PROVE TypeOK'
  BY <1>7 DEF TypeOK, Register
<1>8. CASE Restart
  <2>1. \A r \in Repos : Booted(r) => CodeRepos[r] \in [path : Paths, slug : Slugs]
    BY DEF Booted
  <2> QED
    BY <1>8, <2>1 DEF TypeOK, Restart
<1>9. CASE Tick
  BY <1>9, RowUpdates DEF TypeOK, Tick
<1>10. CASE UNCHANGED vars
  BY <1>10 DEF TypeOK, vars
<1>11. ASSUME NEW r \in Repos, NEW s \in Slugs, Rename(r, s) PROVE TypeOK'
  BY <1>11 DEF TypeOK, Rename
<1>12. ASSUME NEW r \in Repos, LocalIndex(r) PROVE TypeOK'
  BY <1>12 DEF TypeOK, LocalIndex
<1> QED
  BY <1>1, <1>2, <1>3, <1>4, <1>5, <1>6, <1>7, <1>8, <1>9, <1>10, <1>11, <1>12 DEF Next

\* The tables hold rows of the declared columns in every reachable state.
THEOREM TypeCorrect == Spec => []TypeOK
BY InitTypeOK, NextTypeOK, PTL DEF Spec

-----------------------------------------------------------------------------
\* What a poll keeps of a row: its repository, machine and position; and it
\* touches open rows only.
LEMMA ClaimKeeps ==
  ASSUME NEW x \in Request, NEW m, NEW S, \A y \in S : Claimable(y)
  PROVE  /\ AfterClaim(x, m, S).repo = x.repo
         /\ AfterClaim(x, m, S).machine = x.machine
         /\ Outstanding(AfterClaim(x, m, S)) => Outstanding(x)
         /\ ~Outstanding(x) => AfterClaim(x, m, S) = x
<1>1. CASE x \in S
  <2>1. Outstanding(x)
    BY <1>1 DEF Claimable, Lapsed, Outstanding
  <2> DEFINE y == [x EXCEPT !.status = "claimed", !.age = 0, !.attempts = x.attempts + 1]
  <2>2. AfterClaim(x, m, S) = y
    BY <1>1 DEF AfterClaim
  <2>3. y.repo = x.repo /\ y.machine = x.machine
    BY DEF Request
  <2> QED
    BY <2>1, <2>2, <2>3
<1>2. CASE x \notin S /\ x.machine = m /\ Exhausted(x)
  <2>1. Outstanding(x)
    BY <1>2 DEF Exhausted, Lapsed, Outstanding
  <2> QED
    BY <1>2, <2>1 DEF AfterClaim, Resolved, Request
<1>3. CASE x \notin S /\ ~(x.machine = m /\ Exhausted(x))
  BY <1>3 DEF AfterClaim
<1> QED
  BY <1>1, <1>2, <1>3

\* The same of a row's resolution and of the clock.
LEMMA ResolvedKeeps ==
  ASSUME NEW x \in Request, NEW s \in {"done", "failed"}
  PROVE  /\ Resolved(x, s).repo = x.repo
         /\ Resolved(x, s).machine = x.machine
         /\ ~Outstanding(Resolved(x, s))
BY DEF Resolved, Outstanding, Request

\* The clock changes the age of a row only.
LEMMA TickKeeps ==
  ASSUME NEW x \in Request
  PROVE  LET y == [x EXCEPT !.age = x.age + 1]
         IN  /\ y.repo = x.repo /\ y.machine = x.machine
             /\ Outstanding(y) <=> Outstanding(x)
BY DEF Outstanding, Request

-----------------------------------------------------------------------------
\* No step gives a repository and machine a second open request.
LEMMA NextOneOutstanding == TypeOK /\ OneOutstanding /\ [Next]_vars => OneOutstanding'
<1> SUFFICES ASSUME TypeOK, OneOutstanding, [Next]_vars,
                    NEW a \in requests', NEW b \in requests',
                    Outstanding(a), Outstanding(b),
                    a.repo = b.repo, a.machine = b.machine
             PROVE  a = b
  BY DEF OneOutstanding
<1>0. \A x \in requests : x \in Request
  BY DEF TypeOK
<1>1. CASE requests' \subseteq requests
  BY <1>1 DEF OneOutstanding
<1>2. ASSUME NEW r \in Repos, Enqueue(r) PROVE a = b
  <2>1. ASSUME NEW x \in NewRequests(r), NEW y \in requests, Outstanding(y),
               x.repo = y.repo, x.machine = y.machine
        PROVE  FALSE
    BY <2>1 DEF NewRequests
  <2>2. ASSUME NEW x \in NewRequests(r), NEW y \in NewRequests(r), x.machine = y.machine
        PROVE  x = y
    BY <2>2 DEF NewRequests
  <2> QED
    BY <1>2, <2>1, <2>2 DEF Enqueue, OneOutstanding
<1>3. ASSUME NEW m \in Remote, NEW limit, NEW S \in SUBSET requests, Claim(m, limit, S)
      PROVE  a = b
  <2>1. \A y \in S : Claimable(y)
    BY <1>3 DEF Claim, IsOldest
  <2>2. PICK x \in requests : a = AfterClaim(x, m, S)
    BY <1>3 DEF Claim
  <2>3. PICK y \in requests : b = AfterClaim(y, m, S)
    BY <1>3 DEF Claim
  <2>4. Outstanding(x) /\ Outstanding(y) /\ x.repo = y.repo /\ x.machine = y.machine
    BY <1>0, <2>1, <2>2, <2>3, ClaimKeeps
  <2> QED
    BY <2>2, <2>3, <2>4 DEF OneOutstanding
<1>4. ASSUME NEW m \in Remote, NEW p \in Paths, Fail(m, p) PROVE a = b
  <2>1. PICK x \in requests :
           requests' \subseteq requests \cup {Resolved(x, "failed")}
    BY <1>4 DEF Fail, IsReported
  <2>2. a # Resolved(x, "failed") /\ b # Resolved(x, "failed")
    BY <1>0, ResolvedKeeps
  <2> QED
    BY <2>1, <2>2 DEF OneOutstanding
<1>5. ASSUME NEW r \in Repos, IngestEnd(r) PROVE a = b
  <2>1. \A x \in requests : Resolved(x, "done") # a /\ Resolved(x, "done") # b
    BY <1>0, ResolvedKeeps
  <2>2. a \in requests /\ b \in requests
    BY <1>5, <2>1 DEF IngestEnd, Completed
  <2> QED
    BY <2>2 DEF OneOutstanding
<1>6. CASE Tick
  <2> DEFINE older(x) == IF x.status = "claimed" /\ x.age <= ReclaimAfter
                           THEN [x EXCEPT !.age = x.age + 1] ELSE x
  <2>1. PICK x \in requests : a = older(x)
    BY <1>6 DEF Tick
  <2>2. PICK y \in requests : b = older(y)
    BY <1>6 DEF Tick
  <2>3. Outstanding(x) /\ Outstanding(y) /\ x.repo = y.repo /\ x.machine = y.machine
    BY <1>0, <2>1, <2>2, TickKeeps
  <2> QED
    BY <2>1, <2>2, <2>3 DEF OneOutstanding
<1> QED
  BY <1>1, <1>2, <1>3, <1>4, <1>5, <1>6
     DEF Next, vars, IngestBegin, IngestFailed, IngestRefused, LocalIndex, Drop, Rename,
         Register, Restart

\* A repository and machine never have two requests to work on.
THEOREM OneOutstandingHolds == Spec => []OneOutstanding
<1>1. Init => OneOutstanding
  BY DEF Init, OneOutstanding
<1> QED
  BY <1>1, NextOneOutstanding, TypeCorrect, PTL DEF Spec

-----------------------------------------------------------------------------
\* A row within the bounds of ServesBounded.
InBounds(x) ==
    /\ x.attempts <= MaxAttempts
    /\ x.status = "pending" => x.attempts = 0
    /\ x.status = "claimed" => x.attempts > 0
    /\ x.status = "failed" => x.attempts = MaxAttempts

\* A poll keeps a row within its bounds: it serves only what is not exhausted, and
\* fails only what is.
LEMMA ClaimInBounds ==
  ASSUME NEW x \in Request, InBounds(x), NEW m, NEW S, \A y \in S : Claimable(y)
  PROVE  InBounds(AfterClaim(x, m, S))
<1> USE LimitsAreNatural
<1>1. CASE x \in S
  <2> DEFINE y == [x EXCEPT !.status = "claimed", !.age = 0, !.attempts = x.attempts + 1]
  <2>1. AfterClaim(x, m, S) = y
    BY <1>1 DEF AfterClaim
  <2>2. y.status = "claimed" /\ y.attempts = x.attempts + 1
    BY DEF Request
  <2>3. x.attempts \in Nat
    BY DEF Request
  <2>4. x.attempts < MaxAttempts
    BY <1>1, <2>3 DEF InBounds, Claimable, Exhausted
  <2> QED
    BY <2>1, <2>2, <2>3, <2>4 DEF InBounds
<1>2. CASE x \notin S /\ x.machine = m /\ Exhausted(x)
  <2>1. AfterClaim(x, m, S) = Resolved(x, "failed")
    BY <1>2 DEF AfterClaim
  <2>2. x.attempts \in Nat /\ x.attempts = MaxAttempts
    BY <1>2 DEF Exhausted, InBounds, Request
  <2>3. Resolved(x, "failed").status = "failed"
        /\ Resolved(x, "failed").attempts = x.attempts
    BY DEF Resolved, Request
  <2> QED
    BY <2>1, <2>2, <2>3 DEF InBounds
<1>3. CASE x \notin S /\ ~(x.machine = m /\ Exhausted(x))
  BY <1>3 DEF AfterClaim
<1> QED
  BY <1>1, <1>2, <1>3

\* No step serves a request too often or fails one that was served too little.
LEMMA NextServesBounded == TypeOK /\ ServesBounded /\ [Next]_vars => ServesBounded'
<1> USE LimitsAreNatural
<1> SUFFICES ASSUME TypeOK, \A x \in requests : InBounds(x), [Next]_vars,
                    NEW a \in requests'
             PROVE  InBounds(a)
  BY DEF ServesBounded, InBounds
<1>0. \A x \in requests : x \in Request
  BY DEF TypeOK
<1>1. CASE requests' \subseteq requests
  BY <1>1
<1>2. ASSUME NEW r \in Repos, Enqueue(r) PROVE InBounds(a)
  <2>1. ASSUME a \in NewRequests(r) PROVE a.status = "pending" /\ a.attempts = 0
    BY <2>1 DEF NewRequests
  <2> QED
    BY <1>2, <2>1 DEF Enqueue, InBounds
<1>3. ASSUME NEW m \in Remote, NEW limit, NEW S \in SUBSET requests, Claim(m, limit, S)
      PROVE  InBounds(a)
  <2>1. \A y \in S : Claimable(y)
    BY <1>3 DEF Claim, IsOldest
  <2>2. PICK x \in requests : a = AfterClaim(x, m, S)
    BY <1>3 DEF Claim
  <2> QED
    BY <1>0, <2>1, <2>2, ClaimInBounds
<1>4. ASSUME NEW m \in Remote, NEW p \in Paths, Fail(m, p) PROVE InBounds(a)
  <2>1. PICK x \in requests :
           requests' # requests =>
              /\ x.attempts >= MaxAttempts
              /\ requests' \subseteq requests \cup {Resolved(x, "failed")}
    BY <1>4 DEF Fail, IsReported
  <2>2. CASE a = Resolved(x, "failed") /\ x.attempts >= MaxAttempts
    <3>1. x \in Request /\ InBounds(x)
      BY <1>0
    <3>2. a.status = "failed" /\ a.attempts = x.attempts
      BY <2>2, <3>1 DEF Resolved, Request
    <3>3. x.attempts \in Nat
      BY <3>1 DEF Request
    <3> QED
      BY <2>2, <3>1, <3>2, <3>3 DEF InBounds
  <2> QED
    BY <2>1, <2>2
<1>5. ASSUME NEW r \in Repos, IngestEnd(r) PROVE InBounds(a)
  <2>1. PICK x \in requests : a = x \/ a = Resolved(x, "done")
    BY <1>5 DEF IngestEnd, Completed
  <2>2. x \in Request /\ InBounds(x)
    BY <1>0
  <2>3. Resolved(x, "done").status = "done" /\ Resolved(x, "done").attempts = x.attempts
    BY <2>2 DEF Resolved, Request
  <2> QED
    BY <2>1, <2>2, <2>3 DEF InBounds
<1>6. CASE Tick
  <2>1. PICK x \in requests : a = x \/ a = [x EXCEPT !.age = x.age + 1]
    BY <1>6 DEF Tick
  <2>2. x \in Request /\ InBounds(x)
    BY <1>0
  <2>3. LET y == [x EXCEPT !.age = x.age + 1]
        IN  y.status = x.status /\ y.attempts = x.attempts
    BY <2>2 DEF Request
  <2> QED
    BY <2>1, <2>2, <2>3 DEF InBounds
<1> QED
  BY <1>1, <1>2, <1>3, <1>4, <1>5, <1>6
     DEF Next, vars, IngestBegin, IngestFailed, IngestRefused, LocalIndex, Drop, Rename,
         Register, Restart

\* A request is served at most MaxAttempts times, and fails only then.
THEOREM ServesBoundedHolds == Spec => []ServesBounded
<1>1. Init => ServesBounded
  BY DEF Init, ServesBounded
<1> QED
  BY <1>1, NextServesBounded, TypeCorrect, PTL DEF Spec

-----------------------------------------------------------------------------
\* A push takes a path over from the repository that held it.
LEMMA NextCheckoutOwnedOnce ==
  TypeOK /\ CheckoutOwnedOnce /\ [Next]_vars => CheckoutOwnedOnce'
<1> USE ServerIsMachine, NonesAreNone DEF Remote
<1> SUFFICES ASSUME TypeOK, CheckoutOwnedOnce, [Next]_vars,
                    NEW q \in Repos, NEW r \in Repos, NEW m \in Remote,
                    checkouts'[q][m] = checkouts'[r][m], checkouts'[q][m] # NoPath
             PROVE  q = r
  BY DEF CheckoutOwnedOnce
<1>1. CASE checkouts' = checkouts
  BY <1>1 DEF CheckoutOwnedOnce
<1>2. ASSUME NEW s \in Repos, NEW n \in Machines, NEW p \in Paths, NEW g \in Slugs,
             IngestBegin(s, n, p, g) \/ IngestFailed(s, n, p, g) \/ IngestRefused(s, n, p, g)
      PROVE  q = r
  <2> DEFINE holders == {t \in Repos : checkouts[t][n] = p}
  <2>1. PICK rest \in TakenOver(s, n, p) :
           checkouts' = rest \/ checkouts' = [rest EXCEPT ![s][n] = p]
    BY <1>2 DEF IngestBegin, IngestFailed, IngestRefused, StoreRepo
  <2>2. PICK found \in Repos :
           /\ holders \subseteq {s} => rest = checkouts /\ found = s
           /\ ~(holders \subseteq {s}) =>
                 /\ found \in holders
                 /\ rest = IF found = s THEN checkouts
                           ELSE [checkouts EXCEPT ![found][n] = NoPath]
    BY <2>1 DEF TakenOver
  <2>3. rest \in [Repos -> [Machines -> Paths \cup {NoPath}]]
    BY TakenOverRemoves
  <2>4. ASSUME NEW t \in Repos
        PROVE  rest[t][m] # NoPath =>
                  /\ rest[t][m] = checkouts[t][m]
                  /\ m = n /\ t # s => rest[t][m] # p
    <3>1. CASE holders \subseteq {s}
      BY <2>2, <3>1
    <3>2. CASE ~(holders \subseteq {s}) /\ found # s
      <4>1. rest[t][m] = IF t = found /\ m = n THEN NoPath ELSE checkouts[t][m]
        BY <2>2, <3>2 DEF TypeOK
      <4>2. m = n /\ checkouts[t][m] = p => t = found
        BY <2>2, <3>2 DEF CheckoutOwnedOnce
      <4> QED
        BY <4>1, <4>2
    <3>3. CASE ~(holders \subseteq {s}) /\ found = s
      <4>1. m = n /\ checkouts[t][m] = p => t = s
        BY <2>2, <3>3 DEF CheckoutOwnedOnce
      <4> QED
        BY <2>2, <3>3, <4>1
    <3> QED
      BY <3>1, <3>2, <3>3
  <2>5. CASE checkouts' = rest
    BY <2>4, <2>5 DEF CheckoutOwnedOnce
  <2>6. CASE checkouts' = [rest EXCEPT ![s][n] = p]
    <3>1. \A t \in Repos : checkouts'[t][m] = IF t = s /\ m = n THEN p ELSE rest[t][m]
      BY <2>3, <2>6
    <3> QED
      BY <2>4, <3>1 DEF CheckoutOwnedOnce
  <2> QED
    BY <2>1, <2>5, <2>6
<1>3. ASSUME NEW s \in Repos, Drop(s) PROVE q = r
  BY <1>3 DEF Drop, TypeOK, CheckoutOwnedOnce
<1>4. ASSUME NEW s \in Repos, NEW p \in Paths, NEW g \in Slugs, Register(s, p, g)
      PROVE  q = r
  BY <1>4 DEF Register, TypeOK, CheckoutOwnedOnce
<1>5. CASE Restart
  <2>1. \A t \in Repos : checkouts'[t][m] = checkouts[t][m]
    BY <1>5 DEF Restart, TypeOK
  <2> QED
    BY <2>1 DEF CheckoutOwnedOnce
<1> QED
  BY <1>1, <1>2, <1>3, <1>4, <1>5
     DEF Next, vars, Enqueue, Claim, Fail, IngestEnd, LocalIndex, Rename, Tick

\* A checkout of a remote machine stands under one repository at most.
THEOREM CheckoutOwnedOnceHolds == Spec => []CheckoutOwnedOnce
<1>1. Init => CheckoutOwnedOnce
  BY ServerIsMachine DEF Init, CheckoutOwnedOnce, Remote
<1> QED
  BY <1>1, NextCheckoutOwnedOnce, TypeCorrect, PTL DEF Spec

-----------------------------------------------------------------------------
\* No handler changes a row that is done or failed.
LEMMA NextResolvedIsFinal ==
  ASSUME TypeOK, [Next]_vars, NEW x \in requests, ~Outstanding(x)
  PROVE  x \in requests' \/ \A y \in requests' : y.repo # x.repo
<1>0. x \in Request
  BY DEF TypeOK
<1>1. CASE requests \subseteq requests'
  BY <1>1
<1>2. ASSUME NEW m \in Remote, NEW limit, NEW S \in SUBSET requests, Claim(m, limit, S)
      PROVE  x \in requests'
  <2>1. \A y \in S : Claimable(y)
    BY <1>2 DEF Claim, IsOldest
  <2>2. AfterClaim(x, m, S) = x
    BY <1>0, <2>1, ClaimKeeps
  <2> QED
    BY <1>2, <2>2 DEF Claim
<1>3. ASSUME NEW m \in Remote, NEW p \in Paths, Fail(m, p) PROVE x \in requests'
  BY <1>3 DEF Fail, IsReported
<1>4. ASSUME NEW r \in Repos, IngestEnd(r) PROVE x \in requests'
  BY <1>4 DEF IngestEnd, Completed
<1>5. ASSUME NEW r \in Repos, Drop(r)
      PROVE  x \in requests' \/ \A y \in requests' : y.repo # x.repo
  BY <1>5 DEF Drop
<1>6. CASE Tick
  <2>1. x.status # "claimed"
    BY DEF Outstanding
  <2> QED
    BY <1>6, <2>1 DEF Tick
<1> QED
  BY <1>1, <1>2, <1>3, <1>4, <1>5, <1>6
     DEF Next, vars, Enqueue, IngestBegin, IngestFailed, IngestRefused, LocalIndex, Rename,
         Register, Restart

\* A resolved request stays as it is until its repository is dropped.
THEOREM ResolvedIsFinalHolds == Spec => ResolvedIsFinal
<1>1. TypeOK /\ [Next]_vars =>
         [\A x \in requests : Outstanding(x) \/ x \in requests'
                               \/ \A y \in requests' : y.repo # x.repo]_vars
  BY NextResolvedIsFinal
<1> QED
  BY <1>1, TypeCorrect, PTL DEF Spec, ResolvedIsFinal

-----------------------------------------------------------------------------
\* No two rows of a repository and machine have the same requested_at, which is
\* always in the past.
RowsApart ==
    /\ \A x, y \in requests : x.repo = y.repo /\ x.machine = y.machine /\ x.at = y.at => x = y
    /\ \A x \in requests : x.at < enqueues

\* Only finitely many requests of a repository and machine have failed.
FailedFinite == \A k \in Jobs!Keys : IsFiniteSet(FailedRows(requests, k))

\* What the steps below use of a reachable state.
RowsInv == TypeOK /\ OneOutstanding /\ ServesBounded /\ RowsApart

\* A poll keeps the identity of a row.
LEMMA ClaimKeepsAt ==
  ASSUME NEW x \in Request, NEW m, NEW S
  PROVE  /\ AfterClaim(x, m, S).repo = x.repo
         /\ AfterClaim(x, m, S).machine = x.machine
         /\ AfterClaim(x, m, S).at = x.at
<1> DEFINE y == [x EXCEPT !.status = "claimed", !.age = 0, !.attempts = x.attempts + 1]
<1>1. y.repo = x.repo /\ y.machine = x.machine /\ y.at = x.at
  BY DEF Request
<1>2. /\ Resolved(x, "failed").repo = x.repo /\ Resolved(x, "failed").machine = x.machine
      /\ Resolved(x, "failed").at = x.at
  BY DEF Resolved, Request
<1> QED
  BY <1>1, <1>2 DEF AfterClaim

\* So does its resolution.
LEMMA ResolvedKeepsAt ==
  ASSUME NEW x \in Request, NEW s \in {"done", "failed"}
  PROVE  /\ Resolved(x, s).repo = x.repo /\ Resolved(x, s).machine = x.machine
         /\ Resolved(x, s).at = x.at
BY DEF Resolved, Request

\* And so does the clock.
LEMMA TickKeepsAt ==
  ASSUME NEW x \in Request
  PROVE  LET y == [x EXCEPT !.age = x.age + 1]
         IN  y.repo = x.repo /\ y.machine = x.machine /\ y.at = x.at
BY DEF Request

\* No handler gives two rows of a repository and machine the same requested_at.
LEMMA NextRowsApart == TypeOK /\ RowsApart /\ [Next]_vars => RowsApart'
<1> SUFFICES ASSUME TypeOK, RowsApart, [Next]_vars PROVE RowsApart'
  OBVIOUS
<1>0. (\A x \in requests : x \in Request /\ x.at \in Nat) /\ enqueues \in Nat
  BY DEF TypeOK, Request
<1>1. CASE requests' \subseteq requests /\ enqueues' = enqueues
  BY <1>1 DEF RowsApart
<1>2. ASSUME NEW r \in Repos, Enqueue(r) PROVE RowsApart'
  <2>1. ASSUME NEW x \in NewRequests(r) PROVE x.at = enqueues
    BY DEF NewRequests
  <2>2. ASSUME NEW x \in NewRequests(r), NEW y \in NewRequests(r), x.machine = y.machine
        PROVE  x = y
    BY <2>2 DEF NewRequests
  <2>3. requests' = requests \cup NewRequests(r) /\ enqueues' = enqueues + 1
    BY <1>2 DEF Enqueue
  <2>4. ASSUME NEW x \in requests' PROVE x.at < enqueues'
    <3>1. CASE x \in requests
      BY <1>0, <2>3, <3>1 DEF RowsApart
    <3>2. CASE x \in NewRequests(r)
      BY <1>0, <2>1, <2>3, <3>2
    <3> QED
      BY <2>3, <3>1, <3>2
  <2>5. ASSUME NEW x \in requests, NEW y \in NewRequests(r) PROVE x.at # y.at
    BY <1>0, <2>1 DEF RowsApart
  <2>6. ASSUME NEW x \in requests', NEW y \in requests',
               x.repo = y.repo, x.machine = y.machine, x.at = y.at
        PROVE  x = y
    BY <2>2, <2>3, <2>5, <2>6 DEF RowsApart
  <2> QED
    BY <2>4, <2>6 DEF RowsApart
<1>3. ASSUME NEW m \in Remote, NEW limit, NEW S \in SUBSET requests, Claim(m, limit, S)
      PROVE  RowsApart'
  <2>1. \A x \in requests : /\ AfterClaim(x, m, S).repo = x.repo
                            /\ AfterClaim(x, m, S).machine = x.machine
                            /\ AfterClaim(x, m, S).at = x.at
    BY <1>0, ClaimKeepsAt
  <2> QED
    BY <1>3, <2>1 DEF Claim, RowsApart
<1>4. ASSUME NEW m \in Remote, NEW p \in Paths, Fail(m, p) PROVE RowsApart'
  <2>1. PICK x \in requests :
           requests' = requests \/ requests' = (requests \ {x}) \cup {Resolved(x, "failed")}
    BY <1>4 DEF Fail, IsReported
  <2>2. enqueues' = enqueues
    BY <1>4 DEF Fail
  <2> QED
    BY <1>0, <2>1, <2>2, ResolvedKeepsAt DEF RowsApart
<1>5. ASSUME NEW r \in Repos, IngestEnd(r) PROVE RowsApart'
  <2> DEFINE closed(x) == IF x.repo = r /\ x.machine = ingesting[r] /\ Outstanding(x)
                            THEN Resolved(x, "done") ELSE x
  <2>1. \A a \in requests' : \E x \in requests : a = closed(x)
    BY <1>5 DEF IngestEnd, Completed
  <2>2. \A x \in requests : /\ closed(x).repo = x.repo /\ closed(x).machine = x.machine
                            /\ closed(x).at = x.at
    BY <1>0, ResolvedKeepsAt
  <2>3. enqueues' = enqueues
    BY <1>5 DEF IngestEnd
  <2> QED
    BY <2>1, <2>2, <2>3 DEF RowsApart
<1>6. CASE Tick
  <2> DEFINE older(x) == IF x.status = "claimed" /\ x.age <= ReclaimAfter
                           THEN [x EXCEPT !.age = x.age + 1] ELSE x
  <2>1. \A a \in requests' : \E x \in requests : a = older(x)
    BY <1>6 DEF Tick
  <2>2. \A x \in requests : /\ older(x).repo = x.repo /\ older(x).machine = x.machine
                            /\ older(x).at = x.at
    BY <1>0, TickKeepsAt
  <2>3. enqueues' = enqueues
    BY <1>6 DEF Tick
  <2> HIDE DEF older
  <2> QED
    BY <2>1, <2>2, <2>3 DEF RowsApart
<1> QED
  BY <1>1, <1>2, <1>3, <1>4, <1>5, <1>6
     DEF Next, vars, IngestBegin, IngestFailed, IngestRefused, LocalIndex, Drop, Rename,
         Register, Restart

\* x is a row of the repository and machine k.
IsRowOf(x, k) == x.repo = k[1] /\ x.machine = k[2]

\* P and R have the same rows of a repository and machine.
SameRows(P, R, k) == \A x : IsRowOf(x, k) => (x \in P <=> x \in R)

\* x is the open row of R for k, and P has z in its place.
OpenRowBecomes(P, R, k, x, z) ==
    /\ OpenRows(R, k) = {x}
    /\ IsRowOf(z, k)
    /\ SameRows(P, (R \ {x}) \cup {z}, k)

\* The job of one open row is its serves.
LEMMA JobOfOpen ==
  ASSUME NEW R, NEW k, NEW x, OpenRows(R, k) = {x}
  PROVE  Job(R, k) = x.attempts
BY DEF Job

\* Without an open row there is no job.
LEMMA JobOfNone ==
  ASSUME NEW R, NEW k, OpenRows(R, k) = {}
  PROVE  Job(R, k) = MaxAttempts + 1
BY DEF Job

\* What happens to other rows does not change a job.
LEMMA SameRowsSameJob ==
  ASSUME NEW P, NEW R, NEW k, SameRows(P, R, k)
  PROVE  /\ OpenRows(P, k) = OpenRows(R, k)
         /\ Job(P, k) = Job(R, k)
         /\ FailedRows(P, k) = FailedRows(R, k)
<1>1. OpenRows(P, k) = OpenRows(R, k) /\ FailedRows(P, k) = FailedRows(R, k)
  BY DEF SameRows, IsRowOf, OpenRows, FailedRows
<1> QED
  BY <1>1 DEF Job

\* The job after a row took the place of the open one.
LEMMA JobOfNewRow ==
  ASSUME NEW P, NEW R, NEW k, NEW x, NEW z, OpenRowBecomes(P, R, k, x, z)
  PROVE  /\ Job(R, k) = x.attempts
         /\ Job(P, k) = IF Outstanding(z) THEN z.attempts ELSE MaxAttempts + 1
<1>1. OpenRows(P, k) = IF Outstanding(z) THEN {z} ELSE {}
  BY DEF OpenRowBecomes, OpenRows, SameRows, IsRowOf
<1> QED
  BY <1>1, JobOfOpen, JobOfNone DEF OpenRowBecomes

\* The jobs given up after a row took the place of the open one.
LEMMA FailedOfNewRow ==
  ASSUME NEW P, NEW R, NEW k, NEW x, NEW z, OpenRowBecomes(P, R, k, x, z)
  PROVE  FailedRows(P, k) = IF z.status = "failed" THEN FailedRows(R, k) \cup {z}
                            ELSE FailedRows(R, k)
<1>1. x.status # "failed"
  BY DEF OpenRowBecomes, OpenRows, Outstanding
<1> QED
  BY <1>1 DEF FailedRows, OpenRowBecomes, SameRows, IsRowOf

\* A handler replaces open rows, by rows of the same identity, and no others.
ReplacesOpenRows(F, P, R) ==
    /\ P = {F[x] : x \in R}
    /\ \A x \in R : /\ F[x].repo = x.repo /\ F[x].machine = x.machine
                    /\ ~Outstanding(x) => F[x] = x

\* Where no row is open, such a handler changes nothing.
LEMMA NoRowReplaced ==
  ASSUME NEW R, NEW P, NEW k, NEW F, ReplacesOpenRows(F, P, R), OpenRows(R, k) = {}
  PROVE  Job(P, k) = Job(R, k) /\ FailedRows(P, k) = FailedRows(R, k)
<1>1. SameRows(P, R, k)
  BY DEF OpenRows, SameRows, IsRowOf, ReplacesOpenRows
<1> QED
  BY <1>1, SameRowsSameJob

\* Where one is, its replacement takes its place.
LEMMA OneRowReplaced ==
  ASSUME NEW R, NEW P, NEW k, NEW F, ReplacesOpenRows(F, P, R), NEW x, OpenRows(R, k) = {x}
  PROVE  OpenRowBecomes(P, R, k, x, F[x])
<1>1. x \in R /\ IsRowOf(x, k) /\ Outstanding(x)
  BY DEF OpenRows, IsRowOf
<1>2. ASSUME NEW y, IsRowOf(y, k), y \in R, y # x PROVE F[y] = y
  BY <1>2 DEF OpenRows, IsRowOf, ReplacesOpenRows
<1>3. SameRows(P, (R \ {x}) \cup {F[x]}, k)
  BY <1>1, <1>2 DEF SameRows, IsRowOf, ReplacesOpenRows
<1> QED
  BY <1>1, <1>3 DEF OpenRowBecomes, IsRowOf, ReplacesOpenRows

\* A repository and machine have no open row or one.
LEMMA OneOpenRow ==
  ASSUME OneOutstanding, NEW k
  PROVE  OpenRows(requests, k) = {} \/ \E x \in requests : OpenRows(requests, k) = {x}
BY DEF OneOutstanding, OpenRows

\* A query asks the machines that have no open row.
LEMMA EnqueueAsks ==
  ASSUME RowsInv, NEW r \in Repos, Enqueue(r)
  PROVE  Jobs!Ask(r) /\ (FailedFinite => FailedFinite')
<1> DEFINE M == {n \in Remote : /\ checkouts[r][n] # NoPath
                                /\ ~\E x \in requests :
                                       Outstanding(x) /\ x.repo = r /\ x.machine = n}
<1>1. requests' = requests \cup NewRequests(r)
  BY DEF Enqueue
<1>2. ASSUME NEW k \in Jobs!Keys PROVE FailedRows(requests', k) = FailedRows(requests, k)
  <2>1. \A x \in NewRequests(r) : x.status # "failed"
    BY DEF NewRequests
  <2> QED
    BY <1>1, <2>1 DEF FailedRows
<1>3. ASSUME NEW k \in Jobs!Keys, ~(k[1] = r /\ k[2] \in M)
      PROVE  Job(requests', k) = Job(requests, k)
  <2>1. \A x \in NewRequests(r) : ~IsRowOf(x, k)
    BY <1>3 DEF NewRequests, IsRowOf
  <2>2. SameRows(requests', requests, k)
    BY <1>1, <2>1 DEF SameRows
  <2> QED
    BY <2>2, SameRowsSameJob
<1>4. ASSUME NEW k \in Jobs!Keys, k[1] = r, k[2] \in M
      PROVE  Job(requests', k) = 0 /\ Job(requests, k) = MaxAttempts + 1
  <2>1. OpenRows(requests, k) = {}
    BY <1>4 DEF OpenRows
  <2> DEFINE new == [repo |-> r, machine |-> k[2], path |-> checkouts[r][k[2]],
                     status |-> "pending", attempts |-> 0, age |-> 0, at |-> enqueues]
  <2>2. new \in NewRequests(r) /\ \A x \in NewRequests(r) : IsRowOf(x, k) => x = new
    BY <1>4 DEF NewRequests, IsRowOf
  <2>3. OpenRows(requests', k) = {new}
    <3>1. Outstanding(new) /\ IsRowOf(new, k)
      BY <1>4 DEF Outstanding, IsRowOf
    <3> HIDE DEF new
    <3> QED
      BY <1>1, <2>1, <2>2, <3>1 DEF OpenRows, IsRowOf
  <2>4. new.attempts = 0
    OBVIOUS
  <2> HIDE DEF new
  <2> QED
    BY <2>1, <2>3, <2>4, JobOfOpen, JobOfNone
<1> HIDE DEF M
<1>5. Jobs!Ask(r)
  <2>1. M \subseteq Remote
    BY DEF M
  <2>2. \A m \in M : <<r, m>> \in Jobs!Keys /\ <<r, m>>[1] = r /\ <<r, m>>[2] = m
    BY <2>1 DEF Jobs!Keys
  <2>3. \A m \in M : Job(requests, <<r, m>>) = MaxAttempts + 1
    BY <1>4, <2>2
  <2> QED
    BY <1>2, <1>3, <1>4, <2>1, <2>2, <2>3 DEF Jobs!Ask, Jobs!Keys
<1> QED
  BY <1>2, <1>5 DEF FailedFinite

\* Dropping a repository forgets its jobs.
LEMMA DropForgets ==
  ASSUME NEW r \in Repos, Drop(r)
  PROVE  Jobs!Drop(r) /\ (FailedFinite => FailedFinite')
<1>1. requests' = {x \in requests : x.repo # r}
  BY DEF Drop
<1>2. ASSUME NEW k \in Jobs!Keys, k[1] # r
      PROVE  /\ Job(requests', k) = Job(requests, k)
             /\ FailedRows(requests', k) = FailedRows(requests, k)
  <2>1. SameRows(requests', requests, k)
    BY <1>1, <1>2 DEF SameRows, IsRowOf
  <2> QED
    BY <2>1, SameRowsSameJob
<1>3. ASSUME NEW k \in Jobs!Keys, k[1] = r
      PROVE  Job(requests', k) = MaxAttempts + 1 /\ FailedRows(requests', k) = {}
  <2>1. OpenRows(requests', k) = {} /\ FailedRows(requests', k) = {}
    BY <1>1, <1>3 DEF OpenRows, FailedRows
  <2> QED
    BY <2>1, JobOfNone
<1>4. Jobs!Drop(r)
  BY <1>2, <1>3, FS_EmptySet DEF Jobs!Drop, Jobs!Keys
<1> QED
  BY <1>2, <1>3, <1>4, FS_EmptySet DEF FailedFinite

\* Time changes no job.
LEMMA TickKeepsJobs ==
  ASSUME RowsInv, Tick
  PROVE  UNCHANGED Jobs!vars /\ (FailedFinite => FailedFinite')
<1> DEFINE F == [x \in requests |-> IF x.status = "claimed" /\ x.age <= ReclaimAfter
                                    THEN [x EXCEPT !.age = x.age + 1] ELSE x]
<1>1. requests' = {F[x] : x \in requests}
  BY DEF Tick
<1>2. \A x \in requests : /\ F[x].repo = x.repo /\ F[x].machine = x.machine
                          /\ F[x].attempts = x.attempts /\ F[x].status = x.status
                          /\ (~Outstanding(x) => F[x] = x)
  BY DEF RowsInv, TypeOK, Request, Outstanding
<1> HIDE DEF F
<1>3. ReplacesOpenRows(F, requests', requests)
  BY <1>1, <1>2 DEF ReplacesOpenRows
<1>4. ASSUME NEW k
      PROVE  /\ Job(requests', k) = Job(requests, k)
             /\ FailedRows(requests', k) = FailedRows(requests, k)
  <2>1. CASE OpenRows(requests, k) = {}
    BY <1>3, <2>1, NoRowReplaced
  <2>2. ASSUME NEW x \in requests, OpenRows(requests, k) = {x}
        PROVE  /\ Job(requests', k) = Job(requests, k)
               /\ FailedRows(requests', k) = FailedRows(requests, k)
    <3>1. OpenRowBecomes(requests', requests, k, x, F[x])
      BY <1>3, <2>2, OneRowReplaced
    <3>2. Outstanding(x)
      BY <2>2 DEF OpenRows
    <3>3. Outstanding(F[x]) /\ F[x].attempts = x.attempts /\ F[x].status # "failed"
      BY <1>2, <3>2 DEF Outstanding
    <3> QED
      BY <3>1, <3>3, JobOfNewRow, FailedOfNewRow
  <2> QED
    BY <2>1, <2>2, OneOpenRow DEF RowsInv
<1>5. UNCHANGED Jobs!vars
  BY <1>4 DEF Jobs!vars, Jobs!Keys
<1> QED
  BY <1>4, <1>5 DEF FailedFinite

\* A push ends the job of its machine, a local one ends none.
LEMMA IngestEndEnds ==
  ASSUME RowsInv, NEW r \in Repos, IngestEnd(r)
  PROVE  /\ UNCHANGED Jobs!vars \/ \E m \in Remote : Jobs!End(r, m)
         /\ FailedFinite => FailedFinite'
<1> DEFINE n == ingesting[r]
<1> DEFINE F == [x \in requests |-> IF x.repo = r /\ x.machine = n /\ Outstanding(x)
                                    THEN Resolved(x, "done") ELSE x]
<1>1. requests' = {F[x] : x \in requests} /\ n \in Machines
  BY DEF IngestEnd, Completed, RowsInv, TypeOK
<1>2. \A x \in requests : /\ F[x].repo = x.repo /\ F[x].machine = x.machine
                          /\ (~Outstanding(x) => F[x] = x)
  BY ResolvedKeeps DEF RowsInv, TypeOK
<1>3. \A x \in requests : IF x.repo = r /\ x.machine = n /\ Outstanding(x)
                          THEN ~Outstanding(F[x]) /\ F[x].status = "done"
                          ELSE F[x] = x
  <2>1. ASSUME NEW x \in Request
        PROVE  Resolved(x, "done").status = "done" /\ ~Outstanding(Resolved(x, "done"))
    BY ResolvedKeeps DEF Resolved, Request
  <2>2. \A x \in requests : x \in Request
    BY DEF RowsInv, TypeOK
  <2> QED
    BY <2>1, <2>2
<1> HIDE DEF F, n
<1>4. ReplacesOpenRows(F, requests', requests)
  BY <1>1, <1>2 DEF ReplacesOpenRows
<1>5. ASSUME NEW k
      PROVE  /\ FailedRows(requests', k) = FailedRows(requests, k)
             /\ k[1] = r /\ k[2] = n => Job(requests', k) = MaxAttempts + 1
             /\ ~(k[1] = r /\ k[2] = n) => Job(requests', k) = Job(requests, k)
  <2>1. CASE OpenRows(requests, k) = {}
    BY <1>4, <2>1, NoRowReplaced, JobOfNone
  <2>2. ASSUME NEW x \in requests, OpenRows(requests, k) = {x}
        PROVE  /\ FailedRows(requests', k) = FailedRows(requests, k)
               /\ k[1] = r /\ k[2] = n => Job(requests', k) = MaxAttempts + 1
               /\ ~(k[1] = r /\ k[2] = n) => Job(requests', k) = Job(requests, k)
    <3>1. OpenRowBecomes(requests', requests, k, x, F[x])
      BY <1>4, <2>2, OneRowReplaced
    <3>2. Outstanding(x) /\ x.repo = k[1] /\ x.machine = k[2]
      BY <2>2 DEF OpenRows
    <3>3. F[x].status # "failed"
      BY <1>3, <3>2 DEF Outstanding
    <3>4. IF k[1] = r /\ k[2] = n THEN ~Outstanding(F[x]) ELSE F[x] = x
      BY <1>3, <3>2
    <3> QED
      BY <3>1, <3>2, <3>3, <3>4, JobOfNewRow, FailedOfNewRow
  <2> QED
    BY <2>1, <2>2, OneOpenRow DEF RowsInv
<1>6. CASE n \in Remote
  <2>0. \A k \in Jobs!Keys : k = <<r, n>> <=> k[1] = r /\ k[2] = n
    BY DEF Jobs!Keys
  <2>1. Jobs!End(r, n)
    BY <1>5, <1>6, <2>0 DEF Jobs!End, Jobs!Keys
  <2> QED
    BY <1>5, <1>6, <2>1 DEF FailedFinite
<1>7. CASE n \notin Remote
  <2>1. UNCHANGED Jobs!vars
    BY <1>5, <1>7 DEF Jobs!vars, Jobs!Keys
  <2> QED
    BY <1>5, <2>1 DEF FailedFinite
<1> QED
  BY <1>6, <1>7

\* A row that fails counts once.
LEMMA FailedCounts ==
  ASSUME RowsInv, NEW x \in requests, Outstanding(x), NEW k,
         IsFiniteSet(FailedRows(requests, k))
  PROVE  LET T == FailedRows(requests, k) \cup {Resolved(x, "failed")}
         IN  IsFiniteSet(T) /\ Cardinality(T) = Cardinality(FailedRows(requests, k)) + 1
<1> DEFINE z == Resolved(x, "failed")
<1>1. z.repo = x.repo /\ z.machine = x.machine /\ z.at = x.at /\ z.status = "failed"
  BY ResolvedKeepsAt DEF RowsInv, TypeOK, Resolved, Request
<1> HIDE DEF z
<1>2. z \notin requests
  BY <1>1 DEF RowsInv, RowsApart, Outstanding
<1>3. z \notin FailedRows(requests, k)
  BY <1>2 DEF FailedRows
<1>4. z = Resolved(x, "failed")
  BY DEF z
<1> QED
  BY <1>3, <1>4, FS_AddElement

\* A failure report gives up a job that was served often enough, or changes none.
LEMMA FailGivesUp ==
  ASSUME RowsInv, FailedFinite, NEW m \in Remote, NEW p \in Paths, Fail(m, p)
  PROVE  /\ UNCHANGED Jobs!vars \/ \E r \in Repos : Jobs!GiveUp(r, m)
         /\ FailedFinite'
<1>1. CASE requests' = requests
  BY <1>1 DEF Jobs!vars, Job, OpenRows, FailedRows, Outstanding, FailedFinite
<1>2. ASSUME NEW x \in requests, IsReported(x, m, p), x.attempts >= MaxAttempts,
             requests' = (requests \ {x}) \cup {Resolved(x, "failed")}
      PROVE  (\E r \in Repos : Jobs!GiveUp(r, m)) /\ FailedFinite'
  <2> DEFINE z == Resolved(x, "failed")
  <2> DEFINE c == <<x.repo, m>>
  <2>1. /\ x \in Request /\ Outstanding(x) /\ x.machine = m
        /\ x.attempts = MaxAttempts
    <3>1. x \in Request /\ Outstanding(x) /\ x.machine = m
      BY <1>2 DEF IsReported, RowsInv, TypeOK
    <3>2. x.attempts \in Nat
      BY <3>1 DEF Request
    <3>3. x.attempts <= MaxAttempts
      BY DEF RowsInv, ServesBounded
    <3> QED
      BY <1>2, <3>1, <3>2, <3>3, LimitsAreNatural
  <2>2. z.repo = x.repo /\ z.machine = m /\ ~Outstanding(z) /\ z.status = "failed"
    BY <2>1, ResolvedKeeps DEF Resolved, Request
  <2>3. x.repo \in Repos /\ c \in Jobs!Keys /\ c[1] = x.repo /\ c[2] = m
    BY <2>1 DEF Jobs!Keys, Request
  <2>4. \A k \in Jobs!Keys : k # c => ~(k[1] = x.repo /\ k[2] = m)
    BY DEF Jobs!Keys
  <2>5. \A k \in Jobs!Keys : IsFiniteSet(FailedRows(requests, k))
    BY DEF FailedFinite
  <2>6. IsFiniteSet(FailedRows(requests, c) \cup {z})
        /\ Cardinality(FailedRows(requests, c) \cup {z}) = Cardinality(FailedRows(requests, c)) + 1
    BY <2>1, <2>3, <2>5, FailedCounts
  <2>7. requests' = (requests \ {x}) \cup {z}
    BY <1>2
  <2> HIDE DEF z, c
  <2>8. OpenRowBecomes(requests', requests, c, x, z)
    <3>1. OpenRows(requests, c) = {x}
      BY <2>1, <2>3 DEF RowsInv, OneOutstanding, OpenRows
    <3> QED
      BY <2>2, <2>3, <2>7, <3>1 DEF OpenRowBecomes, SameRows, IsRowOf
  <2>9. /\ Job(requests, c) = MaxAttempts /\ Job(requests', c) = MaxAttempts + 1
        /\ FailedRows(requests', c) = FailedRows(requests, c) \cup {z}
    BY <2>1, <2>2, <2>8, JobOfNewRow, FailedOfNewRow
  <2>10. ASSUME NEW k \in Jobs!Keys, k # c
         PROVE  /\ Job(requests', k) = Job(requests, k)
                /\ FailedRows(requests', k) = FailedRows(requests, k)
    <3>1. SameRows(requests', requests, k)
      BY <2>1, <2>2, <2>4, <2>7, <2>10 DEF SameRows, IsRowOf
    <3> QED
      BY <3>1, SameRowsSameJob
  <2>11. Jobs!GiveUp(x.repo, m)
    <3>1. c = <<x.repo, m>>
      BY DEF c
    <3> QED
      BY <2>3, <2>6, <2>9, <2>10, <3>1 DEF Jobs!GiveUp, Jobs!Advance, Jobs!Keys
  <2>12. FailedFinite'
    BY <2>5, <2>6, <2>9, <2>10 DEF FailedFinite
  <2> QED
    BY <2>3, <2>11, <2>12
<1>3. \E x \in requests : IsReported(x, m, p) /\ (requests' # requests =>
          /\ x.attempts >= MaxAttempts
          /\ requests' = (requests \ {x}) \cup {Resolved(x, "failed")})
  BY DEF Fail, IsReported
<1> QED
  BY <1>1, <1>2, <1>3

\* A poll gives up the exhausted jobs of its machine and serves some others.
LEMMA ClaimPolls ==
  ASSUME RowsInv, FailedFinite,
         NEW m \in Remote, NEW limit, NEW S \in SUBSET requests, Claim(m, limit, S)
  PROVE  Jobs!Poll(m) /\ FailedFinite'
<1> USE LimitsAreNatural
<1> DEFINE F == [x \in requests |-> AfterClaim(x, m, S)]
<1> DEFINE ended == {k \in Repos \X {m} : \E x \in requests \ S :
                        OpenRows(requests, k) = {x} /\ Exhausted(x)}
<1> DEFINE served == {k \in Repos \X {m} : \E x \in S : OpenRows(requests, k) = {x}}
<1>1. \A x \in S : x \in requests /\ x.machine = m /\ Claimable(x)
  BY DEF Claim, IsOldest
<1>2. \A x \in requests : x \in Request
  BY DEF RowsInv, TypeOK
<1>3. ReplacesOpenRows(F, requests', requests)
  <2>1. \A x \in requests : /\ F[x].repo = x.repo /\ F[x].machine = x.machine
                            /\ (~Outstanding(x) => F[x] = x)
    BY <1>1, <1>2, ClaimKeeps
  <2>2. requests' = {F[x] : x \in requests}
    BY DEF Claim
  <2> QED
    BY <2>1, <2>2 DEF ReplacesOpenRows
<1>4. \A x \in requests : F[x] = AfterClaim(x, m, S)
  OBVIOUS
<1> HIDE DEF F
<1>5. ASSUME NEW k \in Jobs!Keys, NEW x \in requests, OpenRows(requests, k) = {x}
      PROVE  /\ Outstanding(x) /\ x.repo = k[1] /\ x.machine = k[2]
             /\ x.attempts \in Nat
             /\ OpenRowBecomes(requests', requests, k, x, F[x])
             /\ x.machine = m => k \in Repos \X {m}
  <2>1. Outstanding(x) /\ x.repo = k[1] /\ x.machine = k[2]
    BY <1>5 DEF OpenRows
  <2>2. x.attempts \in Nat
    BY <1>2 DEF Request
  <2> QED
    BY <1>3, <1>5, <2>1, <2>2, OneRowReplaced DEF Jobs!Keys
<1>6. ASSUME NEW k \in Jobs!Keys, k \in served
      PROVE  /\ k \notin ended /\ Job(requests, k) < MaxAttempts
             /\ Job(requests, k) # MaxAttempts + 1
             /\ Job(requests', k) = Job(requests, k) + 1
             /\ FailedRows(requests', k) = FailedRows(requests, k)
  <2>1. PICK x \in S : OpenRows(requests, k) = {x}
    BY <1>6
  <2> DEFINE y == [x EXCEPT !.status = "claimed", !.age = 0, !.attempts = x.attempts + 1]
  <2>2. x \in requests /\ x \in Request /\ Claimable(x)
    BY <1>1, <1>2
  <2>3. F[x] = y
    BY <1>4, <2>2 DEF AfterClaim
  <2>4. y.attempts = x.attempts + 1 /\ y.status = "claimed"
    BY <2>2 DEF Request
  <2> HIDE DEF y
  <2>5. /\ Outstanding(x) /\ x.attempts \in Nat
        /\ OpenRowBecomes(requests', requests, k, x, F[x])
    BY <1>5, <2>1, <2>2
  <2>6. x.attempts < MaxAttempts
    <3>1. x.status = "pending" => x.attempts = 0
      BY <2>2 DEF RowsInv, ServesBounded
    <3>2. x.status = "pending" \/ (Lapsed(x) /\ ~Exhausted(x))
      BY <2>2 DEF Claimable
    <3>3. Lapsed(x) /\ ~Exhausted(x) => x.attempts < MaxAttempts
      BY <2>5 DEF Exhausted
    <3> QED
      BY <3>1, <3>2, <3>3
  <2>7. Outstanding(y) /\ y.status # "failed"
    BY <2>4 DEF Outstanding
  <2>8. /\ Job(requests, k) = x.attempts /\ Job(requests', k) = y.attempts
        /\ FailedRows(requests', k) = FailedRows(requests, k)
    BY <2>3, <2>5, <2>7, JobOfNewRow, FailedOfNewRow
  <2>9. k \notin ended
    BY <2>1
  <2> QED
    BY <2>4, <2>5, <2>6, <2>8, <2>9
<1>7. ASSUME NEW k \in Jobs!Keys, k \in ended
      PROVE  /\ Job(requests, k) = MaxAttempts
             /\ Job(requests', k) = MaxAttempts + 1
             /\ IsFiniteSet(FailedRows(requests', k))
             /\ Cardinality(FailedRows(requests', k)) = Cardinality(FailedRows(requests, k)) + 1
  <2>1. PICK x \in requests \ S : OpenRows(requests, k) = {x} /\ Exhausted(x)
    BY <1>7
  <2> DEFINE z == Resolved(x, "failed")
  <2>2. /\ Outstanding(x) /\ x.attempts \in Nat /\ x.machine = k[2]
        /\ OpenRowBecomes(requests', requests, k, x, F[x])
    BY <1>5, <2>1
  <2>3. x.machine = m
    BY <1>7, <2>2
  <2>4. F[x] = z
    BY <1>4, <2>1, <2>3 DEF AfterClaim
  <2>5. ~Outstanding(z) /\ z.status = "failed"
    <3>1. x \in Request
      BY <1>2
    <3> QED
      BY <3>1, ResolvedKeeps DEF Resolved, Request
  <2>6. IsFiniteSet(FailedRows(requests, k) \cup {z})
        /\ Cardinality(FailedRows(requests, k) \cup {z}) = Cardinality(FailedRows(requests, k)) + 1
    BY <2>2, FailedCounts DEF FailedFinite
  <2> HIDE DEF z
  <2>7. x.attempts = MaxAttempts
    BY <2>1, <2>2 DEF Exhausted, RowsInv, ServesBounded
  <2>8. /\ Job(requests, k) = x.attempts /\ Job(requests', k) = MaxAttempts + 1
        /\ FailedRows(requests', k) = FailedRows(requests, k) \cup {z}
    BY <2>2, <2>4, <2>5, JobOfNewRow, FailedOfNewRow
  <2> QED
    BY <2>6, <2>7, <2>8
<1>8. ASSUME NEW k \in Jobs!Keys, k \notin ended, k \notin served
      PROVE  /\ Job(requests', k) = Job(requests, k)
             /\ FailedRows(requests', k) = FailedRows(requests, k)
  <2>1. CASE OpenRows(requests, k) = {}
    BY <1>3, <2>1, NoRowReplaced
  <2>2. ASSUME NEW x \in requests, OpenRows(requests, k) = {x}
        PROVE  /\ Job(requests', k) = Job(requests, k)
               /\ FailedRows(requests', k) = FailedRows(requests, k)
    <3>1. /\ Outstanding(x) /\ OpenRowBecomes(requests', requests, k, x, F[x])
          /\ x.machine = m => k \in Repos \X {m}
      BY <1>5, <2>2
    <3>2. x \notin S
      BY <1>1, <1>8, <2>2, <3>1
    <3>3. ~(x.machine = m /\ Exhausted(x))
      BY <1>8, <2>2, <3>1, <3>2
    <3>4. F[x] = x
      BY <1>4, <3>2, <3>3 DEF AfterClaim
    <3>5. x.status # "failed"
      BY <3>1 DEF Outstanding
    <3> QED
      BY <3>1, <3>4, <3>5, JobOfNewRow, FailedOfNewRow
  <2> QED
    BY <2>1, <2>2, OneOpenRow DEF RowsInv
<1>9. ended \in SUBSET (Repos \X {m}) /\ served \in SUBSET (Repos \X {m})
      /\ ended \subseteq Jobs!Keys /\ served \subseteq Jobs!Keys
  BY DEF Jobs!Keys
<1> HIDE DEF ended, served
<1>10. Jobs!Advance(ended, served)
  BY <1>6, <1>7, <1>8, <1>9 DEF Jobs!Advance, Jobs!Keys
<1>11. Jobs!Poll(m)
  BY <1>9, <1>10 DEF Jobs!Poll
<1>12. FailedFinite'
  BY <1>6, <1>7, <1>8 DEF FailedFinite
<1> QED
  BY <1>11, <1>12

-----------------------------------------------------------------------------
\* Every step of the queue is a step of IndexJobs or changes no job.
LEMMA NextJobs ==
  ASSUME RowsInv, FailedFinite, [Next]_vars
  PROVE  [Jobs!Next]_Jobs!vars /\ FailedFinite'
<1>1. CASE requests' = requests
  BY <1>1 DEF Jobs!vars, Job, OpenRows, FailedRows, Outstanding, FailedFinite
<1>2. ASSUME NEW r \in Repos, Enqueue(r) PROVE [Jobs!Next]_Jobs!vars /\ FailedFinite'
  BY <1>2, EnqueueAsks DEF Jobs!Next
<1>3. ASSUME NEW m \in Remote, NEW limit, NEW S \in SUBSET requests, Claim(m, limit, S)
      PROVE  [Jobs!Next]_Jobs!vars /\ FailedFinite'
  BY <1>3, ClaimPolls DEF Jobs!Next
<1>4. ASSUME NEW m \in Remote, NEW p \in Paths, Fail(m, p)
      PROVE  [Jobs!Next]_Jobs!vars /\ FailedFinite'
  BY <1>4, FailGivesUp DEF Jobs!Next
<1>5. ASSUME NEW r \in Repos, IngestEnd(r) PROVE [Jobs!Next]_Jobs!vars /\ FailedFinite'
  BY <1>5, IngestEndEnds DEF Jobs!Next
<1>6. ASSUME NEW r \in Repos, Drop(r) PROVE [Jobs!Next]_Jobs!vars /\ FailedFinite'
  BY <1>6, DropForgets DEF Jobs!Next
<1>7. CASE Tick
  BY <1>7, TickKeepsJobs
<1> QED
  BY <1>1, <1>2, <1>3, <1>4, <1>5, <1>6, <1>7
     DEF Next, vars, IngestBegin, IngestFailed, IngestRefused, LocalIndex, Rename,
         Register, Restart

\* A queue without requests has no jobs.
LEMMA InitJobs == requests = {} => Jobs!Init /\ RowsApart /\ FailedFinite
<1> SUFFICES ASSUME requests = {} PROVE Jobs!Init /\ RowsApart /\ FailedFinite
  OBVIOUS
<1>1. \A k : OpenRows(requests, k) = {} /\ FailedRows(requests, k) = {}
  BY DEF OpenRows, FailedRows
<1>2. Jobs!Init
  BY <1>1, JobOfNone, FS_EmptySet DEF Jobs!Init, Jobs!Keys
<1>3. RowsApart
  BY DEF RowsApart
<1> QED
  BY <1>1, <1>2, <1>3, FS_EmptySet DEF FailedFinite

\* The queue implements IndexJobs: one job at a time, served a bounded number of
\* times, and ended only by a push, by exhaustion or with its repository.
THEOREM ImplementsJobsHolds == Spec => ImplementsJobs
<1>1. RowsApart /\ TypeOK /\ [Next]_vars => RowsApart'
  BY NextRowsApart
<1>2. TypeOK /\ OneOutstanding /\ ServesBounded /\ RowsApart /\ FailedFinite /\ [Next]_vars
         => [Jobs!Next]_Jobs!vars /\ FailedFinite'
  BY NextJobs DEF RowsInv
<1>3. Init => Jobs!Init /\ RowsApart /\ FailedFinite
  BY InitJobs DEF Init
<1> QED
  BY <1>1, <1>2, <1>3, TypeCorrect, OneOutstandingHolds, ServesBoundedHolds, PTL
     DEF Spec, ImplementsJobs, Jobs!Spec

-----------------------------------------------------------------------------
\* A checkout and a request belong to a repository that has a row.
ForeignKeys ==
    /\ \A r \in Repos, m \in Machines : checkouts[r][m] # NoPath => slugs[r] # NoSlug
    /\ \A x \in requests : slugs[x.repo] # NoSlug

\* What StoreRepo does to the checkouts: the path is stored for r, the others at
\* most lose one.
LEMMA StoreRepoStores ==
  ASSUME TypeOK, NEW r \in Repos, NEW m \in Machines, NEW p \in Paths, NEW s \in Slugs,
         StoreRepo(r, m, p, s)
  PROVE  /\ slugs' \in [Repos -> Slugs \cup {NoSlug}] /\ slugs'[r] = s
         /\ \A q \in Repos \ {r} : slugs'[q] = slugs[q]
         /\ \A q \in Repos \ {r}, n \in Machines :
               checkouts'[q][n] = checkouts[q][n] \/ checkouts'[q][n] = NoPath
<1>1. PICK rest \in TakenOver(r, m, p) : checkouts' = [rest EXCEPT ![r][m] = p]
  BY DEF StoreRepo
<1>2. /\ rest \in [Repos -> [Machines -> Paths \cup {NoPath}]]
      /\ \A q \in Repos, n \in Machines : rest[q][n] = checkouts[q][n] \/ rest[q][n] = NoPath
  BY TakenOverRemoves
<1>3. \A q \in Repos \ {r} : checkouts'[q] = rest[q]
  BY <1>1, <1>2
<1> QED
  BY <1>2, <1>3 DEF StoreRepo, TypeOK

\* No handler leaves a checkout or a request without its repository.
LEMMA NextForeignKeys == TypeOK /\ ForeignKeys /\ [Next]_vars => ForeignKeys'
<1> SUFFICES ASSUME TypeOK, ForeignKeys, [Next]_vars PROVE ForeignKeys'
  OBVIOUS
<1> USE NonesAreNone
<1>0. /\ slugs \in [Repos -> Slugs \cup {NoSlug}]
      /\ checkouts \in [Repos -> [Machines -> Paths \cup {NoPath}]]
      /\ \A x \in requests : x.repo \in Repos /\ x \in Request
  BY DEF TypeOK, Request
\* Handlers that change the requests alone, and keep the repository of each.
<1>1. ASSUME UNCHANGED <<slugs, checkouts>>,
             \A x \in requests' : (\E y \in requests : x.repo = y.repo)
                                    \/ \E m \in Machines : checkouts[x.repo][m] # NoPath,
             \A x \in requests' : x.repo \in Repos
      PROVE  ForeignKeys'
  BY <1>1 DEF ForeignKeys
<1>2. ASSUME NEW r \in Repos, Enqueue(r) PROVE ForeignKeys'
  <2>1. \A x \in NewRequests(r) :
           x.repo = r /\ \E m \in Machines : checkouts[x.repo][m] # NoPath
    BY DEF NewRequests, Remote
  <2> QED
    BY <1>0, <1>1, <1>2, <2>1 DEF Enqueue
<1>3. ASSUME NEW m \in Remote, NEW limit, NEW S \in SUBSET requests, Claim(m, limit, S)
      PROVE  ForeignKeys'
  <2>0. \A x \in S : Claimable(x)
    BY <1>3 DEF Claim, IsOldest
  <2>1. \A x \in requests : AfterClaim(x, m, S).repo = x.repo
    BY <1>0, <2>0, ClaimKeeps
  <2> QED
    BY <1>0, <1>1, <1>3, <2>1 DEF Claim
<1>4. ASSUME NEW m \in Remote, NEW p \in Paths, Fail(m, p) PROVE ForeignKeys'
  <2>1. \A x \in requests : Resolved(x, "failed").repo = x.repo
    BY <1>0, ResolvedKeeps
  <2> QED
    BY <1>0, <1>1, <1>4, <2>1 DEF Fail, IsReported
<1>5. ASSUME NEW r \in Repos, NEW m \in Machines, NEW p \in Paths, NEW s \in Slugs,
             StoreRepo(r, m, p, s), UNCHANGED requests
      PROVE  ForeignKeys'
  BY <1>0, <1>5, StoreRepoStores DEF ForeignKeys
<1>6. ASSUME NEW r \in Repos, NEW m \in Machines, NEW p \in Paths, NEW s \in Slugs,
             IngestBegin(r, m, p, s) \/ IngestFailed(r, m, p, s)
      PROVE  ForeignKeys'
  BY <1>5, <1>6 DEF IngestBegin, IngestFailed
<1>7. ASSUME NEW r \in Repos, NEW m \in Machines, NEW p \in Paths, NEW s \in Slugs,
             IngestRefused(r, m, p, s)
      PROVE  ForeignKeys'
  BY <1>7, TakenOverRemoves DEF IngestRefused, ForeignKeys
<1>8. ASSUME NEW r \in Repos, IngestEnd(r) PROVE ForeignKeys'
  <2>1. \A x \in requests : Resolved(x, "done").repo = x.repo
    BY <1>0, ResolvedKeeps
  <2> QED
    BY <1>0, <1>1, <1>8, <2>1 DEF IngestEnd, Completed
<1>9. ASSUME NEW r \in Repos, LocalIndex(r) PROVE ForeignKeys'
  BY <1>9 DEF LocalIndex, ForeignKeys
<1>10. ASSUME NEW r \in Repos, Drop(r) PROVE ForeignKeys'
  BY <1>0, <1>10 DEF Drop, ForeignKeys
<1>11. ASSUME NEW r \in Repos, NEW s \in Slugs, Rename(r, s) PROVE ForeignKeys'
  BY <1>0, <1>11 DEF Rename, ForeignKeys
<1>12. ASSUME NEW r \in Repos, NEW p \in Paths, NEW s \in Slugs, Register(r, p, s)
       PROVE  ForeignKeys'
  BY <1>0, <1>12, ServerIsMachine DEF Register, ForeignKeys
<1>13. CASE Restart
  <2>1. \A r \in Repos : /\ slugs[r] # NoSlug => slugs'[r] = slugs[r]
                         /\ Booted(r) => slugs'[r] # NoSlug
    BY <1>0, <1>13, CodeReposAreRepos DEF Restart, Booted
  <2>2. \A r \in Repos : ~Booted(r) => checkouts'[r] = checkouts[r]
    BY <1>13 DEF Restart
  <2>3. requests' = requests
    BY <1>13 DEF Restart
  <2>4. ASSUME NEW r \in Repos, NEW m \in Machines, checkouts'[r][m] # NoPath
        PROVE  slugs'[r] # NoSlug
    <3>1. CASE Booted(r)
      BY <2>1, <3>1
    <3>2. CASE ~Booted(r)
      BY <2>1, <2>2, <2>4, <3>2 DEF ForeignKeys
    <3> QED
      BY <3>1, <3>2
  <2>5. ASSUME NEW x \in requests' PROVE slugs'[x.repo] # NoSlug
    BY <1>0, <2>1, <2>3, <2>5 DEF ForeignKeys
  <2> QED
    BY <2>4, <2>5 DEF ForeignKeys
<1>14. CASE Tick
  <2>1. \A x \in requests : [x EXCEPT !.age = x.age + 1].repo = x.repo
    BY <1>0 DEF Request
  <2>2. \A x \in requests' : \E y \in requests : x.repo = y.repo
    BY <1>14, <2>1 DEF Tick
  <2>3. \A x \in requests' : x.repo \in Repos
    BY <1>0, <2>2
  <2>4. UNCHANGED <<slugs, checkouts>>
    BY <1>14 DEF Tick
  <2> QED
    BY <1>1, <2>2, <2>3, <2>4
<1>15. CASE UNCHANGED vars
  BY <1>15 DEF vars, ForeignKeys
<1> QED
  BY <1>2, <1>3, <1>4, <1>6, <1>7, <1>8, <1>9, <1>10, <1>11, <1>12, <1>13, <1>14, <1>15 DEF Next

-----------------------------------------------------------------------------
\* A file's mtime or indexed_at, for every checkout, and a push of the CLI.
Times == [Paths -> Versions] \cup {Nothing}
CliPushes == [step : {"parsed", "waiting"}, path : Paths, id : Repos, slug : Slugs,
              version : Versions, since : Versions \cup {Nothing}]

\* What the daemon and the other processes of its machine keep.
DTypeOK ==
    /\ tree \in [Paths -> [id : Repos, kind : {"source", "empty", "gone"}, version : Versions]]
    /\ stored \in [Repos -> Versions \cup {Nothing}]
    /\ indexed \in [Repos -> Times]
    /\ local \in [Slugs -> [id : Repos, since : Times] \cup {Nothing}]
    /\ wanted \in [Repos -> Versions]
    /\ phase \in {"sleeping", "working", "pushing", "waiting", "reporting"}
    /\ batch \in Seq([path : Paths, slug : Slugs])
    /\ backoff \in [Paths -> 0 .. Backoff]
    /\ parsed \in [id : Repos, version : Versions]
    /\ cli \in {NoPush} \cup CliPushes
    /\ pushes \in 0 .. MaxPushes

\* A daemon that does not sleep has a request to work on.
Busy == phase # "sleeping" => batch # <<>>

\* The first entry of the batch names a checkout and a slug.
LEMMA CurrentTyped ==
  ASSUME DTypeOK, Busy, phase # "sleeping"
  PROVE  /\ Current \in Paths /\ Head(batch).slug \in Slugs
         /\ Tail(batch) \in Seq([path : Paths, slug : Slugs])
<1>1. batch \in Seq([path : Paths, slug : Slugs]) /\ batch # <<>>
  BY DEF DTypeOK, Busy
<1>2. /\ Head(batch) \in [path : Paths, slug : Slugs]
      /\ Tail(batch) \in Seq([path : Paths, slug : Slugs])
  BY <1>1, HeadTailProperties
<1> QED
  BY <1>2 DEF Current

\* Symbols that are stored are of a version that there was.
LEMMA StoresTyped ==
  ASSUME DTypeOK, NEW r \in Repos, NEW version \in Versions, NEW since,
         StoreFiles(r, version, since)
  PROVE  /\ \E v \in Versions : stored' = [stored EXCEPT ![r] = v]
         /\ stored' \in [Repos -> Versions \cup {Nothing}]
         /\ indexed' \in [Repos -> Times]
<1>1. AfterPush(r, version, since) \subseteq Versions
  BY DEF AfterPush
<1>2. PICK v \in Versions : stored' = [stored EXCEPT ![r] = v]
  BY <1>1 DEF StoreFiles
<1>3. Now \in Times
  BY DEF Now, Times, DTypeOK
<1> QED
  BY <1>2, <1>3 DEF StoreFiles, DTypeOK

\* The answer to a poll is a sequence of checkouts and slugs.
LEMMA WorkTyped ==
  ASSUME TypeOK, ForeignKeys, NEW S \in SUBSET requests, NEW b \in Work(S)
  PROVE  b \in Seq([path : Paths, slug : Slugs])
<1>1. PICK f \in BoundedSeq(S, ClaimLimit) :
         b = [i \in DOMAIN f |-> [path |-> f[i].path, slug |-> slugs[f[i].repo]]]
  BY DEF Work, BoundedSeq, SeqOf
<1>2. PICK n \in Nat : f \in [1 .. n -> S]
  BY <1>1 DEF BoundedSeq, SeqOf
<1>3. \A x \in S : x.path \in Paths /\ slugs[x.repo] \in Slugs
  BY DEF TypeOK, Request, ForeignKeys
<1>4. b \in [1 .. n -> [path : Paths, slug : Slugs]]
  BY <1>1, <1>2, <1>3
<1> DEFINE T == [path : Paths, slug : Slugs]
<1> HIDE DEF T
<1>5. \A g \in [1 .. n -> T] : g \in Seq(T)
  BY <1>2, SeqDef
<1> QED
  BY <1>4, <1>5 DEF T

\* Whatever the daemon, the other processes, the user and the server do is a
\* step of the queue or leaves the queue alone.
LEMMA DNextNext ==
  ASSUME TypeOK, DTypeOK, Busy, [DNext]_dvars
  PROVE  [Next]_vars
<1> USE OwnerIsRemote
<1>0. /\ Owner \in Machines /\ ClaimLimit \in 1 .. ClaimLimit
      /\ parsed.id \in Repos
      /\ DirName \in [Paths -> Slugs]
  BY LimitsAreNatural, DaemonLimits DEF Remote, DTypeOK
<1>1. ASSUME NEW p \in Paths, Edit(p) PROVE [Next]_vars
  BY <1>1 DEF Edit
<1>2. ASSUME NEW r \in Repos, Query(r) PROVE [Next]_vars
  BY <1>2 DEF Query, Next
<1>3. CASE Poll
  BY <1>0, <1>3 DEF Poll, Next
<1>4. CASE Skip \/ Precheck \/ Parse \/ Timeout \/ DaemonRestart
  BY <1>4 DEF Skip, Precheck, Parse, Timeout, DaemonRestart
<1>5. CASE DaemonPush
  <2>1. Current \in Paths /\ Head(batch).slug \in Slugs
    BY <1>5, CurrentTyped DEF DaemonPush
  <2> QED
    BY <1>0, <1>5, <2>1 DEF DaemonPush, Next
<1>6. CASE Report
  <2>1. Current \in Paths
    BY <1>6, CurrentTyped DEF Report
  <2> QED
    BY <1>6, <2>1 DEF Report, Next
<1>7. CASE \/ \E s \in Slugs : CliPull(s) \/ \E p \in Paths : CliIncrement(s, p)
           \/ \E p \in Paths : CliIndex(p)
  BY <1>7 DEF CliPull, CliIncrement, CliIndex, CliPrepare
<1>8. CASE CliPush
  <2>1. cli.id \in Repos /\ cli.path \in Paths /\ cli.slug \in Slugs
    BY <1>8 DEF CliPush, DTypeOK, CliPushes
  <2> QED
    BY <1>0, <1>8, <2>1 DEF CliPush, Next
<1>9. ASSUME NEW r \in Repos, Finish(r) \/ DropRepo(r) PROVE [Next]_vars
  BY <1>9 DEF Finish, DropRepo, Next
<1>10. CASE ServerRestart
  BY <1>10 DEF ServerRestart, Next
<1>11. CASE Pass
  BY <1>11 DEF Pass, Next
<1>12. CASE UNCHANGED dvars
  BY <1>12 DEF dvars
<1> QED
  BY <1>1, <1>2, <1>3, <1>4, <1>5, <1>6, <1>7, <1>8, <1>9, <1>10, <1>11, <1>12 DEF DNext

-----------------------------------------------------------------------------
\* The daemon's state stays typed.
LEMMA DNextTyped ==
  TypeOK /\ ForeignKeys /\ DTypeOK /\ Busy /\ [DNext]_dvars => DTypeOK' /\ Busy'
<1> SUFFICES ASSUME TypeOK, ForeignKeys, DTypeOK, Busy, [DNext]_dvars
             PROVE  DTypeOK' /\ Busy'
  OBVIOUS
<1> USE DEF serverVars
<1> DEFINE Task == [path : Paths, slug : Slugs]
           Push == CliPushes
<1>0. /\ tree \in [Paths -> [id : Repos, kind : {"source", "empty", "gone"}, version : Versions]]
      /\ stored \in [Repos -> Versions \cup {Nothing}]
      /\ indexed \in [Repos -> Times]
      /\ local \in [Slugs -> [id : Repos, since : Times] \cup {Nothing}]
      /\ wanted \in [Repos -> Versions]
      /\ phase \in {"sleeping", "working", "pushing", "waiting", "reporting"}
      /\ batch \in Seq(Task)
      /\ backoff \in [Paths -> 0 .. Backoff]
      /\ parsed \in [id : Repos, version : Versions]
      /\ cli \in {NoPush} \cup Push
      /\ pushes \in 0 .. MaxPushes
      /\ phase # "sleeping" => batch # <<>>
  BY DEF DTypeOK, Busy
<1>00. Backoff \in Nat /\ MaxEdits \in Nat /\ MaxPushes \in Nat
  BY DaemonLimits
\* The two things that several steps do.
<1>a. ASSUME NextPath, phase # "sleeping" PROVE
        /\ phase' \in {"sleeping", "working"} /\ batch' \in Seq(Task)
        /\ phase' # "sleeping" => batch' # <<>>
  BY <1>a, CurrentTyped DEF NextPath
<1>b. ASSUME GiveUp, phase # "sleeping" PROVE
        /\ phase' = "reporting" /\ backoff' \in [Paths -> 0 .. Backoff]
  BY <1>0, <1>00, <1>b, CurrentTyped DEF GiveUp
<1>1. ASSUME NEW p \in Paths, Edit(p) PROVE DTypeOK' /\ Busy'
  <2>1. tree' \in [Paths -> [id : Repos, kind : {"source", "empty", "gone"}, version : Versions]]
    <3>1. PICK k \in {"source", "empty", "gone"}, r \in Repos :
             tree' = [tree EXCEPT ![p] = [id |-> r, kind |-> k, version |-> tree[p].version + 1]]
      BY <1>1 DEF Edit
    <3>2. tree[p].version + 1 \in Versions
      BY <1>0, <1>00, <1>1 DEF Edit, Versions
    <3> QED
      BY <1>0, <3>1, <3>2
  <2> QED
    BY <1>0, <1>1, <2>1 DEF Edit, DTypeOK, Busy, daemonVars
<1>2. ASSUME NEW r \in Repos, Query(r) PROVE DTypeOK' /\ Busy'
  <2>1. wanted' \in [Repos -> Versions]
    <3>1. CASE \E x \in NewRequests(r) : x.machine = Owner
      <4>1. checkouts[r][Owner] \in Paths
        BY <3>1, OwnerIsRemote DEF NewRequests, TypeOK, Remote
      <4> QED
        BY <1>0, <1>2, <3>1, <4>1 DEF Query
    <3>2. CASE ~\E x \in NewRequests(r) : x.machine = Owner
      BY <1>0, <1>2, <3>2 DEF Query
    <3> QED
      BY <3>1, <3>2
  <2> QED
    BY <1>0, <1>2, <2>1 DEF Query, DTypeOK, Busy, daemonVars
<1>3. CASE Poll
  <2>1. batch' \in Seq(Task)
    <3>1. PICK S \in SUBSET requests : batch' \in Work(S) \/ batch' = <<>>
      BY <1>3 DEF Poll
    <3>2. <<>> \in Seq(Task)
      OBVIOUS
    <3> QED
      BY <3>1, <3>2, WorkTyped
  <2> QED
    BY <1>0, <1>3, <2>1 DEF Poll, DTypeOK, Busy
<1>4. CASE Skip
  BY <1>0, <1>4, <1>a DEF Skip, DTypeOK, Busy
<1>5. CASE Precheck
  BY <1>0, <1>5, <1>b DEF Precheck, DTypeOK, Busy
<1>6. CASE Parse
  <2>1. Current \in Paths
    BY <1>6, CurrentTyped DEF Parse
  <2>2. [id |-> tree[Current].id, version |-> tree[Current].version]
           \in [id : Repos, version : Versions]
    BY <1>0, <2>1
  <2> QED
    BY <1>0, <1>6, <1>a, <2>2 DEF Parse, DTypeOK, Busy
<1>7. CASE DaemonPush
  <2>1. CASE StoreFiles(parsed.id, parsed.version, Nothing)
    <3>1. stored' \in [Repos -> Versions \cup {Nothing}] /\ indexed' \in [Repos -> Times]
      BY <1>0, <2>1, StoresTyped
    <3> QED
      BY <1>0, <1>7, <1>b, <3>1 DEF DaemonPush, DTypeOK, Busy
  <2>2. CASE UNCHANGED <<stored, indexed>>
    BY <1>0, <1>7, <1>b, <2>2 DEF DaemonPush, DTypeOK, Busy
  <2> QED
    BY <1>7, <2>1, <2>2 DEF DaemonPush
<1>8. CASE Timeout
  BY <1>0, <1>8, <1>b DEF Timeout, DTypeOK, Busy
<1>9. CASE Report
  BY <1>0, <1>9, <1>a DEF Report, DTypeOK, Busy
<1>10. CASE DaemonRestart
  <2>1. /\ <<>> \in Seq(Task)
        /\ [p \in Paths |-> 0] \in [Paths -> 0 .. Backoff]
    BY <1>00
  <2> QED
    BY <1>0, <1>10, <2>1 DEF DaemonRestart, DTypeOK, Busy
<1>c. ASSUME NEW p \in Paths, NEW id \in Repos, NEW s \in Slugs, NEW since,
             CliPrepare(p, id, s, since), since \in Versions \cup {Nothing}
      PROVE  DTypeOK' /\ Busy'
  <2>1. [step |-> "parsed", path |-> p, id |-> id, slug |-> s, version |-> tree[p].version,
         since |-> since] \in Push
    BY <1>0, <1>c DEF CliPushes
  <2>2. pushes + 1 \in 0 .. MaxPushes
    BY <1>0, <1>00, <1>c DEF CliPrepare
  <2>3. cli' \in Push
    BY <1>c, <2>1 DEF CliPrepare
  <2> QED
    BY <1>0, <1>c, <2>2, <2>3 DEF CliPrepare, DTypeOK, Busy, serverVars, daemonVars
<1>11. ASSUME NEW p \in Paths, CliIndex(p) PROVE DTypeOK' /\ Busy'
  BY <1>0, <1>11, <1>c, DaemonLimits DEF CliIndex
<1>18. ASSUME NEW s \in Slugs, NEW p \in Paths, CliIncrement(s, p) PROVE DTypeOK' /\ Busy'
  <2>1. local[s] \in [id : Repos, since : Times]
    BY <1>0, <1>18 DEF CliIncrement
  <2>2. (IF local[s].since = Nothing THEN Nothing ELSE local[s].since[p]) \in Versions \cup {Nothing}
    BY <2>1 DEF Times
  <2> QED
    BY <1>18, <1>c, <2>1, <2>2 DEF CliIncrement
<1>19. ASSUME NEW s \in Slugs, CliPull(s) PROVE DTypeOK' /\ Busy'
  <2>1. PICK r \in Repos :
          local' = [t \in Slugs |->
                IF t = s THEN [id |-> r, since |-> indexed[r]]
                ELSE IF local[t] # Nothing /\ local[t].id = r THEN Nothing ELSE local[t]]
    BY <1>19 DEF CliPull
  <2>2. [id |-> r, since |-> indexed[r]] \in [id : Repos, since : Times]
    BY <1>0
  <2>3. local' \in [Slugs -> [id : Repos, since : Times] \cup {Nothing}]
    BY <1>0, <2>1, <2>2
  <2> QED
    BY <1>0, <1>19, <2>3 DEF CliPull, DTypeOK, Busy, serverVars, daemonVars
<1>12. CASE CliPush
  <2>1. cli \in Push
    BY <1>0, <1>12 DEF CliPush
  <2>2. [cli EXCEPT !.step = "waiting"] \in Push
    BY <2>1 DEF CliPushes
  <2>3. cli.id \in Repos /\ cli.version \in Versions
    BY <2>1 DEF CliPushes
  <2>4. stored' \in [Repos -> Versions \cup {Nothing}] /\ indexed' \in [Repos -> Times]
    <3>1. CASE StoreFiles(cli.id, cli.version, cli.since)
      BY <2>3, <3>1, StoresTyped
    <3>2. CASE UNCHANGED <<stored, indexed>>
      BY <1>0, <3>2
    <3> QED
      BY <1>12, <3>1, <3>2 DEF CliPush
  <2>5. cli' \in {NoPush} \cup Push
    BY <1>12, <2>2 DEF CliPush
  <2> QED
    BY <1>0, <1>12, <2>4, <2>5 DEF CliPush, DTypeOK, Busy, daemonVars
<1>13. ASSUME NEW r \in Repos, Finish(r) PROVE DTypeOK' /\ Busy'
  <2>1. CASE phase = "waiting" /\ parsed.id = r
    <3>1. [backoff EXCEPT ![Current] = 0] \in [Paths -> 0 .. Backoff]
      BY <1>0, <1>00, <2>1, CurrentTyped
    <3> QED
      BY <1>0, <1>13, <1>a, <2>1, <3>1 DEF Finish, DTypeOK, Busy
  <2>2. CASE ~(phase = "waiting" /\ parsed.id = r)
    BY <1>0, <1>13, <2>2 DEF Finish, DTypeOK, Busy
  <2> QED
    BY <2>1, <2>2
<1>14. ASSUME NEW r \in Repos, DropRepo(r) PROVE DTypeOK' /\ Busy'
  <2>1. /\ [stored EXCEPT ![r] = Nothing] \in [Repos -> Versions \cup {Nothing}]
        /\ [indexed EXCEPT ![r] = Nothing] \in [Repos -> Times]
    BY <1>0 DEF Times
  <2> QED
    BY <1>0, <1>14, <2>1 DEF DropRepo, DTypeOK, Busy, daemonVars
<1>15. CASE ServerRestart
  <2>1. CASE phase = "waiting"
    BY <1>0, <1>15, <1>b, <2>1 DEF ServerRestart, DTypeOK, Busy
  <2>2. CASE phase # "waiting"
    BY <1>0, <1>15, <2>2 DEF ServerRestart, DTypeOK, Busy
  <2> QED
    BY <2>1, <2>2
<1>16. CASE Pass
  <2>1. backoff' \in [Paths -> 0 .. Backoff]
    BY <1>0, <1>00, <1>16 DEF Pass
  <2> QED
    BY <1>0, <1>16, <2>1 DEF Pass, DTypeOK, Busy
<1>17. CASE UNCHANGED dvars
  BY <1>0, <1>17 DEF dvars, daemonVars, DTypeOK, Busy
<1> QED
  BY <1>1, <1>2, <1>3, <1>4, <1>5, <1>6, <1>7, <1>8, <1>9, <1>10, <1>11, <1>12, <1>13, <1>14,
     <1>15, <1>16, <1>17, <1>18, <1>19 DEF DNext

\* A machine that has pushed each checkout once is in order.
LEMMA DInitTyped ==
  DInit => /\ TypeOK /\ ForeignKeys /\ CheckoutOwnedOnce /\ requests = {}
           /\ DTypeOK /\ Busy
           /\ ingesting = [r \in Repos |-> NoMachine]
<1> SUFFICES ASSUME DInit
             PROVE  /\ TypeOK /\ ForeignKeys /\ CheckoutOwnedOnce /\ requests = {}
                    /\ DTypeOK /\ Busy
                    /\ ingesting = [r \in Repos |-> NoMachine]
  OBVIOUS
<1> USE NonesAreNone, DaemonLimits, OwnerIsRemote
<1>1. /\ slugs = [r \in Repos |-> IF Pushed(r) THEN DirName[CheckoutOf(r)] ELSE NoSlug]
      /\ checkouts = [r \in Repos |-> [m \in Machines |->
            IF m = Owner /\ Pushed(r) THEN CheckoutOf(r) ELSE NoPath]]
      /\ stored = [r \in Repos |-> IF Pushed(r) THEN 0 ELSE Nothing]
      /\ indexed = [r \in Repos |-> IF Pushed(r) THEN Now ELSE Nothing]
      /\ tree = [p \in Paths |-> [id |-> Home[p], kind |-> "source", version |-> 0]]
      /\ parsed \in [id : {Home[p] : p \in Paths}, version : {0}]
  BY DEF DInit
<1>2. \A r \in Repos : Pushed(r) => CheckoutOf(r) \in Paths /\ Home[CheckoutOf(r)] = r
  BY DEF Pushed, CheckoutOf
<1>3. slugs \in [Repos -> Slugs \cup {NoSlug}]
  BY <1>1, <1>2
<1>4. checkouts \in [Repos -> [Machines -> Paths \cup {NoPath}]]
  BY <1>1, <1>2
<1>5. requests = {} /\ enqueues = 0 /\ ingesting = [r \in Repos |-> NoMachine]
  BY DEF DInit
<1>6. TypeOK
  BY <1>3, <1>4, <1>5 DEF TypeOK
<1>7. ForeignKeys
  <2>1. ASSUME NEW r \in Repos, NEW m \in Machines, checkouts[r][m] # NoPath
        PROVE  slugs[r] # NoSlug
    <3>1. Pushed(r)
      BY <1>1, <2>1
    <3>2. slugs[r] = DirName[CheckoutOf(r)]
      BY <1>1, <3>1
    <3> QED
      BY <1>2, <3>1, <3>2
  <2> QED
    BY <1>5, <2>1 DEF ForeignKeys
<1>8. CheckoutOwnedOnce
  <2> SUFFICES ASSUME NEW q \in Repos, NEW r \in Repos, NEW m \in Remote,
                      checkouts[q][m] = checkouts[r][m], checkouts[q][m] # NoPath
               PROVE  q = r
    BY DEF CheckoutOwnedOnce
  <2>1. m \in Machines
    BY DEF Remote
  <2>2. \A x \in Repos : checkouts[x][m] # NoPath => Pushed(x) /\ checkouts[x][m] = CheckoutOf(x)
    BY <1>1, <2>1
  <2>3. Home[CheckoutOf(q)] = q /\ Home[CheckoutOf(r)] = r /\ CheckoutOf(q) = CheckoutOf(r)
    BY <1>2, <2>2
  <2> QED
    BY <2>3
<1>9. DTypeOK
  <2>1. /\ 0 \in Versions /\ 0 \in 0 .. Backoff /\ 0 \in 0 .. MaxPushes
    BY DEF Versions
  <2>2. tree \in [Paths -> [id : Repos, kind : {"source", "empty", "gone"}, version : Versions]]
    BY <1>1, <2>1
  <2>3. parsed \in [id : Repos, version : Versions]
    BY <1>1, <2>1
  <2>4. /\ stored \in [Repos -> Versions \cup {Nothing}]
        /\ indexed \in [Repos -> Times]
    BY <1>1, <2>1, <2>2 DEF Now, Times
  <2>5. /\ wanted = [r \in Repos |-> 0] /\ phase = "sleeping" /\ batch = <<>>
        /\ backoff = [p \in Paths |-> 0] /\ cli = NoPush /\ pushes = 0
        /\ local = [s \in Slugs |-> Nothing]
    BY DEF DInit
  <2> QED
    BY <2>1, <2>2, <2>3, <2>4, <2>5 DEF DTypeOK
<1>10. Busy
  BY DEF DInit, Busy
<1> QED
  BY <1>5, <1>6, <1>7, <1>8, <1>9, <1>10

\* A step of the daemon's machine or of its server keeps everything typed.
LEMMA DTyped == DSpec => [](TypeOK /\ ForeignKeys /\ DTypeOK /\ Busy)
<1>1. TypeOK /\ ForeignKeys /\ DTypeOK /\ Busy /\ [DNext]_dvars
         => (TypeOK /\ ForeignKeys /\ DTypeOK /\ Busy)'
  BY DNextTyped, DNextNext, NextTypeOK, NextForeignKeys
<1> QED
  BY <1>1, DInitTyped, PTL DEF DSpec

\* The queue's handlers are called as IndexRequests allows: the daemon, the other
\* processes of its machine and the server never name a checkout, a repository or
\* a slug that is none.
THEOREM CallsAreLegal == DSpec => [][Next]_vars
<1>1. TypeOK /\ DTypeOK /\ Busy /\ [DNext]_dvars => [Next]_vars
  BY DNextNext
<1> QED
  BY <1>1, DTyped, PTL DEF DSpec

\* What the queue promises whoever calls it holds in the closed loop as well,
\* where the checkouts have been pushed before.
THEOREM LoopKeepsQueue ==
  DSpec => /\ [](OneOutstanding /\ ServesBounded /\ CheckoutOwnedOnce)
           /\ ResolvedIsFinal
<1>1. DInit => OneOutstanding /\ ServesBounded /\ CheckoutOwnedOnce
  BY DInitTyped DEF OneOutstanding, ServesBounded
<1>2. TypeOK /\ [Next]_vars /\ OneOutstanding /\ ServesBounded /\ CheckoutOwnedOnce
         => (OneOutstanding /\ ServesBounded /\ CheckoutOwnedOnce)'
  BY NextOneOutstanding, NextServesBounded, NextCheckoutOwnedOnce
<1>3. TypeOK /\ [Next]_vars =>
         [\A x \in requests : Outstanding(x) \/ x \in requests'
                               \/ \A y \in requests' : y.repo # x.repo]_vars
  BY NextResolvedIsFinal
<1> QED
  BY <1>1, <1>2, <1>3, DTyped, CallsAreLegal, PTL DEF DSpec, ResolvedIsFinal

\* The closed loop implements IndexJobs too.
THEOREM LoopImplementsJobs == DSpec => ImplementsJobs
<1>1. DInit => Jobs!Init /\ RowsApart /\ FailedFinite
  BY DInitTyped, InitJobs
<1>2. RowsApart /\ TypeOK /\ [Next]_vars => RowsApart'
  BY NextRowsApart
<1>3. TypeOK /\ OneOutstanding /\ ServesBounded /\ RowsApart /\ FailedFinite /\ [Next]_vars
         => [Jobs!Next]_Jobs!vars /\ FailedFinite'
  BY NextJobs DEF RowsInv
<1> QED
  BY <1>1, <1>2, <1>3, DTyped, CallsAreLegal, LoopKeepsQueue, PTL
     DEF DSpec, ImplementsJobs, Jobs!Spec

-----------------------------------------------------------------------------
\* A push that is under way has stored symbols of its repository, unless the
\* repository was dropped meanwhile, and then nothing can ask for it again before
\* the push ends: a checkout comes back only by a push, which waits for the lock.
HasSymbols ==
    \A r \in Repos :
        /\ ingesting[r] # NoMachine
        /\ \/ \E m \in Remote : checkouts[r][m] # NoPath
           \/ \E x \in requests : x.repo = r
        => stored[r] # Nothing

\* No step closes a request well without symbols, or takes symbols away from a
\* repository that has requests.
LEMMA NextHasSymbols ==
  ASSUME TypeOK, DTypeOK, Busy, HasSymbols, DoneHasSymbols, [DNext]_dvars
  PROVE  HasSymbols' /\ DoneHasSymbols'
<1> USE NonesAreNone DEF serverVars
<1> DEFINE Goal == HasSymbols' /\ DoneHasSymbols'
<1>0. /\ checkouts \in [Repos -> [Machines -> Paths \cup {NoPath}]]
      /\ \A x \in requests : x.repo \in Repos /\ x \in Request
      /\ ingesting \in [Repos -> Machines \cup {NoMachine}]
      /\ stored \in [Repos -> Versions \cup {Nothing}]
      /\ \A v \in Versions : v # Nothing
      /\ Owner \in Machines /\ \A m \in Remote : m \in Machines
  BY NothingIsNoVersion, OwnerIsRemote, DaemonLimits DEF TypeOK, DTypeOK, Request, Versions, Remote
\* What changes only requests and closes none of them well.
<1>1. ASSUME UNCHANGED <<checkouts, ingesting, stored>>,
             \A x \in requests' :
                \/ \E y \in requests : y.repo = x.repo /\ (x.status = "done" => y.status = "done")
                \/ x.status # "done" /\ \E m \in Remote : checkouts[x.repo][m] # NoPath
      PROVE  Goal
  <2>1. HasSymbols'
    BY <1>1 DEF HasSymbols
  <2>2. DoneHasSymbols'
    BY <1>1 DEF DoneHasSymbols
  <2> QED
    BY <2>1, <2>2
<1>2. ASSUME UNCHANGED <<vars, stored>> PROVE Goal
  BY <1>2 DEF vars, HasSymbols, DoneHasSymbols
\* What stores the repository r of a push and takes the lock.
<1>3. ASSUME NEW r \in Repos, NEW p \in Paths, NEW s \in Slugs, IngestBegin(r, Owner, p, s),
             \E v \in Versions : stored' = [stored EXCEPT ![r] = v]
      PROVE  Goal
  <2>1. /\ \A q \in Repos \ {r} : stored'[q] = stored[q]
        /\ stored'[r] # Nothing
        /\ \A q \in Repos : stored[q] # Nothing => stored'[q] # Nothing
    BY <1>0, <1>3
  <2>2. /\ \A q \in Repos \ {r} : ingesting'[q] = ingesting[q]
        /\ requests' = requests
    BY <1>0, <1>3 DEF IngestBegin
  <2>3. \A q \in Repos \ {r}, n \in Remote : checkouts'[q][n] # NoPath => checkouts[q][n] # NoPath
    BY <1>0, <1>3, StoreRepoStores DEF IngestBegin
  <2>4. HasSymbols'
    <3> SUFFICES ASSUME NEW q \in Repos, q # r, ingesting'[q] # NoMachine,
                        \/ \E m \in Remote : checkouts'[q][m] # NoPath
                        \/ \E x \in requests' : x.repo = q
                 PROVE  stored'[q] # Nothing
      BY <2>1 DEF HasSymbols
    <3>1. ingesting[q] # NoMachine /\ stored'[q] = stored[q]
      BY <2>1, <2>2
    <3>2. \/ \E m \in Remote : checkouts[q][m] # NoPath
          \/ \E x \in requests : x.repo = q
      BY <2>2, <2>3
    <3> QED
      BY <3>1, <3>2 DEF HasSymbols
  <2>5. DoneHasSymbols'
    BY <1>0, <2>1, <2>2 DEF DoneHasSymbols
  <2> QED
    BY <2>4, <2>5
\* What stores the repository r of a push that fails afterwards.
<1>4. ASSUME NEW r \in Repos, NEW p \in Paths, NEW s \in Slugs, IngestFailed(r, Owner, p, s),
             \/ \E v \in Versions : stored' = [stored EXCEPT ![r] = v]
             \/ UNCHANGED stored
      PROVE  Goal
  <2>1. \A q \in Repos : stored[q] # Nothing => stored'[q] # Nothing
    BY <1>0, <1>4
  <2>2. ingesting' = ingesting /\ requests' = requests /\ ingesting[r] = NoMachine
    BY <1>4 DEF IngestFailed, StoreRepo
  <2>3. \A q \in Repos \ {r}, n \in Remote : checkouts'[q][n] # NoPath => checkouts[q][n] # NoPath
    BY <1>0, <1>4, StoreRepoStores DEF IngestFailed
  <2>4. HasSymbols'
    <3> SUFFICES ASSUME NEW q \in Repos, ingesting'[q] # NoMachine,
                        \/ \E m \in Remote : checkouts'[q][m] # NoPath
                        \/ \E x \in requests' : x.repo = q
                 PROVE  stored[q] # Nothing
      BY <2>1 DEF HasSymbols
    <3>1. ingesting[q] # NoMachine /\ q # r
      BY <2>2
    <3>2. \/ \E m \in Remote : checkouts[q][m] # NoPath
          \/ \E x \in requests : x.repo = q
      BY <2>2, <2>3, <3>1
    <3> QED
      BY <3>1, <3>2 DEF HasSymbols
  <2>5. DoneHasSymbols'
    BY <1>0, <2>1, <2>2 DEF DoneHasSymbols
  <2> QED
    BY <2>4, <2>5
\* What only takes a path over.
<1>5. ASSUME NEW r \in Repos, NEW p \in Paths, NEW s \in Slugs, IngestRefused(r, Owner, p, s),
             UNCHANGED stored
      PROVE  Goal
  <2>1. \A q \in Repos, n \in Remote : checkouts'[q][n] # NoPath => checkouts[q][n] # NoPath
    BY <1>0, <1>5, TakenOverRemoves DEF IngestRefused
  <2>2. UNCHANGED <<requests, ingesting, stored>>
    BY <1>5 DEF IngestRefused
  <2>3. HasSymbols'
    BY <2>1, <2>2 DEF HasSymbols
  <2> QED
    BY <2>2, <2>3 DEF DoneHasSymbols
<1>6. ASSUME NEW p \in Paths, Edit(p) PROVE Goal
  BY <1>2, <1>6 DEF Edit
<1>7. ASSUME NEW r \in Repos, Query(r) PROVE Goal
  <2>1. \A x \in NewRequests(r) :
           x.status # "done" /\ \E m \in Remote : checkouts[x.repo][m] # NoPath
    BY DEF NewRequests
  <2>2. requests' = requests \cup NewRequests(r) /\ UNCHANGED <<checkouts, ingesting, stored>>
    BY <1>7 DEF Query, Enqueue
  <2> QED
    BY <1>1, <2>1, <2>2
<1>8. CASE Poll
  <2>1. PICK S \in SUBSET requests : Claim(Owner, ClaimLimit, S)
    BY <1>8 DEF Poll
  <2>2. \A x \in S : Claimable(x)
    BY <2>1 DEF Claim, IsOldest
  <2>3. \A x \in requests :
           /\ AfterClaim(x, Owner, S).repo = x.repo
           /\ AfterClaim(x, Owner, S).status = "done" => x.status = "done"
    <3> SUFFICES ASSUME NEW x \in requests
                 PROVE  /\ AfterClaim(x, Owner, S).repo = x.repo
                        /\ AfterClaim(x, Owner, S).status = "done" => x.status = "done"
      OBVIOUS
    <3>1. AfterClaim(x, Owner, S).repo = x.repo
      BY <1>0, <2>2, ClaimKeeps
    <3>2. AfterClaim(x, Owner, S).status = "done" => x.status = "done"
      BY <1>0 DEF AfterClaim, Resolved, Request
    <3> QED
      BY <3>1, <3>2
  <2>4. requests' = {AfterClaim(x, Owner, S) : x \in requests}
    BY <2>1 DEF Claim
  <2>5. UNCHANGED <<checkouts, ingesting, stored>>
    BY <1>8, <2>1 DEF Claim, Poll
  <2> QED
    BY <1>1, <2>3, <2>4, <2>5
<1>9. CASE Skip \/ Precheck \/ Parse \/ Timeout \/ DaemonRestart
  BY <1>2, <1>9 DEF Skip, Precheck, Parse, Timeout, DaemonRestart
<1>10. CASE DaemonPush
  <2>1. Current \in Paths /\ Head(batch).slug \in Slugs
    BY <1>10, CurrentTyped DEF DaemonPush
  <2>2. parsed.id \in Repos /\ parsed.version \in Versions
    BY DEF DTypeOK
  <2>3. StoreFiles(parsed.id, parsed.version, Nothing)
          => \E v \in Versions : stored' = [stored EXCEPT ![parsed.id] = v]
    BY <2>2, StoresTyped
  <2> QED
    BY <1>2, <1>3, <1>4, <1>5, <1>10, <2>1, <2>2, <2>3 DEF DaemonPush
<1>11. CASE Report
  <2>1. CASE UNCHANGED vars
    BY <1>2, <1>11, <2>1 DEF Report
  <2>2. CASE Fail(Owner, Current)
    <3>1. \A x \in Request : Resolved(x, "failed").repo = x.repo /\ Resolved(x, "failed").status = "failed"
      BY DEF Resolved, Request
    <3>2. \A x \in requests' : \E y \in requests :
             y.repo = x.repo /\ (x.status = "done" => y.status = "done")
      BY <1>0, <2>2, <3>1 DEF Fail, IsReported
    <3>3. UNCHANGED <<checkouts, ingesting, stored>>
      BY <1>11, <2>2 DEF Report, Fail
    <3> QED
      BY <1>1, <3>2, <3>3
  <2> QED
    BY <1>11, <2>1, <2>2 DEF Report
<1>12. CASE \/ \E s \in Slugs : CliPull(s) \/ \E p \in Paths : CliIncrement(s, p)
            \/ \E p \in Paths : CliIndex(p)
  BY <1>2, <1>12 DEF CliPull, CliIncrement, CliIndex, CliPrepare, serverVars
<1>13. CASE CliPush
  <2>1. /\ cli.id \in Repos /\ cli.path \in Paths /\ cli.version \in Versions
        /\ cli.slug \in Slugs
    BY <1>13 DEF CliPush, DTypeOK, CliPushes
  <2>2. StoreFiles(cli.id, cli.version, cli.since)
          => \E v \in Versions : stored' = [stored EXCEPT ![cli.id] = v]
    BY <2>1, StoresTyped
  <2> QED
    BY <1>2, <1>3, <1>4, <1>5, <1>13, <2>1, <2>2 DEF CliPush
<1>14. ASSUME NEW r \in Repos, Finish(r) PROVE Goal
  <2>1. /\ ingesting[r] # NoMachine
        /\ requests' = Completed(r, ingesting[r])
        /\ ingesting' = [ingesting EXCEPT ![r] = NoMachine]
        /\ UNCHANGED <<checkouts, stored>>
    BY <1>14 DEF Finish, IngestEnd
  <2>2. \A x \in Request : Resolved(x, "done").repo = x.repo
    BY ResolvedKeeps
  <2>3. \A x \in requests' : \E y \in requests :
           y.repo = x.repo /\ (x.status = "done" => y.status = "done" \/ y.repo = r)
    BY <1>0, <2>1, <2>2 DEF Completed
  <2>4. \A q \in Repos : ingesting'[q] # NoMachine => ingesting[q] # NoMachine
    BY <1>0, <2>1
  <2>5. HasSymbols'
    <3> SUFFICES ASSUME NEW q \in Repos, ingesting'[q] # NoMachine,
                        \/ \E m \in Remote : checkouts'[q][m] # NoPath
                        \/ \E x \in requests' : x.repo = q
                 PROVE  stored'[q] # Nothing
      BY DEF HasSymbols
    <3>1. \/ \E m \in Remote : checkouts[q][m] # NoPath
          \/ \E x \in requests : x.repo = q
      BY <2>1, <2>3
    <3> QED
      BY <2>1, <2>4, <3>1 DEF HasSymbols
  <2>6. DoneHasSymbols'
    BY <1>0, <2>1, <2>3 DEF HasSymbols, DoneHasSymbols
  <2> QED
    BY <2>5, <2>6
<1>15. ASSUME NEW r \in Repos, DropRepo(r) PROVE Goal
  <2>1. /\ requests' = {x \in requests : x.repo # r}
        /\ checkouts' = [checkouts EXCEPT ![r] = [m \in Machines |-> NoPath]]
        /\ stored' = [stored EXCEPT ![r] = Nothing]
        /\ UNCHANGED ingesting
    BY <1>15 DEF DropRepo, Drop
  <2>2. \A m \in Remote : checkouts'[r][m] = NoPath
    BY <1>0, <2>1
  <2>3. \A q \in Repos \ {r} : checkouts'[q] = checkouts[q] /\ stored'[q] = stored[q]
    BY <1>0, <2>1
  <2>4. HasSymbols'
    <3> SUFFICES ASSUME NEW q \in Repos, ingesting'[q] # NoMachine,
                        \/ \E m \in Remote : checkouts'[q][m] # NoPath
                        \/ \E x \in requests' : x.repo = q
                 PROVE  stored'[q] # Nothing
      BY DEF HasSymbols
    <3>1. q # r
      BY <2>1, <2>2
    <3>2. ingesting[q] # NoMachine /\ checkouts'[q] = checkouts[q] /\ stored'[q] = stored[q]
      BY <2>1, <2>3, <3>1
    <3>3. (\E x \in requests' : x.repo = q) => \E x \in requests : x.repo = q
      BY <2>1
    <3> QED
      BY <3>2, <3>3 DEF HasSymbols
  <2>5. DoneHasSymbols'
    BY <1>0, <2>1, <2>3 DEF DoneHasSymbols
  <2> QED
    BY <2>4, <2>5
<1>16. CASE ServerRestart
  <2>1. /\ \A q \in Repos : ingesting'[q] = NoMachine
        /\ UNCHANGED <<requests, stored>>
    BY <1>16 DEF ServerRestart, Restart
  <2> QED
    BY <2>1 DEF HasSymbols, DoneHasSymbols
<1>17. CASE Pass
  <2>1. CASE UNCHANGED vars
    BY <1>2, <1>17, <2>1 DEF Pass
  <2>2. CASE Tick
    <3> DEFINE older(x) == [x EXCEPT !.age = x.age + 1]
    <3>1. \A x \in requests : older(x).repo = x.repo /\ older(x).status = x.status
      BY <1>0 DEF Request
    <3>0. requests' = {IF x.status = "claimed" /\ x.age <= ReclaimAfter
                          THEN older(x) ELSE x : x \in requests}
      BY <2>2 DEF Tick
    <3> HIDE DEF older
    <3>2. \A x \in requests' : \E y \in requests :
             y.repo = x.repo /\ (x.status = "done" => y.status = "done")
      BY <3>0, <3>1
    <3>3. UNCHANGED <<checkouts, ingesting, stored>>
      BY <1>17, <2>2 DEF Pass, Tick
    <3> QED
      BY <1>1, <3>2, <3>3
  <2> QED
    BY <1>17, <2>1, <2>2 DEF Pass
<1>18. CASE UNCHANGED dvars
  BY <1>2, <1>18 DEF dvars
<1> QED
  BY <1>6, <1>7, <1>8, <1>9, <1>10, <1>11, <1>12, <1>13, <1>14, <1>15, <1>16, <1>17, <1>18
     DEF DNext

\* A request that ended well is of a repository with symbols, in every state of
\* the loop.
THEOREM DoneHasSymbolsHolds == DSpec => []DoneHasSymbols
<1>1. DInit => HasSymbols /\ DoneHasSymbols
  BY DInitTyped DEF HasSymbols, DoneHasSymbols
<1>2. TypeOK /\ DTypeOK /\ Busy /\ HasSymbols /\ DoneHasSymbols /\ [DNext]_dvars
         => HasSymbols' /\ DoneHasSymbols'
  BY NextHasSymbols
<1> QED
  BY <1>1, <1>2, DTyped, PTL DEF DSpec

-----------------------------------------------------------------------------
\* Whoever waits for a push waits for one that the server has under way, each for
\* one of its own.
WaitersAreServed ==
    /\ phase = "waiting" => ingesting[parsed.id] = Owner
    /\ cli # NoPush /\ cli.step = "waiting" =>
          /\ ingesting[cli.id] = Owner
          /\ phase = "waiting" => parsed.id # cli.id

\* The server never ends a push without an answer to whoever waits for it.
LEMMA NextWaitersAreServed ==
  ASSUME TypeOK, DTypeOK, WaitersAreServed, [DNext]_dvars
  PROVE  WaitersAreServed'
<1> DEFINE CliWaits == cli # NoPush /\ cli.step = "waiting"
<1> USE DEF CliPushes
<1>0. /\ ingesting \in [Repos -> Machines \cup {NoMachine}]
      /\ parsed \in [id : Repos, version : Versions]
      /\ cli \in {NoPush} \cup CliPushes
      /\ Owner # NoMachine
  BY NonesAreNone, OwnerIsRemote DEF TypeOK, DTypeOK, Remote
<1>1. ASSUME UNCHANGED <<ingesting, parsed, cli>>, phase' = "waiting" => phase = "waiting"
      PROVE  WaitersAreServed'
  BY <1>1 DEF WaitersAreServed
<1>2. CASE Poll \/ Skip \/ Precheck \/ Timeout \/ Report \/ DaemonRestart \/ Pass
           \/ (\E p \in Paths : Edit(p)) \/ (\E r \in Repos : Query(r) \/ DropRepo(r))
  BY <1>1, <1>2 DEF Poll, Claim, Skip, Precheck, Timeout, Report, Fail, DaemonRestart, Pass, Tick, Edit,
     Query, Enqueue, DropRepo, Drop, NextPath, GiveUp, vars, daemonVars
<1>3. CASE Parse
  BY <1>3 DEF Parse, NextPath, vars, WaitersAreServed
<1>4. CASE DaemonPush
  <2>1. CASE phase' = "waiting"
    <3>1. /\ ingesting[parsed.id] = NoMachine
          /\ ingesting' = [ingesting EXCEPT ![parsed.id] = Owner] /\ UNCHANGED <<parsed, cli>>
      BY <1>4, <2>1 DEF DaemonPush, IngestBegin, StoreRepo, GiveUp
    <3>2. CliWaits => cli.id \in Repos /\ cli.id # parsed.id
      BY <1>0, <3>1 DEF WaitersAreServed, NoPush
    <3> QED
      BY <1>0, <3>1, <3>2 DEF WaitersAreServed
  <2>2. CASE phase' # "waiting"
    BY <1>1, <1>4, <2>2 DEF DaemonPush, IngestRefused, IngestFailed, vars
  <2> QED
    BY <2>1, <2>2
<1>10. ASSUME NEW s \in Slugs, CliPull(s) PROVE WaitersAreServed'
  BY <1>1, <1>10 DEF CliPull, vars, daemonVars
<1>5. CASE \E p \in Paths : CliIndex(p) \/ \E s \in Slugs : CliIncrement(s, p)
  <2>1. cli'.step = "parsed" /\ UNCHANGED <<ingesting, parsed, phase>>
    BY <1>5 DEF CliIncrement, CliIndex, CliPrepare, vars, daemonVars
  <2> QED
    BY <2>1 DEF WaitersAreServed
<1>6. CASE CliPush
  <2>0. cli # NoPush /\ cli.step = "parsed" /\ UNCHANGED <<parsed, phase>> /\ cli.id \in Repos
    BY <1>0, <1>6 DEF CliPush, daemonVars
  <2>1. CASE cli' = NoPush
    <3>1. ingesting' = ingesting
      BY <1>6, <2>0, <2>1 DEF CliPush, IngestRefused, IngestFailed, vars, NoPush
    <3> QED
      BY <2>0, <2>1, <3>1 DEF WaitersAreServed
  <2>2. CASE /\ cli' = [cli EXCEPT !.step = "waiting"]
             /\ ingesting[cli.id] = NoMachine
             /\ ingesting' = [ingesting EXCEPT ![cli.id] = Owner]
    <3>1. cli'.id = cli.id
      BY <1>0, <2>0, <2>2
    <3>2. phase = "waiting" => parsed.id # cli.id
      BY <1>0, <2>2 DEF WaitersAreServed
    <3> QED
      BY <1>0, <2>0, <2>2, <3>1, <3>2 DEF WaitersAreServed
  <2> QED
    BY <1>6, <2>1, <2>2 DEF CliPush, IngestBegin, StoreRepo
<1>7. ASSUME NEW r \in Repos, Finish(r) PROVE WaitersAreServed'
  <2>1. ingesting' = [ingesting EXCEPT ![r] = NoMachine] /\ parsed' = parsed
    BY <1>7 DEF Finish, IngestEnd
  <2>2. phase' = "waiting" => phase = "waiting" /\ parsed.id # r
    BY <1>7 DEF Finish, NextPath
  <2>3. cli' # NoPush /\ cli'.step = "waiting" => cli' = cli /\ cli.id # r
    BY <1>0, <1>7 DEF Finish, WaitersAreServed
  <2> QED
    BY <1>0, <2>1, <2>2, <2>3 DEF WaitersAreServed
<1>8. CASE ServerRestart
  <2>1. phase' # "waiting" /\ ~(cli' # NoPush /\ cli'.step = "waiting")
    BY <1>8 DEF ServerRestart, GiveUp, NoPush
  <2> QED
    BY <2>1 DEF WaitersAreServed
<1>9. CASE UNCHANGED dvars
  BY <1>1, <1>9 DEF dvars, vars, daemonVars
<1> QED
  BY <1>2, <1>3, <1>4, <1>5, <1>6, <1>7, <1>8, <1>9, <1>10 DEF DNext

\* Nobody waits for a push that is over: the daemon and the other processes wait for the
\* end of a push that the server has under way, however pushes fail, time out, are dropped
\* or end with the server, and no two wait for the same one.
THEOREM NobodyWaitsForNothing == DSpec => []WaitersAreServed
<1>1. DInit => WaitersAreServed
  BY DEF DInit, WaitersAreServed
<1> QED
  BY <1>1, NextWaitersAreServed, DTyped, PTL DEF DSpec
=============================================================================
