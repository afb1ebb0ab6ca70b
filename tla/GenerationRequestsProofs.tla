----------------------- MODULE GenerationRequestsProofs -----------------------
(***************************************************************************)
(* Theorems about GenerationRequests, from no assumption on how long a run *)
(* takes: what the lease and the sweep promise of every run, and what they *)
(* promise as long as it is not older than they allow.                     *)
(***************************************************************************)
EXTENDS GenerationRequests, FilmDraft, TLAPS

(* A lease is its holder's, and its holder is still inside. *)
LeaseHasHolder ==
    \A p \in Projects : leases[p] # NoLease =>
        /\ ProjectOf[leases[p].holder] = p
        /\ pc[leases[p].holder] \in Inside
        /\ leases[p].until = startedAt[leases[p].holder] + LeaseTtl

(* A request that has not reserved has no hold. *)
NotReserved ==
    \A r \in Requests :
        pc[r] \in {"new", "admitted", "preparing", "busy", "refused"} =>
            hold[r] = "none" /\ outcome[r] = "none"

AnyRunInv == TypeOK /\ LeaseHasHolder /\ NotReserved

(* Until it is as old as its lease's TTL, a request inside has its lease. *)
InsideHasLease ==
    \A r \in Requests : pc[r] \in Inside /\ now < startedAt[r] + LeaseTtl =>
        leases[ProjectOf[r]] # NoLease /\ leases[ProjectOf[r]].holder = r

(* A run has its hold until it is stale; then the sweep may have had it. *)
LiveHold ==
    \A r \in Requests : pc[r] \in {"running", "closing"} =>
        /\ hold[r] \in {"open", "returned"}
        /\ now <= heldAt[r] + StaleAfter => hold[r] = "open"

(* What a request may have paid when it is on its way out. *)
Settled(r) ==
    /\ hold[r] # "open"
    /\ hold[r] = "charged" => outcome[r] = "result"
    /\ outcome[r] = "result" => hold[r] = "charged" \/ heldAt[r] + StaleAfter < now

(* What a request ended with is decided before its hold is closed. *)
OutcomeIsCharged ==
    failures = 0 => \A r \in Requests :
        /\ pc[r] = "closing" => outcome[r] \in {"result", "error"}
        /\ pc[r] \in {"releasing", "answered", "unpaid", "failed"} => Settled(r)

-----------------------------------------------------------------------------
(* The invariants hold initially. *)
LEMMA InitEstablishes == Init => AnyRunInv /\ InsideHasLease /\ LiveHold /\ OutcomeIsCharged
  BY TimesAssumption, NamesAssumption
  DEF Init, AnyRunInv, TypeOK, LeaseHasHolder, NotReserved, InsideHasLease, LiveHold,
      OutcomeIsCharged, States, Lease, Inside

(* Every step keeps the types. *)
LEMMA TypesKept == TypeOK /\ [Next]_vars => TypeOK'
<1> SUFFICES ASSUME TypeOK, [Next]_vars PROVE TypeOK'
  OBVIOUS
<1> USE TimesAssumption, NamesAssumption DEF TypeOK
<1>1. ASSUME NEW r \in Requests, CheckAccess(r) PROVE TypeOK'
  BY <1>1 DEF CheckAccess, Goto, States
<1>2. ASSUME NEW r \in Requests, Acquire(r) PROVE TypeOK'
  <2>1. ProjectOf[r] \in Projects /\ now + LeaseTtl \in Nat /\ now \in 0..MaxTime
    OBVIOUS
  <2>2. [holder |-> r, until |-> now + LeaseTtl] \in Lease
    BY <2>1 DEF Lease
  <2> QED BY <1>2, <2>1, <2>2 DEF Acquire, Goto, States
<1>3. ASSUME NEW r \in Requests, Begin(r) PROVE TypeOK'
  BY <1>3 DEF Begin, Goto, States, Fail
<1>4. ASSUME NEW r \in Requests, RunEnds(r) PROVE TypeOK'
  BY <1>4 DEF RunEnds, Goto, States
<1>5. ASSUME NEW r \in Requests, Close(r) PROVE TypeOK'
  BY <1>5 DEF Close, Goto, States, Fail
<1>6. ASSUME NEW r \in Requests, Release(r) PROVE TypeOK'
  <2>1. outcome[r] \in {"unpaid", "failed"} => outcome[r] \in States
    BY DEF States
  <2>2. pc' \in [Requests -> States]
    BY <1>6, <2>1 DEF Release, Goto, States
  <2>3. leases' \in [Projects -> Lease \cup {NoLease}]
    BY <1>6 DEF Release
  <2> QED BY <1>6, <2>2, <2>3 DEF Release
<1>7. CASE Sweep
  BY <1>7 DEF Sweep
<1>8. CASE Restart
  BY <1>8 DEF Restart, Fail, States
<1>9. CASE Tick
  BY <1>9 DEF Tick
<1>10. CASE UNCHANGED vars
  BY <1>10 DEF vars
<1> QED BY <1>1, <1>2, <1>3, <1>4, <1>5, <1>6, <1>7, <1>8, <1>9, <1>10 DEF Next, Step

(* Every step keeps what is true of any run. *)
LEMMA AnyRunKept == AnyRunInv /\ [Next]_vars => AnyRunInv'
<1> SUFFICES ASSUME AnyRunInv, [Next]_vars PROVE AnyRunInv'
  OBVIOUS
<1>0. TypeOK /\ TypeOK' /\ LeaseHasHolder /\ NotReserved
  BY TypesKept DEF AnyRunInv
<1> SUFFICES LeaseHasHolder' /\ NotReserved'
  BY <1>0 DEF AnyRunInv
<1> USE <1>0, TimesAssumption, NamesAssumption DEF TypeOK, Lease
<1>1. ASSUME NEW r \in Requests, CheckAccess(r) PROVE LeaseHasHolder' /\ NotReserved'
  BY <1>1 DEF CheckAccess, Goto, LeaseHasHolder, NotReserved, Inside
<1>2. ASSUME NEW r \in Requests, Acquire(r) PROVE LeaseHasHolder' /\ NotReserved'
  <2>1. NotReserved'
    BY <1>2 DEF Acquire, Goto, NotReserved
  <2>2. CASE InForce(ProjectOf[r])
    BY <1>2, <2>1, <2>2 DEF Acquire, Goto, LeaseHasHolder, Inside
  <2>3. CASE ~InForce(ProjectOf[r])
    <3>1. /\ leases' = [leases EXCEPT ![ProjectOf[r]] =
                          [holder |-> r, until |-> now + LeaseTtl]]
          /\ startedAt' = [startedAt EXCEPT ![r] = now]
          /\ pc' = [pc EXCEPT ![r] = "preparing"] /\ pc[r] = "admitted"
      BY <1>2, <2>3 DEF Acquire, Goto
    <3> SUFFICES ASSUME NEW p \in Projects, leases'[p] # NoLease
                 PROVE  /\ ProjectOf[leases'[p].holder] = p
                        /\ pc'[leases'[p].holder] \in Inside
                        /\ leases'[p].until = startedAt'[leases'[p].holder] + LeaseTtl
      BY <2>1 DEF LeaseHasHolder
    <3>2. CASE p = ProjectOf[r]
      BY <3>1, <3>2 DEF Inside
    <3>3. CASE p # ProjectOf[r]
      <4>1. leases'[p] = leases[p] /\ leases[p].holder \in Requests
        BY <3>1, <3>3
      <4>2. leases[p].holder # r
        BY <3>1, <4>1 DEF LeaseHasHolder, Inside
      <4> QED BY <3>1, <4>1, <4>2 DEF LeaseHasHolder
    <3> QED BY <3>2, <3>3
  <2> QED BY <2>1, <2>2, <2>3
<1>3. ASSUME NEW r \in Requests, Begin(r) PROVE LeaseHasHolder' /\ NotReserved'
  BY <1>3 DEF Begin, Goto, LeaseHasHolder, NotReserved, Inside, Fail
<1>4. ASSUME NEW r \in Requests, RunEnds(r) PROVE LeaseHasHolder' /\ NotReserved'
  BY <1>4 DEF RunEnds, Goto, LeaseHasHolder, NotReserved, Inside
<1>5. ASSUME NEW r \in Requests, Close(r) PROVE LeaseHasHolder' /\ NotReserved'
  BY <1>5 DEF Close, Goto, LeaseHasHolder, NotReserved, Inside, Fail
<1>6. ASSUME NEW r \in Requests, Release(r) PROVE LeaseHasHolder' /\ NotReserved'
  <2>1. NotReserved'
    <3>1. pc'[r] \in {"unpaid", "failed", "answered"}
      BY <1>6 DEF Release, Goto
    <3>2. \A q \in Requests : q # r => pc'[q] = pc[q]
      BY <1>6 DEF Release, Goto
    <3> QED BY <1>6, <3>1, <3>2 DEF Release, NotReserved
  <2>2. ASSUME NEW p \in Projects, leases'[p] # NoLease
        PROVE  leases'[p] = leases[p] /\ leases[p].holder # r
    BY <1>6, <2>2 DEF Release, LeaseHasHolder
  <2>3. LeaseHasHolder'
    BY <1>6, <2>2 DEF Release, Goto, LeaseHasHolder
  <2> QED BY <2>1, <2>3
<1>7. CASE Sweep
  BY <1>7 DEF Sweep, IsStale, LeaseHasHolder, NotReserved
<1>8. CASE Restart
  BY <1>8 DEF Restart, LeaseHasHolder, NotReserved, Inside
<1>9. CASE Tick
  BY <1>9 DEF Tick, LeaseHasHolder, NotReserved
<1>10. CASE UNCHANGED vars
  BY <1>10 DEF vars, LeaseHasHolder, NotReserved
<1> QED BY <1>1, <1>2, <1>3, <1>4, <1>5, <1>6, <1>7, <1>8, <1>9, <1>10 DEF Next, Step

(* AnyRunInv is an invariant, whatever the runs do and however long they   *)
(* take.                                                                   *)
THEOREM AnyRun == Spec => []AnyRunInv
<1>1. Init => AnyRunInv
  BY InitEstablishes
<1> QED BY <1>1, AnyRunKept, PTL DEF Spec

(* The lease store, the requests and the holds always have their types.    *)
THEOREM TypeCorrectness == Spec => []TypeOK
<1>1. AnyRunInv => TypeOK
  BY DEF AnyRunInv
<1> QED BY <1>1, AnyRun, PTL

(* A lease in force belongs to a request that is still inside, and lasts   *)
(* at most its TTL from when it was taken.                                 *)
THEOREM NoLockOutlivesItsRequest == Spec => []NoLockAfterTheEnd
<1>1. AnyRunInv => NoLockAfterTheEnd
  BY TimesAssumption, NamesAssumption
  DEF AnyRunInv, TypeOK, LeaseHasHolder, NoLockAfterTheEnd, InForce, Lease
<1> QED BY <1>1, AnyRun, PTL

(* A lease in force is taken away only from a request that is giving it    *)
(* back, or by the restart that loses the request.                         *)
THEOREM LeasesStayWithTheirHolders == Spec => LeasesAreTheirHolders
<1>1. ASSUME AnyRunInv, [Next]_vars, NEW p \in Projects,
             InForce(p), leases'[p] # leases[p]
      PROVE  LET r == leases[p].holder IN pc[r] = "releasing" \/ pc'[r] = "lost"
  <2> DEFINE h == leases[p].holder
  <2>0. TypeOK /\ LeaseHasHolder
    BY <1>1 DEF AnyRunInv
  <2>1. h \in Requests /\ ProjectOf[h] = p /\ pc[h] \in Inside
    BY <1>1, <2>0, NamesAssumption DEF TypeOK, LeaseHasHolder, InForce, Lease
  <2>2. ASSUME NEW r \in Requests, Step(r) PROVE pc[h] = "releasing"
    <3>1. Acquire(r) \/ Release(r)
      BY <1>1, <2>2 DEF Step, CheckAccess, Begin, RunEnds, Close
    <3>2. ~Acquire(r)
      BY <1>1, <2>0, NamesAssumption DEF Acquire, TypeOK
    <3> QED BY <1>1, <2>0, <3>1, <3>2, NamesAssumption DEF Release, TypeOK
  <2>3. Restart \/ \E r \in Requests : Step(r)
    BY <1>1 DEF Next, Sweep, Tick, vars
  <2>4. Restart => pc'[h] = "lost"
    BY <2>0, <2>1 DEF Restart, TypeOK
  <2> QED BY <2>2, <2>3, <2>4
<1>2. AnyRunInv /\ [Next]_vars =>
        [\A p \in Projects : InForce(p) /\ leases'[p] # leases[p] =>
            LET r == leases[p].holder
            IN  pc[r] = "releasing" \/ pc'[r] = "lost"]_vars
  BY <1>1
<1> QED BY <1>2, AnyRun, PTL DEF Spec, LeasesAreTheirHolders

(* A hold that was charged or given back stays so. *)
THEOREM ClosedHoldsStayClosed == Spec => ClosedForGood
<1>1. ASSUME AnyRunInv, [Next]_vars, NEW r \in Requests,
             hold[r] \in {"charged", "returned"}
      PROVE  hold'[r] = hold[r]
  <2>0. TypeOK /\ NotReserved
    BY <1>1 DEF AnyRunInv
  <2>1. ASSUME NEW q \in Requests, Begin(q) PROVE hold'[r] = hold[r]
    <3>1. q # r
      BY <1>1, <2>0, <2>1 DEF Begin, NotReserved
    <3> QED BY <2>0, <2>1, <3>1 DEF Begin, TypeOK
  <2>2. ASSUME NEW q \in Requests, Close(q) PROVE hold'[r] = hold[r]
    BY <1>1, <2>0, <2>2 DEF Close, TypeOK
  <2>3. CASE Sweep
    BY <1>1, <2>0, <2>3 DEF Sweep, IsStale, TypeOK
  <2> QED BY <1>1, <2>1, <2>2, <2>3
          DEF Next, Step, CheckAccess, Acquire, RunEnds, Release, Restart, Tick, vars
<1>2. AnyRunInv /\ [Next]_vars =>
        [\A r \in Requests : hold[r] \in {"charged", "returned"} => hold'[r] = hold[r]]_vars
  BY <1>1
<1> QED BY <1>2, AnyRun, PTL DEF Spec, ClosedForGood

-----------------------------------------------------------------------------
(* What is promised within the TTL and the stale age.                      *)

(* A lease in force is left to its holder. *)
LEMMA InsideLeaseKept ==
  ASSUME AnyRunInv, InsideHasLease, [Next]_vars
  PROVE  InsideHasLease'
<1>0. TypeOK /\ TypeOK' /\ LeaseHasHolder
  BY TypesKept DEF AnyRunInv
<1> USE <1>0, TimesAssumption, NamesAssumption DEF TypeOK, Lease
<1>1. ASSUME NEW r \in Requests, CheckAccess(r) PROVE InsideHasLease'
  BY <1>1, InsideHasLease DEF CheckAccess, Goto, InsideHasLease, Inside
<1>2. ASSUME NEW r \in Requests, Acquire(r) PROVE InsideHasLease'
  <2>1. CASE InForce(ProjectOf[r])
    BY <1>2, <2>1, InsideHasLease DEF Acquire, Goto, InsideHasLease, Inside
  <2>2. CASE ~InForce(ProjectOf[r])
    <3>1. /\ leases' = [leases EXCEPT ![ProjectOf[r]] =
                          [holder |-> r, until |-> now + LeaseTtl]]
          /\ startedAt' = [startedAt EXCEPT ![r] = now]
          /\ pc' = [pc EXCEPT ![r] = "preparing"] /\ now' = now
      BY <1>2, <2>2 DEF Acquire, Goto
    <3> SUFFICES ASSUME NEW q \in Requests, pc'[q] \in Inside,
                        now' < startedAt'[q] + LeaseTtl
                 PROVE  /\ leases'[ProjectOf[q]] # NoLease
                        /\ leases'[ProjectOf[q]].holder = q
      BY DEF InsideHasLease
    <3>2. CASE q = r
      BY <3>1, <3>2
    <3>3. CASE q # r
      <4>1. /\ pc[q] \in Inside /\ startedAt'[q] = startedAt[q]
            /\ leases[ProjectOf[q]] # NoLease /\ leases[ProjectOf[q]].holder = q
            /\ now < startedAt[q] + LeaseTtl
        BY <3>1, <3>3, InsideHasLease DEF InsideHasLease
      <4>2. leases[ProjectOf[q]].until = startedAt[q] + LeaseTtl
        BY <4>1 DEF LeaseHasHolder
      <4>3. InForce(ProjectOf[q])
        BY <4>1, <4>2 DEF InForce
      <4>4. ProjectOf[q] # ProjectOf[r]
        BY <2>2, <4>3
      <4> QED BY <3>1, <4>1, <4>4
    <3> QED BY <3>2, <3>3
  <2> QED BY <2>1, <2>2
<1>3. ASSUME NEW r \in Requests, Begin(r) PROVE InsideHasLease'
  BY <1>3, InsideHasLease DEF Begin, Goto, InsideHasLease, Inside
<1>4. ASSUME NEW r \in Requests, RunEnds(r) PROVE InsideHasLease'
  BY <1>4, InsideHasLease DEF RunEnds, Goto, InsideHasLease, Inside
<1>5. ASSUME NEW r \in Requests, Close(r) PROVE InsideHasLease'
  BY <1>5, InsideHasLease DEF Close, Goto, InsideHasLease, Inside
<1>6. ASSUME NEW r \in Requests, Release(r) PROVE InsideHasLease'
  <2>1. /\ \A q \in Requests : q # r => pc'[q] = pc[q]
        /\ pc'[r] \notin Inside
    BY <1>6 DEF Release, Goto, Inside
  <2>2. ASSUME NEW q \in Requests, q # r, leases[ProjectOf[q]].holder = q
        PROVE  leases'[ProjectOf[q]] = leases[ProjectOf[q]]
    BY <1>6, <2>2 DEF Release
  <2> QED BY <1>6, <2>1, <2>2, InsideHasLease DEF Release, InsideHasLease
<1>7. CASE Sweep
  BY <1>7, InsideHasLease DEF Sweep, InsideHasLease
<1>8. CASE Restart
  BY <1>8 DEF Restart, InsideHasLease, Inside
<1>9. CASE Tick
  BY <1>9, InsideHasLease DEF Tick, InsideHasLease
<1>10. CASE UNCHANGED vars
  BY <1>10, InsideHasLease DEF vars, InsideHasLease
<1> QED BY [Next]_vars, <1>1, <1>2, <1>3, <1>4, <1>5, <1>6, <1>7, <1>8, <1>9, <1>10 DEF Next, Step

(* The sweep leaves the hold of a run alone that is not stale. *)
LEMMA LiveHoldKept ==
  ASSUME AnyRunInv, LiveHold, [Next]_vars
  PROVE  LiveHold'
<1>0. TypeOK /\ TypeOK'
  BY TypesKept DEF AnyRunInv
<1> USE <1>0, TimesAssumption, NamesAssumption DEF TypeOK
<1>1. ASSUME NEW r \in Requests, CheckAccess(r) PROVE LiveHold'
  BY <1>1, LiveHold DEF CheckAccess, Goto, LiveHold
<1>2. ASSUME NEW r \in Requests, Acquire(r) PROVE LiveHold'
  <2>1. /\ pc[r] = "admitted" /\ pc'[r] \in {"busy", "preparing"}
        /\ \A q \in Requests : q # r => pc'[q] = pc[q]
    BY <1>2 DEF Acquire, Goto
  <2> QED BY <1>2, <2>1, LiveHold DEF Acquire, LiveHold
<1>3. ASSUME NEW r \in Requests, Begin(r) PROVE LiveHold'
  <2>1. /\ \A q \in Requests : q # r =>
              pc'[q] = pc[q] /\ hold'[q] = hold[q] /\ heldAt'[q] = heldAt[q]
        /\ now' = now
        /\ \/ hold'[r] = "open"
           \/ pc'[r] = "releasing"
    BY <1>3 DEF Begin, Goto
  <2> QED BY <2>1, LiveHold DEF LiveHold
<1>4. ASSUME NEW r \in Requests, RunEnds(r) PROVE LiveHold'
  BY <1>4, LiveHold DEF RunEnds, Goto, LiveHold
<1>5. ASSUME NEW r \in Requests, Close(r) PROVE LiveHold'
  <2>1. /\ now' = now /\ heldAt' = heldAt /\ pc'[r] = "releasing"
        /\ \A q \in Requests : q # r => pc'[q] = pc[q] /\ hold'[q] = hold[q]
    BY <1>5 DEF Close, Goto
  <2> QED BY <2>1, LiveHold DEF LiveHold
<1>6. ASSUME NEW r \in Requests, Release(r) PROVE LiveHold'
  <2>1. /\ \A q \in Requests : q # r => pc'[q] = pc[q]
        /\ pc'[r] \in {"answered", "unpaid", "failed"}
    BY <1>6 DEF Release, Goto
  <2> QED BY <1>6, <2>1, LiveHold DEF Release, LiveHold
<1>7. CASE Sweep
  <2>1. ASSUME NEW r \in Requests, pc[r] \in {"running", "closing"}
        PROVE  /\ hold'[r] \in {"open", "returned"}
               /\ now <= heldAt[r] + StaleAfter => hold'[r] = "open"
    BY <1>7, <2>1, LiveHold DEF Sweep, IsStale, LiveHold
  <2> QED BY <1>7, <2>1 DEF Sweep, LiveHold
<1>8. CASE Restart
  BY <1>8, LiveHold DEF Restart, LiveHold, Inside
<1>9. CASE Tick
  BY <1>9, LiveHold DEF Tick, LiveHold
<1>10. CASE UNCHANGED vars
  BY <1>10, LiveHold DEF vars, LiveHold
<1> QED BY [Next]_vars, <1>1, <1>2, <1>3, <1>4, <1>5, <1>6, <1>7, <1>8, <1>9, <1>10 DEF Next, Step

(* Only a result is charged, and every result that is not late. *)
LEMMA OutcomeKept ==
  ASSUME AnyRunInv, LiveHold, OutcomeIsCharged, [Next]_vars
  PROVE  OutcomeIsCharged'
<1>0. TypeOK /\ TypeOK' /\ NotReserved
  BY TypesKept DEF AnyRunInv
<1> SUFFICES ASSUME failures' = 0, NEW q \in Requests
             PROVE  /\ pc'[q] = "closing" => outcome'[q] \in {"result", "error"}
                    /\ pc'[q] \in {"releasing", "answered", "unpaid", "failed"} =>
                         Settled(q)'
  BY DEF OutcomeIsCharged
<1>a. failures = 0
  <2>1. failures' = failures \/ Fail
    BY [Next]_vars DEF Next, Step, CheckAccess, Acquire, Begin, RunEnds, Close, Release,
       Sweep, Restart, Tick, vars
  <2>2. failures \in Nat
    BY <1>0, TimesAssumption DEF TypeOK
  <2> QED BY <2>1, <2>2 DEF Fail
<1>b. /\ pc[q] = "closing" => outcome[q] \in {"result", "error"}
      /\ pc[q] \in {"releasing", "answered", "unpaid", "failed"} => Settled(q)
  BY <1>a, OutcomeIsCharged DEF OutcomeIsCharged
<1>c. ~Fail
  BY <1>0, <1>a DEF Fail, TypeOK
<1> DEFINE Goal == /\ pc'[q] = "closing" => outcome'[q] \in {"result", "error"}
                   /\ pc'[q] \in {"releasing", "answered", "unpaid", "failed"} =>
                        Settled(q)'
<1> USE <1>0, TimesAssumption DEF TypeOK, Settled
<1>1. ASSUME NEW r \in Requests, CheckAccess(r) PROVE Goal
  BY <1>1, <1>b DEF CheckAccess, Goto
<1>2. ASSUME NEW r \in Requests, Acquire(r) PROVE Goal
  <2>1. pc'[q] = pc[q] \/ pc'[q] \in {"busy", "preparing"}
    BY <1>2 DEF Acquire, Goto
  <2> QED BY <1>2, <1>b, <2>1 DEF Acquire
<1>3. ASSUME NEW r \in Requests, Begin(r) PROVE Goal
  <2>1. CASE q = r
    <3>1. pc[q] = "preparing" /\ hold[q] = "none"
      BY <1>3, <2>1 DEF Begin, NotReserved
    <3>2. \/ pc'[q] = "running"
          \/ pc'[q] = "releasing" /\ hold' = hold /\ outcome'[q] \in {"unpaid", "failed"}
      BY <1>3, <1>c, <2>1 DEF Begin, Goto
    <3> QED BY <3>1, <3>2
  <2>2. CASE q # r
    BY <1>3, <1>b, <2>2 DEF Begin, Goto
  <2> QED BY <2>1, <2>2
<1>4. ASSUME NEW r \in Requests, RunEnds(r) PROVE Goal
  BY <1>4, <1>b DEF RunEnds, Goto
<1>5. ASSUME NEW r \in Requests, Close(r) PROVE Goal
  <2>1. CASE q = r
    <3>1. /\ outcome'[q] = outcome[q] /\ pc'[q] = "releasing"
          /\ heldAt' = heldAt /\ now' = now
          /\ outcome[q] \in {"result", "error"}
      BY <1>5, <1>b, <2>1 DEF Close, Goto
    <3>2. \/ hold[q] = "open"
          \/ hold[q] = "returned" /\ heldAt[q] + StaleAfter < now
      BY <1>5, <2>1, LiveHold DEF Close, LiveHold
    <3>3. hold'[q] = IF hold[q] # "open" THEN hold[q]
                     ELSE IF outcome[q] = "result" THEN "charged" ELSE "returned"
      BY <1>5, <1>c, <2>1 DEF Close
    <3> QED BY <3>1, <3>2, <3>3
  <2>2. CASE q # r
    BY <1>5, <1>b, <2>2 DEF Close, Goto
  <2> QED BY <2>1, <2>2
<1>6. ASSUME NEW r \in Requests, Release(r) PROVE Goal
  <2>1. /\ q # r => pc'[q] = pc[q]
        /\ q = r => pc[q] = "releasing" /\ pc'[q] \in {"answered", "unpaid", "failed"}
    BY <1>6 DEF Release, Goto
  <2> QED BY <1>6, <1>b, <2>1 DEF Release
<1>7. CASE Sweep
  <2>1. hold'[q] = hold[q] \/ (hold[q] = "open" /\ hold'[q] = "returned")
    BY <1>7 DEF Sweep, IsStale
  <2> QED BY <1>7, <1>b, <2>1 DEF Sweep
<1>8. CASE Restart
  BY <1>8, <1>c DEF Restart
<1>9. CASE Tick
  BY <1>9, <1>b DEF Tick
<1>10. CASE UNCHANGED vars
  BY <1>10, <1>b DEF vars
<1> QED BY [Next]_vars, <1>1, <1>2, <1>3, <1>4, <1>5, <1>6, <1>7, <1>8, <1>9, <1>10 DEF Next, Step

(* Of the requests inside for a project, at most one is within its TTL.    *)
THEOREM RunsAreApart == Spec => []OneRunPerProject
<1>1. Init => AnyRunInv /\ InsideHasLease
  BY InitEstablishes
<1>2. AnyRunInv /\ InsideHasLease /\ [Next]_vars => (AnyRunInv /\ InsideHasLease)'
  BY AnyRunKept, InsideLeaseKept
<1>3. AnyRunInv /\ InsideHasLease => OneRunPerProject
  <2> SUFFICES ASSUME AnyRunInv, InsideHasLease,
                      NEW r \in Requests, NEW q \in Requests,
                      r # q, ProjectOf[r] = ProjectOf[q], pc[r] \in Inside, pc[q] \in Inside
               PROVE  startedAt[r] + LeaseTtl <= now \/ startedAt[q] + LeaseTtl <= now
    BY DEF OneRunPerProject
  <2>1. ~(now < startedAt[r] + LeaseTtl /\ now < startedAt[q] + LeaseTtl)
    BY DEF InsideHasLease
  <2> QED BY <2>1, TimesAssumption DEF AnyRunInv, TypeOK
<1> QED BY <1>1, <1>2, <1>3, PTL DEF Spec

(* The sweep leaves the hold of a live run alone until it is stale.        *)
THEOREM SweepSparesLiveRuns == Spec => []LiveHoldIsKept
<1>1. Init => AnyRunInv /\ LiveHold
  BY InitEstablishes
<1>2. AnyRunInv /\ LiveHold /\ [Next]_vars => (AnyRunInv /\ LiveHold)'
  BY AnyRunKept, LiveHoldKept
<1>3. AnyRunInv /\ LiveHold => LiveHoldIsKept
  BY DEF LiveHold, LiveHoldIsKept
<1> QED BY <1>1, <1>2, <1>3, PTL DEF Spec

(* As long as the bookkeeping does not fail, only a result is charged, and *)
(* every result that came before its hold was stale.                       *)
THEOREM ResultsArePaidFor == Spec => []ResultsAreCharged
<1> DEFINE Inv == AnyRunInv /\ LiveHold /\ OutcomeIsCharged
<1>1. Init => Inv
  BY InitEstablishes
<1>2. Inv /\ [Next]_vars => Inv'
  BY AnyRunKept, LiveHoldKept, OutcomeKept
<1>3. Inv => ResultsAreCharged
  BY DEF AnyRunInv, NotReserved, OutcomeIsCharged, Settled, ResultsAreCharged
<1> QED BY <1>1, <1>2, <1>3, PTL DEF Spec

(* The lock of a project is its request's, from the taking to the end:     *)
(* the three results on leases together.                                   *)
THEOREM LocksAreTheRequests == Spec => LocksFollowTheirRequests
BY RunsAreApart, NoLockOutlivesItsRequest, LeasesStayWithTheirHolders, PTL
DEF LocksFollowTheirRequests

(* A hold is closed once, and not under a request that is at work.         *)
THEOREM HoldsAreTheRequests == Spec => HoldsFollowTheirRequests
BY TypeCorrectness, SweepSparesLiveRuns, ClosedHoldsStayClosed, PTL
DEF HoldsFollowTheirRequests

-----------------------------------------------------------------------------
(***************************************************************************)
(* The film a request drafts and saves (FilmDraft).  Its invariant says    *)
(* what of the run's local variables is current: what is being saved went  *)
(* through the gate, what was found valid is unchanged, and while nobody   *)
(* raised the revision the film that was loaded is the project's.          *)
(***************************************************************************)

(* The run has its workspace. *)
Loaded == agent.pc \in {"asking", "saving"}

(* The state is typed, the fields of the run with it. *)
AgentTyped ==
    agent \in [pc : {"none", "resolved", "asking", "saving"}, required : SUBSET MediaTokens,
               optional : SUBSET Pictures, existing : Films \cup {Absent}, expected : Nat,
               html : Htmls \cup {Absent}, js : Timelines \cup {Absent}, failures : 0..MaxRetries,
               draft : Films \cup {Absent}, whole : BOOLEAN, conflict : BOOLEAN,
               saved : Films \cup {Absent}, told : Films \cup {Absent}, reported : BOOLEAN]

StateTyped ==
    /\ project \in [film : Films, revision : Nat \ {0}]
    /\ imageRole \in [Pictures -> ImageRoles] /\ soundtrack \subseteq Tracks /\ brand \subseteq Pictures
    /\ answer \in {"none"} \cup DOMAIN HttpStatus
    /\ runs \in Nat /\ edits \in Nat /\ runs <= MaxRuns /\ edits <= MaxEdits

(* A run saves once: its revision is one of the requests' or the edits'.   *)
RevisionsCounted ==
    /\ project.revision <= 1 + runs + edits
    /\ agent.pc # "none" => runs > 0
    /\ agent.pc # "none" /\ agent.saved = Absent => project.revision <= runs + edits
    /\ agent.pc = "saving" => agent.saved = Absent

(* What the run loaded is what it replaces, if nothing came in between.    *)
LoadedIsCurrent ==
    /\ agent.expected <= project.revision
    /\ Loaded /\ agent.expected = project.revision => agent.existing = project.film

(* What is being saved went through the gate; what was found valid is as   *)
(* it was then.                                                            *)
DraftIsChecked ==
    /\ agent.pc = "saving" => /\ agent.draft \in Films
                              /\ Valid(agent.draft, agent.required, agent.optional)
                              /\ agent.whole \/ agent.draft # agent.existing
    /\ agent.reported => /\ Loaded /\ agent.html # Absent /\ agent.js # Absent
                         /\ Valid([html |-> agent.html, js |-> agent.js], agent.required, agent.optional)

FilmInv ==
    AgentTyped /\ StateTyped /\ RevisionsCounted /\ LoadedIsCurrent /\ DraftIsChecked /\ ToldIsTrue

-----------------------------------------------------------------------------
(* Every failure of a provider has an answer.                              *)
LEMMA FailuresHaveAnswers ==
    \A error : NormalizeProviderError(error) \in
        {"PROVIDER_AUTH_FAILED", "PROVIDER_MODEL_UNAVAILABLE", "PROVIDER_RATE_LIMITED",
         "PROVIDER_UNAVAILABLE", "PROVIDER_ERROR"}
BY DEF NormalizeProviderError

(* Layers without a status of their own do not hide the one below them.    *)
LEMMA StatusComesThrough ==
    ASSUME NEW error \in Seq(Layer), error # <<>>, Len(error) <= 4,
           error[Len(error)].status # NoStatus,
           \A i \in 1..(Len(error) - 1) : error[i].status = NoStatus
    PROVE  ReadStatus(error) = error[Len(error)].status
<1> DEFINE n == Len(error)
           layers == Read(error)
           known == {i \in DOMAIN layers : layers[i].status # NoStatus}
<1>1. n \in Nat \ {0} /\ n <= 4
  OBVIOUS
<1>2. layers = SubSeq(error, 1, n)
  <2>1. \A k \in Nat : k <= 4 => (IF k < 4 THEN k ELSE 4) = k
    OBVIOUS
  <2> QED
    BY <1>1, <2>1 DEF Read
<1>3. DOMAIN layers = 1..n /\ \A i \in 1..n : layers[i] = error[i]
  BY <1>1, <1>2
<1>4. known = {n}
  BY <1>1, <1>3
<1>5. Min({n}) = n
  BY <1>1 DEF Min
<1>6. ReadStatus(error) = layers[Min(known)].status
  BY <1>4 DEF ReadStatus
<1> QED
  BY <1>1, <1>3, <1>4, <1>5, <1>6

(* What a request answers depends on the error in the layers alone.        *)
LEMMA NothingIsMasked == LayersHideNoStatus
<1> SUFFICES ASSUME NEW error \in Faults, Len(error) <= 4,
                    NEW origin, origin = error[Len(error)],
                    origin.status # NoStatus,
                    \A i \in 1..(Len(error) - 1) : error[i].status = NoStatus,
                    error[1].overloaded = origin.overloaded
             PROVE  NormalizeProviderError(error) = NormalizeProviderError(<<origin>>)
  BY DEF LayersHideNoStatus, Masked
<1>1. error \in Seq(Layer) /\ error # <<>> /\ origin \in Layer
  BY FilmAssumption
<1>2. ReadStatus(error) = origin.status
  BY <1>1, StatusComesThrough
<1>3. ReadStatus(<<origin>>) = origin.status
  <2>1. <<origin>> \in Seq(Layer) /\ <<origin>> # <<>> /\ Len(<<origin>>) = 1 /\ <<origin>>[1] = origin
    BY <1>1
  <2>2. PICK e : e = <<origin>>
    OBVIOUS
  <2>3. e[Len(e)].status # NoStatus /\ e[Len(e)] = origin /\ Len(e) <= 4
    BY <2>1, <2>2
  <2>4. \A i \in 1..(Len(e) - 1) : e[i].status = NoStatus
    BY <2>1, <2>2
  <2> QED
    BY <2>1, <2>2, <2>3, <2>4, StatusComesThrough
<1>4. <<origin>>[1].overloaded = error[1].overloaded
  OBVIOUS
<1> QED
  BY <1>2, <1>3, <1>4 DEF NormalizeProviderError

-----------------------------------------------------------------------------
(* A new project has its starter film, and nothing was done to it.         *)
LEMMA FilmBegins == FilmInit => FilmInv
<1> SUFFICES ASSUME FilmInit PROVE FilmInv
  OBVIOUS
<1> USE FilmAssumption DEF FilmInit
<1>1. AgentTyped
  BY DEF AgentTyped, NoAgent
<1>2. StateTyped
  BY DEF StateTyped, ImageRoles
<1>3. RevisionsCounted /\ LoadedIsCurrent /\ DraftIsChecked /\ ToldIsTrue
  BY DEF RevisionsCounted, LoadedIsCurrent, DraftIsChecked, ToldIsTrue, NoAgent, Loaded
<1> QED
  BY <1>1, <1>2, <1>3 DEF FilmInv

(* Every end of a run has its HTTP status.                                 *)
LEMMA EndIsTyped == \A o \in {"chat", "GENERATION_INVALID", "PROVIDER_OUTPUT_INVALID"} \cup ProviderFailures :
    Outcome(o) \in DOMAIN HttpStatus
BY FailuresHaveAnswers DEF Outcome, ProviderFailures, HttpStatus

(* The end of a run, and a failure, leave the rest as it is.               *)
LEMMA EndingKeeps ==
    ASSUME FilmInv, NEW o \in {"chat", "GENERATION_INVALID", "PROVIDER_OUTPUT_INVALID"} \cup ProviderFailures,
           EndRequest(Outcome(o)), UNCHANGED <<project, runs, People>>
    PROVE  FilmInv'
<1>1. agent' = NoAgent /\ answer' \in DOMAIN HttpStatus
  BY EndIsTyped DEF EndRequest
<1>2. AgentTyped'
  BY <1>1, FilmAssumption DEF AgentTyped, NoAgent
<1>3. StateTyped'
  BY <1>1 DEF FilmInv, StateTyped, People
<1>4. RevisionsCounted' /\ LoadedIsCurrent' /\ DraftIsChecked' /\ ToldIsTrue'
  BY <1>1, FilmAssumption DEF FilmInv, StateTyped, RevisionsCounted, LoadedIsCurrent, DraftIsChecked, ToldIsTrue,
     NoAgent, Loaded, People
<1> QED
  BY <1>2, <1>3, <1>4 DEF FilmInv


(* A failure is counted, and one too many ends the run.                    *)
LEMMA NotingAFailureKeeps ==
    ASSUME FilmInv, agent.pc = "asking", NoteFailure, UNCHANGED <<project, runs, People>>
    PROVE  FilmInv'
<1>1. CASE agent.failures = MaxRetries
  BY <1>1, EndingKeeps DEF NoteFailure
<1>2. CASE agent.failures # MaxRetries
  <2>1. PICK k : k = agent.failures + 1
    OBVIOUS
  <2>2. agent' = [agent EXCEPT !.failures = k] /\ answer' = answer
    BY <1>2, <2>1 DEF NoteFailure
  <2>3. k \in 0..MaxRetries
    BY <1>2, <2>1, FilmAssumption DEF FilmInv, AgentTyped
  <2>4. AgentTyped'
    BY <2>2, <2>3 DEF FilmInv, AgentTyped
  <2>5. StateTyped'
    BY <2>2 DEF FilmInv, StateTyped, People
  <2>6. /\ agent'.pc = agent.pc /\ agent'.saved = agent.saved /\ agent'.expected = agent.expected
        /\ agent'.existing = agent.existing /\ agent'.draft = agent.draft /\ agent'.required = agent.required
        /\ agent'.optional = agent.optional /\ agent'.whole = agent.whole /\ agent'.reported = agent.reported
        /\ agent'.html = agent.html /\ agent'.js = agent.js /\ agent'.told = agent.told
    BY <2>2 DEF FilmInv, AgentTyped
  <2>7. RevisionsCounted' /\ LoadedIsCurrent' /\ DraftIsChecked' /\ ToldIsTrue'
    BY <2>6 DEF FilmInv, RevisionsCounted, LoadedIsCurrent, DraftIsChecked, ToldIsTrue, Loaded, People
  <2> QED
    BY <2>4, <2>5, <2>7 DEF FilmInv
<1> QED
  BY <1>1, <1>2

(* What a call completes from the workspace is a film, or is not complete. *)
LEMMA CompletedIsFilm ==
    ASSUME FilmInv, NEW content \in Contents, NEW film, film = Completed(content), Complete(film)
    PROVE  /\ film \in Films
           /\ content = LeftOut => film = [html |-> agent.html, js |-> agent.js]
<1>1. content.html \in Htmls \cup {Absent} /\ content.js \in Timelines \cup {Absent}
  BY FilmAssumption
<1>2. agent.html \in Htmls \cup {Absent} /\ agent.js \in Timelines \cup {Absent}
  BY DEF FilmInv, AgentTyped
<1>3. film.html \in Htmls /\ film.js \in Timelines /\ film = [html |-> film.html, js |-> film.js]
  BY <1>1, <1>2 DEF Completed, Complete
<1>4. ASSUME content = LeftOut PROVE film = [html |-> agent.html, js |-> agent.js]
  BY <1>4 DEF Completed, LeftOut
<1> QED
  BY <1>3, <1>4 DEF Films

(* A request begins with its media.                                        *)
LEMMA ResolveKeeps ==
    ASSUME FilmInv, NEW images \in [Pictures -> ImageRoles] \cup {Absent}, NEW tracks \in (SUBSET Tracks) \cup {Absent},
           ResolveMedia(images, tracks)
    PROVE  FilmInv'
<1> USE FilmAssumption
<1> DEFINE used == IF images = Absent THEN imageRole ELSE images
           want == {a \in Pictures : used[a] = "ASSET"} \cup (IF tracks = Absent THEN soundtrack ELSE tracks)
<1>1. /\ agent.pc = "none" /\ runs < MaxRuns /\ runs' = runs + 1 /\ answer' = "none"
      /\ project' = project /\ brand' = brand /\ edits' = edits
      /\ imageRole' = (IF images = Absent THEN imageRole ELSE With(images))
      /\ soundtrack' = (IF tracks = Absent THEN soundtrack ELSE soundtrack \cup tracks)
      /\ agent' = [NoAgent EXCEPT !.pc = "resolved", !.optional = brand, !.required = want]
  BY DEF ResolveMedia
<1>2. want \in SUBSET MediaTokens /\ soundtrack' \subseteq Tracks
  BY <1>1 DEF FilmInv, StateTyped, MediaTokens
<1>3. imageRole' \in [Pictures -> ImageRoles]
  <2>1. CASE images = Absent
    BY <1>1, <2>1 DEF FilmInv, StateTyped
  <2>2. CASE images # Absent
    <3>1. images \in [Pictures -> ImageRoles] /\ imageRole \in [Pictures -> ImageRoles] /\ imageRole' = With(images)
      BY <1>1, <2>2 DEF FilmInv, StateTyped
    <3>2. \A a \in Pictures : (IF images[a] = "none" THEN imageRole[a] ELSE images[a]) \in ImageRoles
      BY <3>1
    <3> QED
      BY <3>1, <3>2 DEF With
  <2> QED
    BY <2>1, <2>2
<1>4. PICK w \in SUBSET MediaTokens : w = want
  BY <1>2
<1>5. agent' = [NoAgent EXCEPT !.pc = "resolved", !.optional = brand, !.required = w]
  BY <1>1, <1>4
<1>6. AgentTyped' /\ agent'.pc = "resolved" /\ agent'.expected = 0 /\ agent'.saved = Absent
      /\ agent'.reported = FALSE /\ agent'.told = Absent
  <2>1. agent' = [pc |-> "resolved", required |-> w, optional |-> brand, existing |-> Absent,
                  expected |-> 0, html |-> Absent, js |-> Absent, failures |-> 0,
                  draft |-> Absent, whole |-> FALSE, conflict |-> FALSE,
                  saved |-> Absent, told |-> Absent, reported |-> FALSE]
    BY <1>5 DEF NoAgent
  <2>2. 0 \in 0..MaxRetries /\ brand \in SUBSET Pictures
    BY DEF FilmInv, StateTyped
  <2> QED
    BY <2>1, <2>2 DEF AgentTyped
<1>7. StateTyped'
  BY <1>1, <1>2, <1>3 DEF FilmInv, StateTyped
<1>8. RevisionsCounted' /\ LoadedIsCurrent' /\ DraftIsChecked' /\ ToldIsTrue'
  BY <1>1, <1>6 DEF FilmInv, StateTyped, RevisionsCounted, LoadedIsCurrent, DraftIsChecked, ToldIsTrue, Loaded
<1> QED
  BY <1>6, <1>7, <1>8 DEF FilmInv

(* The run takes the project as it is.                                     *)
LEMMA LoadKeeps ==
    ASSUME FilmInv, NEW revision \in 1..project.revision, Load(revision)
    PROVE  FilmInv'
<1> USE FilmAssumption
<1>1. PICK more : more = agent.optional \cup (project.film.html.named \cap Pictures)
  OBVIOUS
<1>2. more \in SUBSET Pictures /\ project.film \in Films
      /\ project.film.html \in Htmls /\ project.film.js \in Timelines /\ revision \in Nat
      /\ revision <= project.revision
  BY <1>1 DEF FilmInv, AgentTyped, StateTyped, Films
<1>3. PICK film \in Films : film = project.film
  BY <1>2
<1>4. PICK h \in Htmls, j \in Timelines : h = film.html /\ j = film.js
  BY <1>2, <1>3
<1>5. agent.pc = "resolved" /\ project' = project /\ answer' = answer /\ runs' = runs /\ People' = People
      /\ agent' = [agent EXCEPT !.pc = "asking", !.existing = film, !.expected = revision,
                     !.html = h, !.js = j, !.optional = more]
  BY <1>1, <1>3, <1>4 DEF Load
<1>6. AgentTyped'
  BY <1>2, <1>5 DEF FilmInv, AgentTyped
<1>7. StateTyped'
  BY <1>5 DEF FilmInv, StateTyped, People
<1>8. /\ agent'.pc = "asking" /\ agent'.saved = agent.saved /\ agent'.expected = revision
      /\ agent'.existing = film /\ agent'.reported = agent.reported /\ agent'.told = agent.told
  BY <1>5 DEF FilmInv, AgentTyped
<1>9. ~agent.reported
  BY <1>5 DEF FilmInv, DraftIsChecked, Loaded
<1> QED
  BY <1>2, <1>3, <1>5, <1>6, <1>7, <1>8, <1>9 DEF FilmInv, RevisionsCounted, LoadedIsCurrent, DraftIsChecked, ToldIsTrue, Loaded, People


(* The files of the workspace change, and no verdict on them stays.        *)
LEMMA WritingKeeps ==
    ASSUME FilmInv, agent.pc = "asking", NEW h \in Htmls \cup {Absent}, NEW j \in Timelines \cup {Absent},
           agent' = [agent EXCEPT !.html = h, !.js = j, !.reported = FALSE],
           UNCHANGED <<project, answer, runs, People>>
    PROVE  FilmInv'
<1>1. AgentTyped'
  BY DEF FilmInv, AgentTyped
<1>2. StateTyped'
  BY DEF FilmInv, StateTyped, People
<1>3. /\ agent'.pc = "asking" /\ agent'.saved = agent.saved /\ agent'.expected = agent.expected
      /\ agent'.existing = agent.existing /\ agent'.reported = FALSE /\ agent'.told = agent.told
  BY DEF FilmInv, AgentTyped
<1> QED
  BY <1>1, <1>2, <1>3 DEF FilmInv, RevisionsCounted, LoadedIsCurrent, DraftIsChecked, ToldIsTrue, Loaded, People

(* validate_generation: what it finds valid is noted.                      *)
LEMMA ValidatingKeeps ==
    ASSUME FilmInv, NEW content \in Contents, ValidateDraft(content)
    PROVE  FilmInv'
<1>1. PICK film : film = Completed(content)
  OBVIOUS
<1>2. /\ agent.pc = "asking" /\ UNCHANGED <<project, runs, People>>
      /\ IF Complete(film) /\ ReportsValid(film)
         THEN agent' = [agent EXCEPT !.reported = @ \/ content = LeftOut] /\ UNCHANGED answer
         ELSE NoteFailure
  BY <1>1 DEF ValidateDraft
<1>3. CASE ~ (Complete(film) /\ ReportsValid(film))
  BY <1>2, <1>3, NotingAFailureKeeps
<1>4. CASE Complete(film) /\ ReportsValid(film)
  <2>1. PICK b \in BOOLEAN : b = (agent.reported \/ content = LeftOut)
    OBVIOUS
  <2>2. agent' = [agent EXCEPT !.reported = b] /\ answer' = answer
    BY <1>2, <1>4, <2>1
  <2>3. AgentTyped' /\ StateTyped'
    BY <1>2, <2>2 DEF FilmInv, AgentTyped, StateTyped, People
  <2>4. /\ agent'.pc = agent.pc /\ agent'.saved = agent.saved /\ agent'.expected = agent.expected
        /\ agent'.existing = agent.existing /\ agent'.draft = agent.draft /\ agent'.required = agent.required
        /\ agent'.optional = agent.optional /\ agent'.whole = agent.whole /\ agent'.reported = b
        /\ agent'.html = agent.html /\ agent'.js = agent.js /\ agent'.told = agent.told
    BY <2>2 DEF FilmInv, AgentTyped
  <2>5. ASSUME content = LeftOut
        PROVE  /\ agent.html # Absent /\ agent.js # Absent
               /\ Valid([html |-> agent.html, js |-> agent.js], agent.required, agent.optional)
    <3>1. film = [html |-> agent.html, js |-> agent.js]
      BY <1>1, <1>4, <2>5, CompletedIsFilm
    <3> QED
      BY <1>4, <3>1 DEF Complete, ReportsValid
  <2>6. DraftIsChecked'
    BY <1>2, <2>1, <2>4, <2>5 DEF FilmInv, DraftIsChecked, Loaded
  <2> QED
    BY <1>2, <2>3, <2>4, <2>6 DEF FilmInv, RevisionsCounted, LoadedIsCurrent, ToldIsTrue, Loaded, People
<1> QED
  BY <1>3, <1>4

(* finalize_generation: what goes on to the save is checked.               *)
LEMMA FinalizingKeeps ==
    ASSUME FilmInv, NEW content \in Contents, FinalizeDraft(content)
    PROVE  FilmInv'
<1>1. PICK film : film = Completed(content)
  OBVIOUS
<1>2. agent.pc = "asking" /\ UNCHANGED <<project, runs, People>>
  BY DEF FinalizeDraft
<1>3. \/ NoteFailure
      \/ Complete(film) /\ agent.saved # Absent /\ RepeatFinalize(film)
      \/ /\ Complete(film) /\ agent.saved = Absent /\ ~Untouched(film, content) /\ Gate(film)
         /\ agent' = [agent EXCEPT !.pc = "saving", !.draft = film, !.whole = content # LeftOut]
         /\ UNCHANGED answer
  BY <1>1 DEF FinalizeDraft
<1>4. CASE NoteFailure
  BY <1>2, <1>4, NotingAFailureKeeps
<1>5. CASE agent.saved # Absent /\ RepeatFinalize(film)
  <2>1. answer' = answer /\ (agent' = agent \/ (agent' = [agent EXCEPT !.told = film] /\ film = agent.saved))
    BY <1>5 DEF RepeatFinalize, Told
  <2>2. agent' = agent
    BY <2>1 DEF FilmInv, ToldIsTrue, AgentTyped
  <2> QED
    BY <1>2, <2>1, <2>2 DEF FilmInv, AgentTyped, StateTyped, RevisionsCounted, LoadedIsCurrent, DraftIsChecked,
       ToldIsTrue, Loaded, People
<1>6. CASE /\ Complete(film) /\ agent.saved = Absent /\ ~Untouched(film, content) /\ Gate(film)
           /\ agent' = [agent EXCEPT !.pc = "saving", !.draft = film, !.whole = content # LeftOut]
           /\ UNCHANGED answer
  <2>1. film \in Films
    BY <1>1, <1>6, CompletedIsFilm
  <2>2. PICK b \in BOOLEAN : b = (content # LeftOut)
    OBVIOUS
  <2>3. agent' = [agent EXCEPT !.pc = "saving", !.draft = film, !.whole = b]
    BY <1>6, <2>2
  <2>4. AgentTyped' /\ StateTyped'
    BY ZenonT(60), <1>2, <1>6, <2>1, <2>3 DEF FilmInv, AgentTyped, StateTyped, People
  <2>5. /\ agent'.pc = "saving" /\ agent'.saved = agent.saved /\ agent'.expected = agent.expected
        /\ agent'.existing = agent.existing /\ agent'.draft = film /\ agent'.required = agent.required
        /\ agent'.optional = agent.optional /\ agent'.whole = b /\ agent'.reported = agent.reported
        /\ agent'.html = agent.html /\ agent'.js = agent.js /\ agent'.told = agent.told
    BY <2>3 DEF FilmInv, AgentTyped
  <2>6. DraftIsChecked'
    BY <1>6, <2>1, <2>2, <2>5 DEF FilmInv, DraftIsChecked, Loaded, Gate, Untouched
  <2> QED
    BY <1>2, <1>6, <2>4, <2>5, <2>6 DEF FilmInv, RevisionsCounted, LoadedIsCurrent, ToldIsTrue, Loaded, People
<1> QED
  BY <1>3, <1>4, <1>5, <1>6

(* The save takes the draft, or finds that the project moved on.           *)
LEMMA SavingKeeps == FilmInv /\ OverwriteFilm => FilmInv'
<1> SUFFICES ASSUME FilmInv, OverwriteFilm PROVE FilmInv'
  OBVIOUS
<1> USE FilmAssumption
<1>1. /\ agent.pc = "saving" /\ UNCHANGED <<answer, runs, People>>
      /\ agent.saved = Absent /\ agent.draft \in Films /\ agent.told = Absent
      /\ project.revision <= runs + edits /\ project.revision \in Nat /\ runs \in Nat /\ edits \in Nat
  BY DEF OverwriteFilm, FilmInv, RevisionsCounted, DraftIsChecked, ToldIsTrue, StateTyped
<1>2. CASE project.revision = agent.expected
  <2>1. PICK d \in Films : d = agent.draft
    BY <1>1
  <2>2. /\ project' = [film |-> d, revision |-> project.revision + 1]
        /\ agent' = [agent EXCEPT !.pc = "asking", !.draft = Absent, !.whole = FALSE, !.saved = d, !.told = d]
    BY <1>2, <2>1 DEF OverwriteFilm
  <2>3. AgentTyped' /\ StateTyped'
    <3>1. AgentTyped'
      BY <2>2 DEF FilmInv, AgentTyped
    <3>2. project' \in [film : Films, revision : Nat \ {0}]
      BY <1>1, <2>2
    <3> QED
      BY <1>1, <3>1, <3>2 DEF FilmInv, StateTyped, People
  <2>4. /\ agent'.pc = "asking" /\ agent'.saved = d /\ agent'.expected = agent.expected
        /\ agent'.required = agent.required /\ agent'.optional = agent.optional /\ agent'.reported = agent.reported
        /\ agent'.html = agent.html /\ agent'.js = agent.js /\ agent'.told = d
        /\ project'.revision = project.revision + 1 /\ d # Absent
    BY <2>2 DEF FilmInv, AgentTyped
  <2>5. RevisionsCounted' /\ LoadedIsCurrent'
    BY <1>1, <1>2, <2>4 DEF FilmInv, RevisionsCounted, LoadedIsCurrent, People
  <2> QED
    BY <2>3, <2>4, <2>5 DEF FilmInv, DraftIsChecked, ToldIsTrue, Loaded
<1>3. CASE project.revision # agent.expected
  <2>1. project' = project /\ agent' = [agent EXCEPT !.pc = "asking", !.draft = Absent, !.whole = FALSE, !.conflict = TRUE]
    BY <1>3 DEF OverwriteFilm
  <2>2. AgentTyped' /\ StateTyped'
    BY <1>1, <2>1 DEF FilmInv, AgentTyped, StateTyped, People
  <2>3. /\ agent'.pc = "asking" /\ agent'.saved = agent.saved /\ agent'.expected = agent.expected
        /\ agent'.required = agent.required /\ agent'.optional = agent.optional /\ agent'.reported = agent.reported
        /\ agent'.html = agent.html /\ agent'.js = agent.js /\ agent'.told = agent.told
        /\ agent'.existing = agent.existing
    BY <2>1 DEF FilmInv, AgentTyped
  <2> QED
    BY <1>1, <2>1, <2>2, <2>3 DEF FilmInv, RevisionsCounted, LoadedIsCurrent, DraftIsChecked, ToldIsTrue, Loaded, People
<1> QED
  BY <1>2, <1>3

(* People change the project around the run.                               *)
LEMMA PeopleKeep ==
    ASSUME FilmInv, EditOnce, UNCHANGED <<agent, answer, runs>>,
           imageRole' \in [Pictures -> ImageRoles], soundtrack' \subseteq Tracks, brand' \subseteq Pictures,
           \/ project' = project
           \/ \E film \in Films : project' = [film |-> film, revision |-> project.revision + 1]
    PROVE  FilmInv'
<1> USE FilmAssumption
<1>1. edits' = edits + 1 /\ edits' <= MaxEdits /\ edits \in Nat /\ runs \in Nat /\ project.revision \in Nat \ {0}
  BY DEF EditOnce, FilmInv, StateTyped
<1>2. project' \in [film : Films, revision : Nat \ {0}]
      /\ project'.revision <= project.revision + 1 /\ project.revision <= project'.revision
      /\ (project'.revision = project.revision => project' = project)
  BY <1>1 DEF FilmInv, StateTyped
<1>3. AgentTyped' /\ StateTyped'
  BY <1>1, <1>2 DEF FilmInv, AgentTyped, StateTyped
<1>4. RevisionsCounted'
  BY <1>1, <1>2, <1>3 DEF FilmInv, RevisionsCounted, StateTyped
<1>5. LoadedIsCurrent'
  BY <1>1, <1>2, <1>3 DEF FilmInv, LoadedIsCurrent, AgentTyped, StateTyped, Loaded
<1> QED
  BY <1>3, <1>4, <1>5 DEF FilmInv, DraftIsChecked, ToldIsTrue, Loaded

(* Every step keeps the invariant.                                         *)
LEMMA FilmGoesOn == FilmInv /\ [FilmNext]_filmVars => FilmInv'
<1> SUFFICES ASSUME FilmInv, [FilmNext]_filmVars PROVE FilmInv'
  OBVIOUS
<1>1. CASE UNCHANGED filmVars
  BY <1>1 DEF FilmInv, AgentTyped, StateTyped, RevisionsCounted, LoadedIsCurrent, DraftIsChecked,
       ToldIsTrue, Loaded, filmVars
<1>2. ASSUME NEW images \in [Pictures -> ImageRoles] \cup {Absent}, NEW tracks \in (SUBSET Tracks) \cup {Absent},
             ResolveMedia(images, tracks)
      PROVE  FilmInv'
  BY <1>2, ResolveKeeps
<1>3. ASSUME AgentStep PROVE FilmInv'
  <2>1. ASSUME NEW revision \in 1..project.revision, Load(revision) PROVE FilmInv'
    BY <2>1, LoadKeeps
  <2>2. ASSUME NEW content \in Contents, ValidateDraft(content) \/ FinalizeDraft(content) PROVE FilmInv'
    BY <2>2, ValidatingKeeps, FinalizingKeeps
  <2>3. ASSUME NEW html \in Htmls \cup {Absent}, WriteHtml(html) PROVE FilmInv'
    <3>1. agent.js \in Timelines \cup {Absent} /\ agent.pc = "asking" /\ UNCHANGED <<project, answer, runs, People>>
      BY <2>3 DEF FilmInv, AgentTyped, WriteHtml
    <3>2. agent' = [agent EXCEPT !.html = html, !.js = agent.js, !.reported = FALSE]
      BY <2>3 DEF FilmInv, AgentTyped, WriteHtml
    <3> QED
      BY <3>1, <3>2, WritingKeeps
  <2>4. ASSUME NEW js \in Timelines \cup {Absent}, WriteTimeline(js) PROVE FilmInv'
    <3>1. agent.html \in Htmls \cup {Absent} /\ agent.pc = "asking" /\ UNCHANGED <<project, answer, runs, People>>
      BY <2>4 DEF FilmInv, AgentTyped, WriteTimeline
    <3>2. agent' = [agent EXCEPT !.html = agent.html, !.js = js, !.reported = FALSE]
      BY <2>4 DEF FilmInv, AgentTyped, WriteTimeline
    <3> QED
      BY <3>1, <3>2, WritingKeeps
  <2>5. ASSUME OverwriteFilm PROVE FilmInv'
    BY <2>5, SavingKeeps
  <2>6. ASSUME EndRun PROVE FilmInv'
    BY <2>6, EndingKeeps DEF EndRun
  <2> QED
    BY <1>3, <2>1, <2>2, <2>3, <2>4, <2>5, <2>6 DEF AgentStep
<1>4. ASSUME NEW film \in Films, PatchFilm(film) PROVE FilmInv'
  BY <1>4, PeopleKeep DEF PatchFilm, FilmInv, StateTyped
<1>5. ASSUME NEW a \in Pictures, DetachAsset(a) PROVE FilmInv'
  <2>1. imageRole' \in [Pictures -> ImageRoles]
    BY <1>5 DEF DetachAsset, FilmInv, StateTyped, ImageRoles
  <2> QED
    BY <1>5, <2>1, PeopleKeep DEF DetachAsset, FilmInv, StateTyped
<1>6. ASSUME NEW t \in Tracks, DetachTrack(t) PROVE FilmInv'
  BY <1>6, PeopleKeep DEF DetachTrack, FilmInv, StateTyped
<1>7. ASSUME NEW images \in SUBSET Pictures, ChangeBrand(images) PROVE FilmInv'
  BY <1>7, PeopleKeep DEF ChangeBrand, FilmInv, StateTyped
<1> QED
  BY <1>1, <1>2, <1>3, <1>4, <1>5, <1>6, <1>7 DEF FilmNext


-----------------------------------------------------------------------------
(* What a step of the run may do.                                          *)

(* The save of a run, and it is of the film the run was given.             *)
LEMMA SavesAreOfTheDraft ==
    ASSUME FilmInv, FilmNext, AgentSaves
    PROVE  /\ project'.film = agent.draft /\ agent.existing = project.film
           /\ Valid(agent.draft, agent.required, agent.optional)
           /\ agent.whole \/ agent.draft # agent.existing
<1>1. agent.pc = "saving" /\ agent'.pc = "asking" /\ project' # project
  BY DEF AgentSaves
<1>2. OverwriteFilm
  BY <1>1 DEF FilmNext, AgentStep, ResolveMedia, Load, ValidateDraft, FinalizeDraft, WriteHtml, WriteTimeline,
     EndRun, PatchFilm, DetachAsset, DetachTrack, ChangeBrand
<1>3. project.revision = agent.expected
      /\ project' = [film |-> agent.draft, revision |-> project.revision + 1]
  BY <1>1, <1>2 DEF OverwriteFilm
<1> QED
  BY <1>1, <1>3 DEF FilmInv, LoadedIsCurrent, DraftIsChecked, Loaded

(* A saved film uses the media of its request.                             *)
LEMMA SavedUsesMediaStep ==
    ASSUME FilmInv, [FilmNext]_filmVars, AgentSaves
    PROVE  LET html == project'.film.html IN
           /\ agent.required \subseteq html.placed
           /\ html.named \cap Tracks \subseteq agent.required
           /\ html.named \subseteq agent.required \cup agent.optional
           /\ agent.existing = project.film
<1>1. FilmNext
  BY DEF AgentSaves, filmVars
<1>2. /\ project'.film = agent.draft /\ agent.existing = project.film
      /\ Valid(agent.draft, agent.required, agent.optional)
  BY <1>1, SavesAreOfTheDraft
<1>3. agent.optional \subseteq Pictures
  BY DEF FilmInv, AgentTyped
<1> QED
  BY <1>2, <1>3, FilmAssumption DEF Valid, ValidateTokens

(* A save without content in its call is of other files than were loaded.  *)
LEMMA NoWorkStep ==
    ASSUME FilmInv, [FilmNext]_filmVars, AgentSaves, ~agent.whole
    PROVE  project'.film # project.film
<1>1. FilmNext
  BY DEF AgentSaves, filmVars
<1> QED
  BY <1>1, SavesAreOfTheDraft

(* A call that passes no content is of the files that were found valid.    *)
LEMMA ValidIsSavableStep ==
    ASSUME FilmInv, agent.reported, agent.saved = Absent, FinalizeDraft(LeftOut)
    PROVE  agent'.pc = "saving" \/ Completed(LeftOut) = agent.existing
<1>1. PICK film : film = Completed(LeftOut)
  OBVIOUS
<1>2. LeftOut \in Contents
  BY FilmAssumption
<1>3. film = [html |-> agent.html, js |-> agent.js]
  BY <1>1 DEF Completed, LeftOut
<1>4. Complete(film) /\ Gate(film)
  BY <1>3 DEF FilmInv, DraftIsChecked, Complete, Gate
<1>5. ASSUME film # agent.existing PROVE agent'.pc = "saving"
  <2>1. agent' = [agent EXCEPT !.pc = "saving", !.draft = film, !.whole = LeftOut # LeftOut]
    BY <1>1, <1>4, <1>5 DEF FinalizeDraft, Untouched
  <2> QED
    BY <2>1 DEF FilmInv, AgentTyped
<1> QED
  BY <1>1, <1>5

(* The types the model is checked for. *)
LEMMA FilmIsTyped == FilmInv => FilmTypeOK
<1> SUFFICES ASSUME FilmInv PROVE FilmTypeOK
  OBVIOUS
<1>1. project.revision \in 1..(1 + MaxRuns + MaxEdits)
  BY FilmAssumption DEF FilmInv, StateTyped, RevisionsCounted
<1>2. agent.expected \in 0..project.revision
  BY DEF FilmInv, AgentTyped, StateTyped, LoadedIsCurrent
<1> QED
  BY <1>1, <1>2 DEF FilmInv, AgentTyped, StateTyped, FilmTypeOK

(* A film the agent saves went through the gate as it is, with the tokens  *)
(* of its own request, in the place of the very film the run was given;    *)
(* and what it was told is valid is taken (finalize_generation,            *)
(* validateMotifyGeneration).                                              *)
THEOREM GateStaysTrue == FilmSpec => GateIsTrue
<1>1. FilmSpec => []FilmInv
  BY FilmBegins, FilmGoesOn, PTL DEF FilmSpec
<1>2. FilmInv /\ [FilmNext]_filmVars =>
        [AgentSaves =>
           LET html == project'.film.html IN
           /\ agent.required \subseteq html.placed
           /\ html.named \cap Tracks \subseteq agent.required
           /\ html.named \subseteq agent.required \cup agent.optional
           /\ agent.existing = project.film]_filmVars
  BY SavedUsesMediaStep
<1>3. FilmInv /\ [FilmNext]_filmVars =>
        [agent.reported /\ agent.saved = Absent /\ FinalizeDraft(LeftOut) =>
           agent'.pc = "saving" \/ Completed(LeftOut) = agent.existing]_filmVars
  BY ValidIsSavableStep
<1>4. FilmSpec => SavedFilmUsesTheMedia
  BY <1>1, <1>2, PTL DEF FilmSpec, SavedFilmUsesTheMedia
<1>5. FilmSpec => ValidMeansSavable
  BY <1>1, <1>3, PTL DEF FilmSpec, ValidMeansSavable
<1> QED
  BY <1>4, <1>5 DEF GateIsTrue

(* The agent is told a film is saved when it is, a save that brings nothing *)
(* changes something, and layers around an error of the provider do not    *)
(* change the answer (createMotifyAgentRunner, normalizeProviderError).    *)
THEOREM AnswersStayTrue == FilmSpec => AnswersAreTrue
<1>1. FilmSpec => []FilmInv
  BY FilmBegins, FilmGoesOn, PTL DEF FilmSpec
<1>2. FilmInv => FilmTypeOK /\ ToldIsTrue /\ LayersHideNoStatus
  BY FilmIsTyped, NothingIsMasked DEF FilmInv
<1>3. FilmSpec => [](FilmTypeOK /\ ToldIsTrue /\ LayersHideNoStatus)
  BY <1>1, <1>2, PTL
<1>4. FilmInv /\ [FilmNext]_filmVars => [AgentSaves /\ ~agent.whole => project'.film # project.film]_filmVars
  BY NoWorkStep
<1>5. FilmSpec => NoWorkIsNotSaved
  BY <1>1, <1>4, PTL DEF FilmSpec, NoWorkIsNotSaved
<1> QED
  BY <1>3, <1>5 DEF AnswersAreTrue
=============================================================================
