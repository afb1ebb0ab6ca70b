-------------------------- MODULE GenerationRequests --------------------------
(***************************************************************************)
(* POST /v1/projects/:id/messages from end to end: the run lease of the    *)
(* project (createProjectRunLock over InMemoryRunLeaseStore), the credit   *)
(* hold of the request (GenerationBilling), the sweep of stale holds, and  *)
(* restarts of the server, against one clock.                              *)
(*                                                                         *)
(* The lease's TTL and the age at which a hold is stale are both 15        *)
(* minutes, and both are meant to be longer than any run.  No code stops a *)
(* run, so here a run takes as long as it likes, and the properties say    *)
(* what is promised to one that is late too.  What happens inside a run is *)
(* the subject of AgentRun, inside a hold's transactions of                *)
(* CreditTransactions, whose abstract lifecycle is used here.              *)
(***************************************************************************)
EXTENDS Integers, FiniteSets

CONSTANTS
    Requests, Projects,
    ProjectOf,     \* the project a request is for
    LeaseTtl,      \* RUN_LEASE_TTL_MS
    StaleAfter,    \* BillingOptions.staleAfterMs
    MaxTime,       \* bound on the clock
    MaxFailures,   \* bound: failed bookkeeping transactions and restarts
    NoLease

ASSUME TimesAssumption ==
    /\ {LeaseTtl, StaleAfter} \subseteq Nat \ {0}
    /\ {MaxTime, MaxFailures} \subseteq Nat

ASSUME NamesAssumption ==
    /\ ProjectOf \in [Requests -> Projects]
    /\ NoLease \notin [holder : Requests, until : Int]

VARIABLES
    leases,        \* leases[p], in the memory of the server
    pc,            \* how far each request is
    startedAt,     \* when it took its lease
    hold,          \* its credit hold, in the ledger
    heldAt,        \* created_at of its RESERVE row
    outcome,       \* what its run ended with
    now,
    failures       \* history: failures so far

vars == <<leases, pc, startedAt, hold, heldAt, outcome, now, failures>>

-----------------------------------------------------------------------------
(* busy, refused, unpaid and failed are the answers 409, 403 or 404, 402   *)
(* and 5xx before any model was called; answered is one that ran.          *)
States == {"new", "admitted", "preparing", "running", "closing", "releasing",
           "answered", "busy", "refused", "unpaid", "failed", "lost"}

Lease == [holder : Requests, until : Nat]

TypeOK ==
    /\ leases \in [Projects -> Lease \cup {NoLease}]
    /\ pc \in [Requests -> States]
    /\ startedAt \in [Requests -> 0..MaxTime]
    /\ hold \in [Requests -> {"none", "open", "charged", "returned"}]
    /\ heldAt \in [Requests -> 0..MaxTime]
    /\ outcome \in [Requests -> {"none", "result", "error", "unpaid", "failed"}]
    /\ now \in 0..MaxTime
    /\ failures \in 0..MaxFailures

Inside == {"preparing", "running", "closing", "releasing"}

Fail == failures < MaxFailures /\ failures' = failures + 1

Goto(r, state) == pc' = [pc EXCEPT ![r] = state]

-----------------------------------------------------------------------------
Init ==
    /\ leases = [p \in Projects |-> NoLease]
    /\ pc = [r \in Requests |-> "new"]
    /\ startedAt = [r \in Requests |-> 0]
    /\ hold = [r \in Requests |-> "none"]
    /\ heldAt = [r \in Requests |-> 0]
    /\ outcome = [r \in Requests |-> "none"]
    /\ now = 0 /\ failures = 0

(* sendMessage: the project is not the caller's, or they may not write. *)
CheckAccess(r) ==
    /\ pc[r] = "new"
    /\ Goto(r, "admitted") \/ Goto(r, "refused")
    /\ UNCHANGED <<leases, startedAt, hold, heldAt, outcome, now, failures>>

InForce(p) == leases[p] # NoLease /\ leases[p].until > now

\* Mutant: acquire sets the lease without looking at the one that is there.
AcquireBlindly(r) ==
    /\ pc[r] = "admitted"
    /\ leases' = [leases EXCEPT ![ProjectOf[r]] =
                    [holder |-> r, until |-> now + LeaseTtl]]
    /\ startedAt' = [startedAt EXCEPT ![r] = now]
    /\ Goto(r, "preparing")
    /\ UNCHANGED <<hold, heldAt, outcome, now, failures>>

(* acquire, and the 409 of a project that has a lease in force. *)
Acquire(r) ==
    /\ pc[r] = "admitted"
    /\ IF InForce(ProjectOf[r])
       THEN Goto(r, "busy") /\ UNCHANGED <<leases, startedAt>>
       ELSE /\ leases' = [leases EXCEPT ![ProjectOf[r]] =
                            [holder |-> r, until |-> now + LeaseTtl]]
            /\ startedAt' = [startedAt EXCEPT ![r] = now]
            /\ Goto(r, "preparing")
    /\ UNCHANGED <<hold, heldAt, outcome, now, failures>>

(* runMessage up to billing.begin: assets, audio and brand are resolved,   *)
(* which may throw, then the hold is reserved, which may be refused or     *)
(* fail, also after its commit.                                            *)
Begin(r) ==
    /\ pc[r] = "preparing"
    /\ \/ /\ hold' = [hold EXCEPT ![r] = "open"]
          /\ heldAt' = [heldAt EXCEPT ![r] = now]
          /\ Goto(r, "running")
          /\ UNCHANGED <<outcome, failures>>
       \/ /\ Goto(r, "releasing")
          /\ \E answer \in {"unpaid", "failed"} : outcome' = [outcome EXCEPT ![r] = answer]
          /\ UNCHANGED <<hold, heldAt, failures>>
       \/ /\ Fail
          /\ hold' = [hold EXCEPT ![r] = "open"]
          /\ heldAt' = [heldAt EXCEPT ![r] = now]
          /\ outcome' = [outcome EXCEPT ![r] = "failed"]
          /\ Goto(r, "releasing")
    /\ UNCHANGED <<leases, startedAt, now>>

(* invokeGraph returns a result for the user, or an error. *)
RunEnds(r) ==
    /\ pc[r] = "running"
    /\ \E end \in {"result", "error"} : outcome' = [outcome EXCEPT ![r] = end]
    /\ Goto(r, "closing")
    /\ UNCHANGED <<leases, startedAt, hold, heldAt, now, failures>>

\* Mutants: a hold is closed whatever has become of it meanwhile; a run that
\* threw is charged like one that did not.
CloseAgain(r) ==
    /\ pc[r] = "closing"
    /\ hold' = [hold EXCEPT ![r] = IF outcome[r] = "result" THEN "charged" ELSE "returned"]
    /\ Goto(r, "releasing")
    /\ UNCHANGED <<leases, startedAt, heldAt, outcome, now, failures>>

CloseCharging(r) ==
    /\ pc[r] = "closing"
    /\ hold' = [hold EXCEPT ![r] = IF @ = "open" THEN "charged" ELSE @]
    /\ Goto(r, "releasing")
    /\ UNCHANGED <<leases, startedAt, heldAt, outcome, now, failures>>

(* complete or abandon.  Neither throws: a hold it could not close is left *)
(* to the sweep, one the sweep has closed stays as it is.                  *)
Close(r) ==
    /\ pc[r] = "closing"
    /\ \/ /\ hold' = [hold EXCEPT ![r] =
                IF @ # "open" THEN @
                ELSE IF outcome[r] = "result" THEN "charged" ELSE "returned"]
          /\ UNCHANGED failures
       \/ Fail /\ UNCHANGED hold
    /\ Goto(r, "releasing")
    /\ UNCHANGED <<leases, startedAt, heldAt, outcome, now>>

\* Mutants: release deletes the lease whoever holds it; a run that throws
\* keeps its lease; release moves the expiry into the past.
ReleaseAnyone(r) ==
    /\ pc[r] = "releasing"
    /\ leases' = [leases EXCEPT ![ProjectOf[r]] = NoLease]
    /\ Goto(r, "answered")
    /\ UNCHANGED <<startedAt, hold, heldAt, outcome, now, failures>>

ReleaseUnlessThrown(r) ==
    /\ pc[r] = "releasing"
    /\ leases' = [leases EXCEPT ![ProjectOf[r]] =
            IF @ # NoLease /\ @.holder = r /\ outcome[r] = "result" THEN NoLease ELSE @]
    /\ Goto(r, "answered")
    /\ UNCHANGED <<startedAt, hold, heldAt, outcome, now, failures>>

(* The finally of the run lock: release, if the lease is still its own. *)
Release(r) ==
    /\ pc[r] = "releasing"
    /\ leases' = [leases EXCEPT ![ProjectOf[r]] =
            IF @ # NoLease /\ @.holder = r THEN NoLease ELSE @]
    /\ Goto(r, IF outcome[r] \in {"unpaid", "failed"} THEN outcome[r] ELSE "answered")
    /\ UNCHANGED <<startedAt, hold, heldAt, outcome, now, failures>>

\* Mutant: the sweep is given the time instead of the time less staleAfterMs.
IsStaleAtOnce(r) == hold[r] = "open" /\ heldAt[r] < now

IsStale(r) == hold[r] = "open" /\ heldAt[r] < now - StaleAfter

(* releaseStale, on its timer: gives back what has been open too long. *)
Sweep ==
    /\ \E r \in Requests : IsStale(r)
    /\ hold' = [r \in Requests |-> IF IsStale(r) THEN "returned" ELSE hold[r]]
    /\ UNCHANGED <<leases, pc, startedAt, heldAt, outcome, now, failures>>

(* The server stops and starts again: leases and requests in flight are    *)
(* gone, holds are not.                                                    *)
Restart ==
    /\ Fail
    /\ leases' = [p \in Projects |-> NoLease]
    /\ pc' = [r \in Requests |->
                IF pc[r] \in Inside \cup {"admitted"} THEN "lost" ELSE pc[r]]
    /\ UNCHANGED <<startedAt, hold, heldAt, outcome, now>>

(* Time passes, however many requests are inside. *)
Tick ==
    /\ now < MaxTime
    /\ now' = now + 1
    /\ UNCHANGED <<leases, pc, startedAt, hold, heldAt, outcome, failures>>

Step(r) == \/ CheckAccess(r) \/ Acquire(r) \/ Begin(r) \/ RunEnds(r)
           \/ Close(r) \/ Release(r)

Next == (\E r \in Requests : Step(r)) \/ Sweep \/ Restart \/ Tick

Spec == Init /\ [][Next]_vars

-----------------------------------------------------------------------------
(* Properties.                                                             *)

(* "One generation per project at a time": of all the requests inside for  *)
(* one project, at most one is within its lease's TTL.  A second one is    *)
(* there only if it outlived its own lease.                                *)
OneRunPerProject ==
    \A r, q \in Requests :
        /\ r # q /\ ProjectOf[r] = ProjectOf[q] /\ {pc[r], pc[q]} \subseteq Inside
        => startedAt[r] + LeaseTtl <= now \/ startedAt[q] + LeaseTtl <= now

(* "A live request is never swept": the hold of a request that is still    *)
(* working on it is open until the request closes it, at least until it is *)
(* as old as a stale one.                                                  *)
LiveHoldIsKept ==
    \A r \in Requests :
        pc[r] \in {"running", "closing"} /\ now <= heldAt[r] + StaleAfter => hold[r] = "open"

(* What the user got is what they paid for: unless the bookkeeping failed, *)
(* no request ends with its hold open, only a result is charged, and a     *)
(* result goes free only if it came so late that the sweep was first.      *)
ResultsAreCharged ==
    failures = 0 =>
        \A r \in Requests : pc[r] \in {"answered", "busy", "refused", "unpaid", "failed"} =>
            /\ hold[r] # "open"
            /\ hold[r] = "charged" => outcome[r] = "result"
            /\ outcome[r] = "result" => hold[r] = "charged" \/ heldAt[r] + StaleAfter < now

(* A lease in force goes only when its own holder is done, or the server   *)
(* that remembers it is: a run that outlived its lease, and finds it taken *)
(* by the next one, leaves it alone.                                       *)
LeasesAreTheirHolders ==
    [][\A p \in Projects : InForce(p) /\ leases'[p] # leases[p] =>
        LET r == leases[p].holder
        IN  pc[r] = "releasing" \/ pc'[r] = "lost"]_vars

(* A project is never locked out longer than the lease of one request, and *)
(* not at all by a request that is over.                                   *)
NoLockAfterTheEnd ==
    \A p \in Projects : InForce(p) =>
        /\ pc[leases[p].holder] \in Inside
        /\ leases[p].until <= startedAt[leases[p].holder] + LeaseTtl

(* A closed hold stays as it was closed, even by a sweep that came first. *)
ClosedForGood ==
    [][\A r \in Requests : hold[r] \in {"charged", "returned"} => hold'[r] = hold[r]]_vars

(* The lock of a project goes with the request it was taken for, on every  *)
(* way out, by expiry and over a restart (project-run-lock.ts).            *)
LocksFollowTheirRequests ==
    [](OneRunPerProject /\ NoLockAfterTheEnd) /\ LeasesAreTheirHolders

(* A hold is open while its request is at work and not stale, and once     *)
(* closed it stays closed, whoever of request and sweep comes late.        *)
HoldsFollowTheirRequests == [](TypeOK /\ LiveHoldIsKept) /\ ClosedForGood
=============================================================================
