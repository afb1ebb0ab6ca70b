--------------------------- MODULE ReconcilerPass ---------------------------
(***************************************************************************)
(* The pass of reconcilePending over more payments than it takes at once:  *)
(* PaymentService.reconcilePending and refresh, listPending and            *)
(* grantMissingCredits of the repository.  Payments has what a refresh     *)
(* does in its single statements; here a refresh is one step, and the      *)
(* question is whether every payment's turn comes.                         *)
(*                                                                         *)
(* Payments are numbered in the order they were created in.  Those in Bad  *)
(* have a lookup that fails whenever it is tried.                          *)
(***************************************************************************)
EXTENDS Integers, Sequences, SequencesExt, FiniteSetsExt

CONSTANTS
    Created,    \* how many payments there come to be
    Bad,
    Limit,      \* of payments that a pass looks at, and of grants it makes up for
    MaxThrows   \* bound: lookups and statements that fail for no lasting reason

ASSUME PassAssumption ==
    /\ Created \in Nat /\ Limit \in Nat /\ MaxThrows \in Nat
    /\ Bad \subseteq 1..Created /\ Cardinality(Bad) < Limit

VARIABLES
    pending,   \* the payments that are PENDING
    settled,      \* those that are PAID, in the order of paidAt
    free,      \* those whose creditUnits are 0
    credited,  \* those with a grant in the ledger
    newest,    \* the last payment created
    verdict,   \* verdict[p]: what Bakong, or the clock, says of p
    recent,    \* payments whose lastCheckedAt is a moment ago
    pass,      \* what the pass is at
    throws     \* history: failures so far

passVars == <<pending, settled, free, credited, newest, verdict, recent, pass, throws>>

Queue == 1..Created
Off == [at |-> "off", list |-> <<>>, recent |-> {}]

PassTypeOK ==
    /\ newest \in 0..Created
    /\ pending \subseteq 1..newest /\ recent \subseteq 1..newest
    /\ ToSet(settled) \subseteq (1..newest) \ pending /\ IsInjective(settled)
    /\ credited \subseteq ToSet(settled) \ free
    /\ verdict \in [Queue -> {"NOT_FOUND", "PAID", "FAILED", "overdue"}]
    /\ pass.at \in {"off", "checking", "granting"}
    /\ Len(pass.list) <= Limit /\ IsInjective(pass.list) /\ pass.recent \subseteq Queue
    /\ throws \in 0..MaxThrows

-----------------------------------------------------------------------------
(* The oldest payments may be PAID from before payments granted credits,   *)
(* and a plan may come with no credits at all.                             *)
PassInit ==
    /\ \E legacy \in 0..Created :
        /\ newest = legacy /\ settled = [i \in 1..legacy |-> i]
        /\ verdict = [p \in Queue |-> IF p <= legacy THEN "PAID" ELSE "NOT_FOUND"]
    /\ free \in SUBSET Queue
    /\ pending = {} /\ credited = {} /\ recent = {} /\ pass = Off /\ throws = 0

Create ==
    /\ newest < Created /\ newest' = newest + 1 /\ pending' = pending \cup {newest + 1}
    /\ UNCHANGED <<settled, free, credited, verdict, recent, pass, throws>>

\* The payer's bank does something, or the grace period ends first.
Decide(p) ==
    /\ p \in pending /\ verdict[p] = "NOT_FOUND"
    /\ \E v \in {"PAID", "FAILED", "overdue"} : verdict' = [verdict EXCEPT ![p] = v]
    /\ UNCHANGED <<pending, settled, free, credited, newest, recent, pass, throws>>

\* minCheckIntervalMs pass since p was checked.
WearOff(p) ==
    /\ p \in recent /\ recent' = recent \ {p}
    /\ pass' = [pass EXCEPT !.recent = @ \ {p}]
    /\ UNCHANGED <<pending, settled, free, credited, newest, verdict, throws>>

Throw == throws < MaxThrows /\ throws' = throws + 1

-----------------------------------------------------------------------------
(* refresh, from Bakong's answer on: activate, close, or neither; a        *)
(* payment that was settled meanwhile is left as it is.                    *)
Refreshed(p) ==
    /\ recent' = recent \cup {p}
    /\ IF p \in pending /\ verdict[p] # "NOT_FOUND" THEN pending' = pending \ {p} ELSE UNCHANGED pending
    /\ IF p \in pending /\ verdict[p] = "PAID"
       THEN settled' = Append(settled, p) /\ credited' = credited \cup ({p} \ free)
       ELSE UNCHANGED <<settled, credited>>

\* A poll of getPayment, whose lookup may fail as well.
Poll(p) ==
    /\ p \in pending \ (recent \cup Bad)
    /\ Refreshed(p)
    /\ UNCHANGED <<free, newest, verdict, pass, throws>>

\* Mutant: one row too many is asked for.
FirstAndOne(list) == SubSeq(list, 1, Min({Limit + 1, Len(list)}))

First(list) == SubSeq(list, 1, Min({Limit, Len(list)}))

(* listPending: the oldest, with their lastCheckedAt as it is now. *)
ListPending ==
    /\ pass.at = "off"
    /\ pass' = [at |-> "checking", list |-> First(SetToSortSeq(pending, <)), recent |-> recent]
    /\ UNCHANGED <<pending, settled, free, credited, newest, verdict, recent, throws>>

GoOn == pass' = [pass EXCEPT !.list = Tail(@)]

\* Mutant: a lookup that fails ends the pass.
RefreshNextUncaught ==
    /\ pass.at = "checking" /\ pass.list # <<>>
    /\ LET p == Head(pass.list)
       IN  \/ p \in pass.recent /\ GoOn /\ UNCHANGED <<pending, settled, credited, recent, throws>>
           \/ /\ p \notin pass.recent /\ p \in Bad
              /\ pass' = Off /\ UNCHANGED <<pending, settled, credited, recent, throws>>
           \/ p \notin pass.recent \cup Bad /\ Refreshed(p) /\ GoOn /\ UNCHANGED throws
    /\ UNCHANGED <<free, newest, verdict>>

(* One payment of the list: checked a moment before it was listed; a       *)
(* lookup that fails, which is caught; or one that is answered.            *)
RefreshNext ==
    /\ pass.at = "checking" /\ pass.list # <<>>
    /\ LET p == Head(pass.list)
       IN  \/ p \in pass.recent /\ GoOn /\ UNCHANGED <<pending, settled, credited, recent, throws>>
           \/ /\ p \notin pass.recent
              /\ (p \in Bad /\ UNCHANGED throws) \/ (p \notin Bad /\ Throw)
              /\ GoOn /\ UNCHANGED <<pending, settled, credited, recent>>
           \/ p \notin pass.recent \cup Bad /\ Refreshed(p) /\ GoOn /\ UNCHANGED throws
    /\ UNCHANGED <<free, newest, verdict>>

(* grantMissingCredits: PAID, with credits to grant and no ledger row. *)
ListMissing ==
    /\ pass.at = "checking" /\ pass.list = <<>>
    /\ pass' = [pass EXCEPT !.at = "granting",
                  !.list = First(SelectSeq(settled, LAMBDA p : p \notin credited \cup free))]
    /\ UNCHANGED <<pending, settled, free, credited, newest, verdict, recent, throws>>

(* grantPaymentCredits, in a transaction of its own. *)
GrantNext ==
    /\ pass.at = "granting" /\ pass.list # <<>>
    /\ credited' = credited \cup ({Head(pass.list)} \ free) /\ GoOn
    /\ UNCHANGED <<pending, settled, free, newest, verdict, recent, throws>>

EndPass ==
    /\ pass.at = "granting" /\ pass.list = <<>> /\ pass' = Off
    /\ UNCHANGED <<pending, settled, free, credited, newest, verdict, recent, throws>>

(* A statement throws: the pass is over, and what is left of it waits for  *)
(* the next tick of the timer.                                             *)
PassThrows ==
    /\ pass.at # "off" /\ Throw /\ pass' = Off
    /\ UNCHANGED <<pending, settled, free, credited, newest, verdict, recent>>

-----------------------------------------------------------------------------
InPass == ListPending \/ RefreshNext \/ ListMissing \/ GrantNext \/ EndPass

PassNext ==
    \/ Create \/ InPass \/ PassThrows
    \/ \E p \in Queue : Decide(p) \/ WearOff(p) \/ Poll(p)

(* The timer ticks and a pass goes on; a QR is settled or it expires; and     *)
(* seconds go by.                                                          *)
PassFairness ==
    /\ WF_passVars(InPass)
    /\ \A p \in Queue : WF_passVars(Decide(p)) /\ WF_passVars(WearOff(p))

-----------------------------------------------------------------------------
(* Properties.                                                             *)

(* Fewer payments than a pass takes can have lookups that always fail:     *)
(* then in the end no other payment is left PENDING, and every one that is *)
(* PAID has its credits, polled or not, whatever else throws on the way    *)
(* ("so a plan still activates when the payer closes the tab",             *)
(* docs/api.md:156; reconcilePending, grantMissingCredits), while no pass *)
(* takes more than its limit (PassTypeOK).                                 *)
EveryTurnComes ==
    []PassTypeOK /\ <>[](pending \subseteq Bad /\ ToSet(settled) \ free \subseteq credited)
=============================================================================
