----------------------------- MODULE CreditLedger -----------------------------
(***************************************************************************)
(* Plan credits that expire: one account, its batches (credit_grants) and  *)
(* what each generation drew from them (credit_grant_uses), as the trigger *)
(* credit_ledger_grants of migration 0020 keeps them in step with every    *)
(* ledger row, and expireCredits, which empties what is past its expiry.   *)
(*                                                                         *)
(* Each operation is one transaction; that transactions of one account do  *)
(* not overlap is what CreditTransactions shows.  Every statement is       *)
(* filtered by user_id, so one account is enough.                          *)
(***************************************************************************)
EXTENDS Integers, Sequences, FiniteSets, Functions

CONSTANTS
    Refs,          \* generations
    Plans,         \* plan payments: each grants a batch that expires
    Packs,         \* credit pack payments: permanent credits
    SignupUnits, PlanUnits, PackUnits,
    HoldUnits, MinUnits,
    Costs,         \* what a generation may cost
    Periods,       \* how long after its grant a batch may expire
    SweepLimit,    \* expireCredits' limit
    MaxTime        \* bound on the clock

ASSUME UnitsAssumption ==
    /\ {SignupUnits, PlanUnits, PackUnits, HoldUnits, MinUnits, SweepLimit}
            \subseteq Nat \ {0}
    /\ Costs \subseteq Nat /\ Periods \subseteq Nat \ {0} /\ MaxTime \in Nat

ASSUME PaymentsAssumption == Plans \cap Packs = {} /\ IsFiniteSet(Refs)

VARIABLES
    balance,       \* credit_accounts.balance
    grants,        \* credit_grants in the order of created_at
    uses,          \* credit_grant_uses: uses[r][b], units r holds of batch b
    holds,         \* the RESERVE and closing rows of each generation
    paid,          \* payments whose grant row is in the ledger
    due,           \* batches the running expiry sweep has yet to visit
    now,           \* the database clock
    refused        \* history: a row a constraint of the tables refused

vars == <<balance, grants, uses, holds, paid, due, now, refused>>

-----------------------------------------------------------------------------
Batches == DOMAIN grants
HoldStates == {"none", "open", "charged", "returned"}

(* expired is history: the sum of a batch's EXPIRE rows.                   *)
Hold == [state : HoldStates, reserved : Nat, charge : Nat]
Grant == [plan : Plans, amount : Nat, remaining : Nat, expires : Nat,
          expired : Nat]

NoHold == [state |-> "none", reserved |-> 0, charge |-> 0]

TypeOK ==
    /\ balance \in Nat
    /\ grants \in Seq(Grant)
    /\ uses \in [Refs -> [Batches -> Nat]]
    /\ holds \in [Refs -> Hold]
    /\ paid \subseteq Plans \cup Packs
    /\ due \subseteq Batches
    /\ now \in 0..MaxTime
    /\ refused \in BOOLEAN

SmallerOf(a, b) == IF a < b THEN a ELSE b
LargerOf(a, b) == IF a < b THEN b ELSE a

Remaining(gs) == [b \in DOMAIN gs |-> gs[b].remaining]
RemainingOf(gs) == SumFunction(Remaining(gs))

-----------------------------------------------------------------------------
(* The trigger.                                                            *)

(* The order a loop visits the batches in: the rank of each.               *)
Orders == {rank \in [Batches -> Batches] : \A a, b \in Batches : rank[a] = rank[b] => a = b}

\* Mutant: batches are taken in the order they were granted.
OldestFirst == {rank \in Orders : \A a, b \in Batches : rank[a] < rank[b] => a < b}

\* Mutant: units go back in the order they were drawn in.
DrawnFirst ==
    {rank \in Orders : \A a, b \in Batches : rank[a] < rank[b] =>
        grants[a].expires <= grants[b].expires}

(* ORDER BY expires_at, created_at; and, of the give-back, only            *)
(* expires_at DESC, so batches that expire together come in any order.     *)
SoonestFirst ==
    {rank \in Orders : \A a, b \in Batches : rank[a] < rank[b] =>
        \/ grants[a].expires < grants[b].expires
        \/ grants[a].expires = grants[b].expires /\ a < b}
LatestFirst ==
    {rank \in Orders : \A a, b \in Batches : rank[a] < rank[b] =>
        grants[a].expires >= grants[b].expires}

(* What the loop moves of each batch: what the batch has, or what those    *)
(* visited before have left over of the units.  The loop itself is in      *)
(* GrantLoops.                                                             *)
Moved(has, units, rank) ==
    [b \in DOMAIN has |->
        LET before == {a \in DOMAIN has : rank[a] < rank[b]}
        IN  SmallerOf(has[b], LargerOf(units - SumFunctionOnSet(has, before), 0))]

\* Mutant: what is past due but not swept yet is not drawn from.
DrawUnexpired(units) ==
    {Moved([b \in Batches |-> IF grants[b].expires > now THEN grants[b].remaining ELSE 0], units, rank) :
        rank \in SoonestFirst}

(* A negative row takes from open batches, soonest expiry first. *)
Draw(units) == {Moved(Remaining(grants), units, rank) : rank \in SoonestFirst}

\* Mutant: nothing is given back to a batch that is past due.
GiveBackUnexpired(r, units) ==
    {Moved([b \in Batches |-> IF grants[b].expires > now THEN uses[r][b] ELSE 0], units, rank) :
        rank \in LatestFirst}

(* A positive row without an expiry gives back to the batches its          *)
(* reference drew from, latest expiry first.                               *)
GiveBack(r, units) == {Moved(uses[r], units, rank) : rank \in LatestFirst}

(* From each batch to the uses of the reference, negative when given back. *)
Moves(r, amount) ==
    IF amount < 0 THEN Draw(-amount)
    ELSE {[b \in Batches |-> -back[b]] : back \in GiveBack(r, amount)}

(* The checks of credit_accounts, credit_grants and credit_grant_uses. *)
ChecksHold(b, gs, u) ==
    /\ b >= 0
    /\ \A i \in DOMAIN gs : gs[i].remaining \in 0..gs[i].amount
    /\ \A i \in DOMAIN u : u[i] >= 0

(* A generation's row of some amount: the insert and both its triggers.    *)
(* A broken check raises and the transaction leaves nothing behind.        *)
Post(r, amount, newHold) ==
    \E moved \in Moves(r, amount) :
        LET gs == [b \in Batches |-> [grants[b] EXCEPT !.remaining = @ - moved[b]]]
            us == [b \in Batches |-> uses[r][b] + moved[b]]
        IN  \/ /\ ChecksHold(balance + amount, gs, us)
               /\ balance' = balance + amount
               /\ grants' = gs
               /\ uses' = [uses EXCEPT ![r] = us]
               /\ holds' = [holds EXCEPT ![r] = newHold]
               /\ UNCHANGED refused
            \/ /\ ~ChecksHold(balance + amount, gs, us)
               /\ refused' = TRUE
               /\ UNCHANGED <<balance, grants, uses, holds>>

-----------------------------------------------------------------------------
Init ==
    /\ balance = SignupUnits
    /\ grants = <<>>
    /\ uses = [r \in Refs |-> <<>>]
    /\ holds = [r \in Refs |-> NoHold]
    /\ paid = {}
    /\ due = {}
    /\ now = 0
    /\ refused = FALSE

(* grantPaymentCredits for a plan: a PLAN_GRANT row with expires_at. *)
GrantPlan(p) ==
    /\ p \notin paid
    /\ \E period \in Periods :
        grants' = Append(grants, [plan |-> p, amount |-> PlanUnits,
                                  remaining |-> PlanUnits,
                                  expires |-> now + period, expired |-> 0])
    /\ uses' = [r \in Refs |-> Append(uses[r], 0)]
    /\ balance' = balance + PlanUnits
    /\ paid' = paid \cup {p}
    /\ UNCHANGED <<holds, due, now, refused>>

(* grantPaymentCredits for a pack: no expiry, and no batch refers to it. *)
BuyPack(p) ==
    /\ p \notin paid
    /\ balance' = balance + PackUnits
    /\ paid' = paid \cup {p}
    /\ UNCHANGED <<grants, uses, holds, due, now, refused>>

Reserve(r) ==
    /\ holds[r].state = "none"
    /\ balance >= MinUnits
    /\ LET held == SmallerOf(HoldUnits, balance)
       IN  Post(r, -held, [state |-> "open", reserved |-> held, charge |-> 0])
    /\ UNCHANGED <<paid, due, now>>

Settle(r, cost) ==
    /\ holds[r].state = "open"
    /\ LET surplus == holds[r].reserved - cost
           amount == IF surplus >= 0 THEN surplus ELSE -SmallerOf(-surplus, balance)
       IN  Post(r, amount, [state |-> "charged", reserved |-> holds[r].reserved,
                            charge |-> holds[r].reserved - amount])
    /\ UNCHANGED <<paid, due, now>>

(* abandon, or the sweep of stale holds. *)
Refund(r) ==
    /\ holds[r].state = "open"
    /\ Post(r, holds[r].reserved, [holds[r] EXCEPT !.state = "returned"])
    /\ UNCHANGED <<paid, due, now>>

\* Mutants: batches one tick early; batches already swept once left out.
SelectEarly ==
    LET found == {b \in Batches : grants[b].remaining > 0 /\ grants[b].expires <= now + 1}
    IN  /\ due = {} /\ found # {} /\ due' = found
        /\ UNCHANGED <<balance, grants, uses, holds, paid, now, refused>>

SelectUnswept ==
    LET found == {b \in Batches : /\ grants[b].remaining > 0 /\ grants[b].expires <= now
                                  /\ grants[b].expired = 0}
    IN  /\ due = {} /\ found # {} /\ due' = found
        /\ UNCHANGED <<balance, grants, uses, holds, paid, now, refused>>

(* expireCredits: the unlocked select of due batches, soonest first, at    *)
(* most SweepLimit of them.                                                *)
ExpireSelect ==
    LET found == {b \in Batches : grants[b].remaining > 0 /\ grants[b].expires <= now}
    IN  /\ due = {} /\ found # {}
        /\ \E first \in SUBSET found :
            /\ Cardinality(first) = SmallerOf(Cardinality(found), SweepLimit)
            /\ \A a \in first, b \in found \ first : grants[a].expires <= grants[b].expires
            /\ due' = first
        /\ UNCHANGED <<balance, grants, uses, holds, paid, now, refused>>

\* Mutant: the balance keeps what expires.
ExpireKeepsBalance(b) ==
    /\ due' = due \ {b}
    /\ grants' = [grants EXCEPT ![b].remaining = 0, ![b].expired = @ + grants[b].remaining]
    /\ UNCHANGED <<balance, uses, holds, paid, now, refused>>

(* One batch of the list, in a transaction of its own that reads it again. *)
Expire(b) ==
    /\ due' = due \ {b}
    /\ LET left == grants[b].remaining
       IN  \/ left <= 0 /\ UNCHANGED <<balance, grants, refused>>
           \/ /\ left > 0 /\ balance >= left
              /\ balance' = balance - left
              /\ grants' = [grants EXCEPT ![b].remaining = 0, ![b].expired = @ + left]
              /\ UNCHANGED refused
           \/ /\ left > 0 /\ balance < left
              /\ refused' = TRUE /\ UNCHANGED <<balance, grants>>
    /\ UNCHANGED <<uses, holds, paid, now>>

ExpireBatch ==
    \E b \in due : (\A a \in due : grants[b].expires <= grants[a].expires) /\ Expire(b)

(* The sweep fails or the server stops: the rest of the list is forgotten. *)
SweepStops ==
    /\ due # {}
    /\ due' = {}
    /\ UNCHANGED <<balance, grants, uses, holds, paid, now, refused>>

Tick ==
    /\ now < MaxTime
    /\ now' = now + 1
    /\ UNCHANGED <<balance, grants, uses, holds, paid, due, refused>>

Close(r) == Refund(r) \/ \E cost \in Costs : Settle(r, cost)

Next ==
    \/ \E p \in Plans : GrantPlan(p)
    \/ \E p \in Packs : BuyPack(p)
    \/ \E r \in Refs : Reserve(r) \/ Close(r)
    \/ ExpireSelect \/ ExpireBatch \/ SweepStops \/ Tick

Spec == Init /\ [][Next]_vars

(* The sweep is a timer that never stops; that it fails for ever is not    *)
(* considered: a stopped sweep leaves ExpireBatch disabled, so its         *)
(* fairness is strong.                                                     *)
FairSpec == Spec /\ WF_vars(ExpireSelect) /\ SF_vars(ExpireBatch) /\ WF_vars(Tick)

-----------------------------------------------------------------------------
(* Properties.                                                             *)

(* What the batches still hold is in the account: the balance check can    *)
(* never refuse an expiry, whatever was spent and refunded meanwhile.      *)
BatchesAreCovered == RemainingOf(grants) <= balance

(* No row a correct caller writes is refused by a constraint of the        *)
(* balance, the batches or the uses.                                       *)
NothingRefused == ~refused

(* Every unit of a batch is still in it, with a generation that drew it,   *)
(* or expired: none is lost and none appears.                              *)
DrawnOf(b) == [r \in Refs |-> uses[r][b]]
BatchUnitsConserved ==
    \A b \in Batches :
        grants[b].amount = grants[b].remaining + grants[b].expired + SumFunction(DrawnOf(b))

(* The balance is everything granted less what is held, charged or         *)
(* expired: the sum of the account's ledger rows.                          *)
Granted == [b \in Batches |-> grants[b].amount - grants[b].expired]
Bought == [p \in paid \cap Packs |-> PackUnits]
Taken == [r \in Refs |-> IF holds[r].state = "open" THEN holds[r].reserved ELSE holds[r].charge]
BalanceIsLedgerSum ==
    balance = SignupUnits + SumFunction(Granted) + SumFunction(Bought) - SumFunction(Taken)

(* "A refund goes back to the credits it came from": a returned hold keeps *)
(* no unit of any batch.                                                   *)
RefundRestoresBatches ==
    \A r \in Refs : holds[r].state = "returned" =>
        \A b \in Batches : uses[r][b] = 0

(* What a step takes of each batch; negative, what it gives back.          *)
Took == [b \in Batches |-> grants[b].remaining - grants'[b].remaining]

(* Every row of a generation that takes units, the hold and the overrun    *)
(* when it is settled, takes permanent credits only when it leaves every   *)
(* batch empty, and units of a batch only when it leaves those that expire *)
(* sooner empty.                                                           *)
DrawsSoonestFirst ==
    [][\A r \in Refs : holds'[r] # holds[r] /\ balance' < balance =>
        /\ SumFunction(Took) < balance - balance' => RemainingOf(grants') = 0
        /\ \A a, b \in Batches :
             Took[b] > 0 /\ grants[a].expires < grants[b].expires => grants'[a].remaining = 0]_vars

(* Every row of a generation that gives units back, the surplus and the    *)
(* refund, gives permanent credits back only when the generation holds no  *)
(* unit of a batch any more, and units to a batch only when it holds none  *)
(* of those that expire later (0020_credit_expiry.sql:76).                 *)
GivesBackLatestFirst ==
    [][\A r \in Refs : holds'[r] # holds[r] /\ balance' > balance =>
        /\ SumFunction(Took) > balance - balance' => \A b \in Batches : uses'[r][b] = 0
        /\ \A a, b \in Batches :
             Took[a] < 0 /\ grants[a].expires < grants[b].expires => uses'[r][b] = 0]_vars

(* Signup credits and packs never expire: an expiry takes nothing but what *)
(* a past-due batch holds, so the permanent credits stay as they are.      *)
PermanentNeverExpires ==
    [][\A b \in Batches : grants'[b].expired > grants[b].expired =>
        /\ grants[b].expires <= now
        /\ balance' - RemainingOf(grants') = balance - RemainingOf(grants)]_vars

(* Every batch that is past due ends empty for good, also when a late      *)
(* refund filled it again after its expiry.                                *)
PastDueBatchesEndEmpty ==
    <>[](\A b \in Batches : grants[b].expires <= now => grants[b].remaining = 0)

(* The three books of one account, its balance, its batches and what each   *)
(* generation drew from them, tell one story (credit.repository.ts and the *)
(* triggers of 0020_credit_expiry.sql keep them in separate tables).       *)
BooksAgree ==
    /\ TypeOK /\ NothingRefused
    /\ BatchesAreCovered /\ BatchUnitsConserved /\ BalanceIsLedgerSum

(* Row by row of the ledger units move in one order: each draw takes what  *)
(* expires soonest first and permanent credits last, each give-back goes   *)
(* the other way round, and no permanent credits expire                    *)
(* (docs/api.md:264).  What the rows of a generation come to together is   *)
(* ChargesSpendSoonestFirst.                                               *)
UnitsMoveInOrder == DrawsSoonestFirst /\ GivesBackLatestFirst /\ PermanentNeverExpires

(* "A generation spends the credits that expire soonest first, then        *)
(* permanent credits" (docs/api.md:183), of what it ends up charged: as it *)
(* is settled, permanent credits pay only for what no batch it drew from   *)
(* could have paid.  The code's give-back breaks this: a surplus fills the *)
(* batches again before it makes good for the permanent credits.           *)
ChargesSpendSoonestFirst ==
    [][\A r \in Refs :
        /\ holds[r].state = "open" /\ holds'[r].state = "charged"
        /\ SumFunction(uses'[r]) < holds'[r].charge
        => \A b \in Batches : Took[b] >= 0]_vars
=============================================================================
