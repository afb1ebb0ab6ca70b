-------------------------- MODULE CreditTransactions --------------------------
(***************************************************************************)
(* The write side of credits as the database sees it: the statements of    *)
(* reserve, settle, refund and releaseStaleHolds of                        *)
(* DatabaseCreditRepository, interleaved.  Every one of them runs in a     *)
(* transaction that starts with SELECT ... FOR UPDATE on the user's        *)
(* account row; the sweep picks its victims before, without any lock.      *)
(*                                                                         *)
(* A transaction is three steps: the locking read, readHold (close only),  *)
(* and the insert with the balance trigger and the commit.  It can be      *)
(* rolled back before the last one, the server can die at any moment, and  *)
(* the answer to a commit can be lost.                                     *)
(*                                                                         *)
(* Credits are hundredths of a credit.  Which plan batch a unit comes from *)
(* is the subject of CreditLedger.                                         *)
(***************************************************************************)
EXTENDS Integers, FiniteSets, Functions

CONSTANTS
    Users,
    Refs,          \* generation requests; each is its ledger reference_id
    TopUps,        \* paid credit packs; each is its payment's id
    Sweepers,      \* sweeps that can overlap: startup, timer, another instance
    Owner,         \* whose account a request or a top-up belongs to
    HoldUnits,     \* BillingOptions.holdUnits
    MinUnits,      \* BillingOptions.minUnits
    SignupUnits,   \* what provisioning granted each account
    PackUnits,     \* what one top-up adds
    Costs,         \* what a request may turn out to cost
    SweepLimit,    \* the LIMIT of the sweep's select
    MaxFailures,   \* bound: rolled back transactions and crashes together
    NoOne          \* no session, no request

ASSUME UnitsAssumption ==
    /\ HoldUnits \in Nat \ {0} /\ MinUnits \in Nat \ {0}
    /\ SignupUnits \in Nat \ {0} /\ PackUnits \in Nat \ {0}
    /\ Costs \subseteq Nat
    /\ SweepLimit \in Nat \ {0} /\ MaxFailures \in Nat

ASSUME NamesAssumption ==
    /\ Owner \in [Refs \cup TopUps -> Users]
    /\ Refs \cap TopUps = {} /\ Refs \cap Sweepers = {}
    /\ NoOne \notin Refs \cup TopUps \cup Sweepers

VARIABLES
    balance,       \* credit_accounts.balance
    ledger,        \* credit_ledger, a set of committed rows
    lock,          \* lock[u]: the session that holds u's account row
    pc,            \* where each session's program is
    txn,           \* how far its open transaction is: none, locked, read
    item,          \* the request whose hold the session's transaction is about
    seen,          \* the balance its locking read returned
    hold,          \* what its readHold returned
    cost,          \* what request r turned out to cost
    aged,          \* requests older than staleAfterMs
    todo,          \* what a sweep's select found and has not come to yet
    failures       \* history: failures so far

vars == <<balance, ledger, lock, pc, txn, item, seen, hold, cost, aged, todo,
          failures>>

-----------------------------------------------------------------------------
Sessions == Refs \cup Sweepers

(* A request is new until reserve, running while the agent works on it,    *)
(* completing or abandoning until it closed the hold; refused is the 402   *)
(* answer, lost a request whose server died or never learned of its hold.  *)
(* A sweep is idle, or sweeping the holds of its todo set.                 *)
RequestStates == {"new", "running", "completing", "abandoning", "done",
                  "refused", "lost"}
SweepStates == {"idle", "sweeping"}
Closing == {"completing", "abandoning", "sweeping"}

Kinds == {"SIGNUP_GRANT", "PACK_PURCHASE", "RESERVE", "SETTLE", "REFUND"}

Row == [user : Users, kind : Kinds, ref : Refs \cup TopUps \cup {NoOne},
        amount : Int]

HoldRead == [reserved : Nat, closed : BOOLEAN]

TypeOK ==
    /\ balance \in [Users -> Nat]
    /\ ledger \subseteq Row
    /\ lock \in [Users -> Sessions \cup {NoOne}]
    /\ pc \in [Sessions -> RequestStates \cup SweepStates]
    /\ txn \in [Sessions -> {"none", "locked", "read"}]
    /\ item \in [Sessions -> Refs \cup {NoOne}]
    /\ seen \in [Sessions -> Nat]
    /\ hold \in [Sessions -> HoldRead]
    /\ cost \in [Refs -> Nat]
    /\ aged \subseteq Refs
    /\ todo \in [Sweepers -> SUBSET Refs]
    /\ failures \in Nat

-----------------------------------------------------------------------------
(* The ledger table.                                                       *)

RowsOf(r, kinds) == {row \in ledger : row.ref = r /\ row.kind \in kinds}

(* The amount of the only row of a set of rows. *)
AmountOf(rows) == (CHOOSE row \in rows : TRUE).amount

\* Mutant: the reserved amount keeps the sign of its ledger row.
ReservedKeepsSign(r) ==
    LET rows == RowsOf(r, {"RESERVE"})
    IN  IF rows = {} THEN 0 ELSE AmountOf(rows)

Reserved(r) ==
    LET rows == RowsOf(r, {"RESERVE"})
    IN  IF rows = {} THEN 0 ELSE -AmountOf(rows)

Closed(r) == RowsOf(r, {"SETTLE", "REFUND"}) # {}

NewRow(kind, r, amount) ==
    [user |-> Owner[r], kind |-> kind, ref |-> r, amount |-> amount]

(* The table's constraints and the balance check behind the trigger: an    *)
(* insert that breaks one of them raises, and the transaction rolls back.  *)
Accepts(row) ==
    /\ RowsOf(row.ref, {row.kind}) = {}
    /\ row.amount # 0 \/ row.kind = "SETTLE"
    /\ balance[row.user] + row.amount >= 0

\* Mutant: the trigger leaves the balance alone when a hold is settled.
PostWithoutSettle(row) ==
    /\ Accepts(row)
    /\ ledger' = ledger \cup {row}
    /\ balance' = [balance EXCEPT ![row.user] =
                     IF row.kind = "SETTLE" THEN @ ELSE @ + row.amount]

(* The insert and its trigger, committed. *)
Post(row) ==
    /\ Accepts(row)
    /\ ledger' = ledger \cup {row}
    /\ balance' = [balance EXCEPT ![row.user] = @ + row.amount]

SmallerOf(a, b) == IF a < b THEN a ELSE b

\* Mutant: the unused part of the hold is kept.
SettleKeepsHold(s) ==
    LET surplus == hold[s].reserved - cost[item[s]]
    IN  IF surplus >= 0 THEN 0 ELSE -SmallerOf(-surplus, seen[s])

(* settle: what goes back, or what an overrun still takes. *)
SettleAmount(s) ==
    LET surplus == hold[s].reserved - cost[item[s]]
    IN  IF surplus >= 0 THEN surplus ELSE -SmallerOf(-surplus, seen[s])

-----------------------------------------------------------------------------
Init ==
    /\ balance = [u \in Users |-> SignupUnits]
    /\ ledger = [user : Users, kind : {"SIGNUP_GRANT"}, ref : {NoOne},
                 amount : {SignupUnits}]
    /\ lock = [u \in Users |-> NoOne]
    /\ pc = [s \in Sessions |-> IF s \in Refs THEN "new" ELSE "idle"]
    /\ txn = [s \in Sessions |-> "none"]
    /\ item = [s \in Sessions |-> IF s \in Refs THEN s ELSE NoOne]
    /\ seen = [s \in Sessions |-> 0]
    /\ hold = [s \in Sessions |-> [reserved |-> 0, closed |-> FALSE]]
    /\ cost = [r \in Refs |-> 0]
    /\ aged = {}
    /\ todo = [w \in Sweepers |-> {}]
    /\ failures = 0

\* Mutant: the balance is read without FOR UPDATE.
ReadBalanceUnlocked(s) ==
    /\ pc[s] \in Closing \cup {"new"} /\ txn[s] = "none" /\ item[s] # NoOne
    /\ lock' = lock
    /\ seen' = [seen EXCEPT ![s] = balance[Owner[item[s]]]]
    /\ txn' = [txn EXCEPT ![s] = "locked"]
    /\ UNCHANGED <<balance, ledger, pc, item, hold, cost, aged, todo, failures>>

(* lockBalance: waits for the account row, then reads the balance. *)
LockBalance(s) ==
    /\ pc[s] \in Closing \cup {"new"} /\ txn[s] = "none" /\ item[s] # NoOne
    /\ LET u == Owner[item[s]] IN
        /\ lock[u] = NoOne
        /\ lock' = [lock EXCEPT ![u] = s]
        /\ seen' = [seen EXCEPT ![s] = balance[u]]
    /\ txn' = [txn EXCEPT ![s] = "locked"]
    /\ UNCHANGED <<balance, ledger, pc, item, hold, cost, aged, todo, failures>>

(* The transaction of s ends: its row lock goes, its reads are forgotten. *)
EndTxn(s) ==
    /\ lock' = [lock EXCEPT ![Owner[item[s]]] = NoOne]
    /\ txn' = [txn EXCEPT ![s] = "none"]
    /\ seen' = [seen EXCEPT ![s] = 0]
    /\ hold' = [hold EXCEPT ![s] = [reserved |-> 0, closed |-> FALSE]]

(* reserve, first branch: the account cannot cover a request. *)
RefuseReserve(r) ==
    /\ pc[r] = "new" /\ txn[r] = "locked"
    /\ seen[r] < MinUnits
    /\ EndTxn(r)
    /\ pc' = [pc EXCEPT ![r] = "refused"]
    /\ UNCHANGED <<balance, ledger, item, cost, aged, todo, failures>>

(* reserve, second branch.  When the answer to the commit is lost, begin   *)
(* throws and the request never learns that it holds credits.              *)
Reserve(r) ==
    /\ pc[r] = "new" /\ txn[r] = "locked"
    /\ seen[r] >= MinUnits
    /\ Post(NewRow("RESERVE", r, -SmallerOf(HoldUnits, seen[r])))
    /\ EndTxn(r)
    /\ \/ pc' = [pc EXCEPT ![r] = "running"] /\ failures' = failures
       \/ /\ failures < MaxFailures
          /\ failures' = failures + 1
          /\ pc' = [pc EXCEPT ![r] = "lost"]
    /\ UNCHANGED <<item, cost, aged, todo>>

(* The agent's run ends and runMessage closes the hold: complete with the  *)
(* metered cost, or abandon when the user got nothing.                     *)
RunEnds(r) ==
    /\ pc[r] = "running"
    /\ \/ \E c \in Costs : /\ cost' = [cost EXCEPT ![r] = c]
                           /\ pc' = [pc EXCEPT ![r] = "completing"]
       \/ /\ pc' = [pc EXCEPT ![r] = "abandoning"]
          /\ UNCHANGED cost
    /\ UNCHANGED <<balance, ledger, lock, txn, item, seen, hold, aged, todo,
                   failures>>

\* Mutant: a refund does not count as closed.
ReadHoldSettledOnly(s) ==
    /\ pc[s] \in Closing /\ txn[s] = "locked"
    /\ hold' = [hold EXCEPT ![s] = [reserved |-> Reserved(item[s]),
                                    closed |-> RowsOf(item[s], {"SETTLE"}) # {}]]
    /\ txn' = [txn EXCEPT ![s] = "read"]
    /\ UNCHANGED <<balance, ledger, lock, pc, item, seen, cost, aged, todo,
                   failures>>

(* readHold, after the locking read of settle and refund. *)
ReadHold(s) ==
    /\ pc[s] \in Closing /\ txn[s] = "locked"
    /\ hold' = [hold EXCEPT ![s] = [reserved |-> Reserved(item[s]),
                                    closed |-> Closed(item[s])]]
    /\ txn' = [txn EXCEPT ![s] = "read"]
    /\ UNCHANGED <<balance, ledger, lock, pc, item, seen, cost, aged, todo,
                   failures>>

(* Where a session goes once its transaction is over: a request is done; a *)
(* sweep takes the next row of its list, or ends.                          *)
Finish(s) ==
    IF s \in Refs
    THEN /\ pc' = [pc EXCEPT ![s] = "done"]
         /\ UNCHANGED <<item, todo>>
    ELSE /\ item' = [item EXCEPT ![s] = NoOne]
         /\ pc' = [pc EXCEPT ![s] = IF todo[s] = {} THEN "idle" ELSE @]
         /\ UNCHANGED todo

\* Mutant: whether the hold was closed meanwhile is not asked.
HoldWasOpened(s) == hold[s].reserved # 0

HoldIsOpen(s) == hold[s].reserved # 0 /\ ~hold[s].closed

(* settle or refund: nothing to close. *)
SkipClose(s) ==
    /\ pc[s] \in Closing /\ txn[s] = "read"
    /\ ~HoldIsOpen(s)
    /\ EndTxn(s)
    /\ Finish(s)
    /\ UNCHANGED <<balance, ledger, cost, aged, failures>>

Settle(r) ==
    /\ pc[r] = "completing" /\ txn[r] = "read"
    /\ HoldIsOpen(r)
    /\ Post(NewRow("SETTLE", item[r], SettleAmount(r)))
    /\ EndTxn(r)
    /\ Finish(r)
    /\ UNCHANGED <<cost, aged, failures>>

Refund(s) ==
    /\ pc[s] \in {"abandoning", "sweeping"} /\ txn[s] = "read"
    /\ HoldIsOpen(s)
    /\ Post(NewRow("REFUND", item[s], hold[s].reserved))
    /\ EndTxn(s)
    /\ Finish(s)
    /\ UNCHANGED <<cost, aged, failures>>

-----------------------------------------------------------------------------
(* releaseStaleHolds.                                                      *)

(* Time passes staleAfterMs since request r reserved. *)
Age(r) ==
    /\ r \notin aged /\ RowsOf(r, {"RESERVE"}) # {}
    /\ aged' = aged \cup {r}
    /\ UNCHANGED <<balance, ledger, lock, pc, txn, item, seen, hold, cost, todo,
                   failures>>

\* Mutant: the sweep's NOT EXISTS is joined on the user, not on the request.
StaleHoldsByUser ==
    {r \in aged : /\ RowsOf(r, {"RESERVE"}) # {}
                  /\ ~\E q \in Refs : Owner[q] = Owner[r] /\ Closed(q)}

StaleHolds == {r \in aged : RowsOf(r, {"RESERVE"}) # {} /\ ~Closed(r)}

(* The unlocked select: any SweepLimit of the stale rows, in no order. *)
SweepSelect(w) ==
    /\ pc[w] = "idle"
    /\ StaleHolds # {}
    /\ \E found \in SUBSET StaleHolds :
        /\ \/ found = StaleHolds /\ Cardinality(found) <= SweepLimit
           \/ Cardinality(found) = SweepLimit
        /\ todo' = [todo EXCEPT ![w] = found]
    /\ pc' = [pc EXCEPT ![w] = "sweeping"]
    /\ UNCHANGED <<balance, ledger, lock, txn, item, seen, hold, cost, aged,
                   failures>>

(* The loop over the rows the select returned. *)
SweepNext(w) ==
    /\ pc[w] = "sweeping" /\ item[w] = NoOne
    /\ \E r \in todo[w] : /\ item' = [item EXCEPT ![w] = r]
                          /\ todo' = [todo EXCEPT ![w] = @ \ {r}]
    /\ UNCHANGED <<balance, ledger, lock, pc, txn, seen, hold, cost, aged,
                   failures>>

-----------------------------------------------------------------------------
(* Other writers and failures.                                             *)

(* grantPaymentCredits: the insert's trigger updates the account row, so   *)
(* it waits for the row lock like the others; onConflictDoNothing makes a  *)
(* second delivery nothing.                                                *)
TopUp(t) ==
    /\ lock[Owner[t]] = NoOne
    /\ RowsOf(t, {"PACK_PURCHASE"}) = {}
    /\ Post(NewRow("PACK_PURCHASE", t, PackUnits))
    /\ UNCHANGED <<lock, pc, txn, item, seen, hold, cost, aged, todo, failures>>

(* The transaction of s fails and rolls back.  begin throws; complete and  *)
(* abandon swallow it and the request is over; the sweep's loop is left.   *)
RollBack(s) ==
    /\ txn[s] # "none"
    /\ failures < MaxFailures
    /\ failures' = failures + 1
    /\ EndTxn(s)
    /\ IF s \in Refs
       THEN /\ pc' = [pc EXCEPT ![s] = IF @ = "new" THEN "lost" ELSE "done"]
            /\ UNCHANGED <<item, todo>>
       ELSE /\ pc' = [pc EXCEPT ![s] = "idle"]
            /\ item' = [item EXCEPT ![s] = NoOne]
            /\ todo' = [todo EXCEPT ![s] = {}]
    /\ UNCHANGED <<balance, ledger, cost, aged>>

(* The server dies: requests in flight are lost, sweeps forget their list, *)
(* and the database rolls back every open transaction.                     *)
Crash ==
    /\ failures < MaxFailures
    /\ failures' = failures + 1
    /\ lock' = [u \in Users |-> NoOne]
    /\ pc' = [s \in Sessions |->
                IF s \in Sweepers THEN "idle"
                ELSE IF pc[s] \in {"done", "refused"} THEN pc[s]
                ELSE IF pc[s] = "new" /\ txn[s] = "none" THEN "new"
                ELSE "lost"]
    /\ txn' = [s \in Sessions |-> "none"]
    /\ item' = [s \in Sessions |-> IF s \in Refs THEN s ELSE NoOne]
    /\ seen' = [s \in Sessions |-> 0]
    /\ hold' = [s \in Sessions |-> [reserved |-> 0, closed |-> FALSE]]
    /\ todo' = [w \in Sweepers |-> {}]
    /\ UNCHANGED <<balance, ledger, cost, aged>>

-----------------------------------------------------------------------------
RequestStep(r) == RefuseReserve(r) \/ Reserve(r) \/ RunEnds(r) \/ Settle(r)
CloseStep(s) == LockBalance(s) \/ ReadHold(s) \/ SkipClose(s) \/ Refund(s)
SweepStep(w) == SweepSelect(w) \/ SweepNext(w)

Next ==
    \/ \E r \in Refs : RequestStep(r) \/ Age(r)
    \/ \E s \in Sessions : CloseStep(s) \/ RollBack(s)
    \/ \E w \in Sweepers : SweepStep(w)
    \/ \E t \in TopUps : TopUp(t)
    \/ Crash

Spec == Init /\ [][Next]_vars

(* The hold sweep is a timer that never stops, time passes, a database     *)
(* transaction that is not failing goes on, and row locks are granted in   *)
(* the order they were asked for: hence strong fairness for the lock and   *)
(* weak for the rest.  Requests get no fairness: a run may hang for ever.  *)
Fairness ==
    /\ \A w \in Sweepers : /\ WF_vars(SweepStep(w))
                           /\ SF_vars(LockBalance(w))
    /\ \A s \in Sessions : WF_vars(ReadHold(s) \/ SkipClose(s) \/ Refund(s))
    /\ \A r \in Refs : /\ WF_vars(Age(r))
                       /\ WF_vars(RefuseReserve(r) \/ Reserve(r) \/ Settle(r))

FairSpec == Spec /\ Fairness

-----------------------------------------------------------------------------
(* Properties.                                                             *)

(* A hold is closed at most once, by a charge or by a refund and never by  *)
(* both, and only a hold that was opened is closed: complete, abandon and  *)
(* any number of sweeps may race for it.                                   *)
ClosedOnce ==
    \A r \in Refs :
        /\ ~(RowsOf(r, {"SETTLE"}) # {} /\ RowsOf(r, {"REFUND"}) # {})
        /\ Closed(r) => RowsOf(r, {"RESERVE"}) # {}

(* "A balance can never be spent twice": what is in the account is what    *)
(* the ledger says was ever put in less what was ever taken out.           *)
Entries(u) == {row \in ledger : row.user = u}
Amounts == [row \in ledger |-> row.amount]
BalanceIsLedgerSum == \A u \in Users : balance[u] = SumFunctionOnSet(Amounts, Entries(u))

(* No interleaving, rollback or crash parts the accounts from the ledger, *)
(* takes a balance below zero or leaves a table row out of shape.         *)
BooksAreTrue == TypeOK /\ BalanceIsLedgerSum

(* A transaction that decided to write, from a balance and a hold it read  *)
(* some steps earlier, is never refused by the table's constraints or by   *)
(* the balance check: the reads are still true when the write happens.     *)
WritesAreAccepted ==
    /\ \A r \in Refs : pc[r] = "new" /\ txn[r] = "locked" /\ seen[r] >= MinUnits =>
            Accepts(NewRow("RESERVE", r, -SmallerOf(HoldUnits, seen[r])))
    /\ \A r \in Refs : pc[r] = "completing" /\ txn[r] = "read" /\ HoldIsOpen(r) =>
            Accepts(NewRow("SETTLE", r, SettleAmount(r)))
    /\ \A s \in Sessions : /\ pc[s] \in {"abandoning", "sweeping"}
                           /\ txn[s] = "read" /\ HoldIsOpen(s)
                           => Accepts(NewRow("REFUND", item[s], hold[s].reserved))

(* A settled request cost its user something between nothing and what its  *)
(* tokens cost, also when the overrun beyond the hold met an account that  *)
(* other requests had emptied meanwhile.                                   *)
ChargeWithinCost ==
    \A r \in Refs : RowsOf(r, {"SETTLE"}) # {} =>
        -(AmountOf(RowsOf(r, {"RESERVE"})) + AmountOf(RowsOf(r, {"SETTLE"})))
            \in 0..cost[r]

HoldState(r) ==
    LET has(kind) == RowsOf(r, {kind}) # {}
    IN  CASE has("SETTLE") /\ has("REFUND") -> "closed twice"
          [] has("SETTLE") /\ ~has("REFUND") -> "charged"
          [] has("REFUND") /\ ~has("SETTLE") -> "returned"
          [] ~has("SETTLE") /\ ~has("REFUND") /\ has("RESERVE") -> "open"
          [] OTHER -> "none"

HL == INSTANCE HoldLifecycle WITH hold <- [r \in Refs |-> HoldState(r)]

(* The transactions implement the hold GenerationBilling promises: opened  *)
(* once, then closed for good by exactly one charge or one return.         *)
ImplementsHoldLifecycle == HL!Spec

(* A hold nobody closes is swept up: whatever happened to the request that *)
(* opened it, every hold is closed in the end.                             *)
EveryHoldIsClosed ==
    \A r \in Refs : RowsOf(r, {"RESERVE"}) # {} ~> Closed(r)

-----------------------------------------------------------------------------
(* The inductive invariant behind these properties.                        *)

(* A session inside a transaction holds the row of the account it is       *)
(* about, so two transactions of one account never overlap.                *)
LockHeld ==
    \A s \in Sessions : txn[s] # "none" =>
        /\ item[s] # NoOne /\ lock[Owner[item[s]]] = s
        /\ pc[s] \in Closing \cup {"new"}
        /\ txn[s] = "read" => pc[s] # "new"

(* What a transaction read stays true until it ends. *)
ReadsAreFresh ==
    \A s \in Sessions :
        /\ txn[s] # "none" => seen[s] = balance[Owner[item[s]]]
        /\ txn[s] = "read" => /\ hold[s].reserved = Reserved(item[s])
                              /\ hold[s].closed = Closed(item[s])

(* A request closes its own hold, a sweep is never in a request's states.  *)
SessionsInRole ==
    /\ \A r \in Refs : item[r] = r /\ pc[r] \in RequestStates
    /\ \A w \in Sweepers : pc[w] \in SweepStates

(* The rows of one reference, and how far its request is with them. *)
RowsInOrder ==
    /\ \A row \in ledger :
        /\ row.kind \in {"RESERVE", "SETTLE", "REFUND"} => row.ref \in Refs
        /\ row.kind = "RESERVE" => row.amount < 0
    /\ \A a, b \in ledger :
        a.ref = b.ref /\ a.kind = b.kind /\ a.ref # NoOne => a = b
    /\ \A r \in Refs :
        /\ pc[r] = "new" => RowsOf(r, {"RESERVE"}) = {}
        /\ RowsOf(r, {"SETTLE"}) # {} => pc[r] = "done"

IInv ==
    /\ TypeOK
    /\ LockHeld
    /\ ReadsAreFresh
    /\ SessionsInRole
    /\ RowsInOrder
    /\ ClosedOnce
    /\ ChargeWithinCost

=============================================================================
