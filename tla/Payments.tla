------------------------------- MODULE Payments -------------------------------
(***************************************************************************)
(* KHQR payments of one workspace: PaymentService and its repository.      *)
(* Checkouts are opened by members, paid at the payer's bank, and settled  *)
(* by whoever asks Bakong next: a poll of the payment or the reconciler.   *)
(* Between a read and Bakong's answer, and between the statements of a     *)
(* transaction, other polls, the reconciler and the clock may come in; a   *)
(* statement that waits for a row lock is a step that is not enabled yet.  *)
(*                                                                         *)
(* Bakong is external: it answers what the payer's bank has done by the    *)
(* time it is asked, or not at all.  A QR is paid at most once, by someone *)
(* it was shown to, and no later than the grace period after its expiry.   *)
(***************************************************************************)
EXTENDS Integers, FiniteSets

CONSTANTS
    Payments,      \* rows of payments
    Legacy,        \* those PAID before payments granted credits
    Users, Owners, \* members of the workspace, and who of them owns it
    Plans, Packs,  \* what is on sale
    Creditless,    \* plans sold without credits (PLAN_<ID>_CREDITS=0)
    Polls,         \* requests that poll a payment
    Reconciler,    \* the pass of reconcilePending
    QrTtl, Grace, MinRemaining, MinInterval, Period,
                   \* qrTtlMs, expiryGraceMs, REUSE_MIN_REMAINING_MS,
                   \* minCheckIntervalMs, and periodDays of every plan
    None,          \* no row, no answer, no call
    Subscriptions, \* what the workspace has before the first step
    MaxTime,       \* bound on the clock
    MaxFailures    \* bound: calls and transactions that fail

ASSUME TimesAssumption ==
    /\ {QrTtl, Grace, MinRemaining, MinInterval, MaxTime, MaxFailures} \subseteq Nat
    /\ Period \in Nat \ {0}

ASSUME NamesAssumption ==
    /\ Legacy \subseteq Payments /\ Owners \subseteq Users
    /\ Plans \cap Packs = {} /\ Creditless \subseteq Plans /\ Reconciler \notin Polls

VARIABLES
    now,
    payment,       \* payments
    subscription,  \* the workspace's row of workspace_subscriptions
    credit,        \* credit[p]: the credit_ledger row of a payment
    bank,          \* bank[p]: what Bakong knows of a QR, and who paid it
    shown,         \* shown[p]: who was given this checkout
    checkout,      \* checkout[u]: createCheckout of member u
    check,         \* check[c]: a call of refresh
    failures       \* history: failures so far

vars == <<now, payment, subscription, credit, bank, shown, checkout, check, failures>>

-----------------------------------------------------------------------------
Items == Plans \cup Packs
Checks == Polls \cup {Reconciler}
Times == 0..MaxTime

Subscription == [plan : Plans, end : Int]
Payment == [status : {"PENDING", "PAID", "FAILED", "EXPIRED"}, item : Items, by : Users,
            expiresAt : Nat, checked : SUBSET Times, paidAt : Times]
Check == [pc : {"asking", "answered", "locked", "read"}, payment : Payments, now : Times,
          answer : {"NOT_FOUND", "PAID", "REFUSED"}, current : Subscription \cup {None}]

Credit == [to : Users, until : Int]
Transfer == [answer : {"PAID", "REFUSED"}, by : Users]

ASSUME NoneAssumption ==
    /\ None \notin Subscription \cup Payment \cup Check \cup Credit \cup Transfer
    /\ Subscriptions \subseteq Subscription \cup {None}

(* A payment's "checked" is empty until it is checked for the first time,  *)
(* and not kept once it is settled, when nothing reads it any more; of the *)
(* period of a subscription only the end matters.                          *)
TypeOK ==
    /\ now \in Times
    /\ payment \in [Payments -> Payment \cup {None}]
    /\ subscription \in Subscription \cup {None}
    /\ credit \in [Payments -> Credit \cup {None}]
    /\ bank \in [Payments -> Transfer \cup {None}]
    /\ shown \in [Payments -> SUBSET Users]
    /\ checkout \in [Users -> [item : Items, at : Times] \cup {None}]
    /\ check \in [Checks -> Check \cup {None}]
    /\ failures \in 0..MaxFailures

Is(p, status) == payment[p] # None /\ payment[p].status = status
Open(p) == Is(p, "PENDING")
IsPlan(p) == payment[p].item \in Plans

(* creditUnits > 0 *)
Grants(p) == payment[p].item \notin Creditless

Fail == failures < MaxFailures /\ now < MaxTime /\ failures' = failures + 1

-----------------------------------------------------------------------------
Init ==
    /\ now = 0
    /\ \E plan \in Plans, u \in Users :
        payment = [p \in Payments |->
            IF p \notin Legacy THEN None
            ELSE [status |-> "PAID", item |-> plan, by |-> u, expiresAt |-> 0,
                  checked |-> {}, paidAt |-> 0]]
    /\ subscription \in Subscriptions
    /\ credit = [p \in Payments |-> None] /\ bank = [p \in Payments |-> None]
    /\ shown = [p \in Payments |-> {}]
    /\ checkout = [u \in Users |-> None] /\ check = [c \in Checks |-> None]
    /\ failures = 0

-----------------------------------------------------------------------------
(* createCheckout *)

(* findReusablePending: a plan's checkout may be another owner's, a pack's *)
(* is the member's own.                                                    *)
Reusable(u, item) ==
    {p \in Payments : /\ Open(p) /\ payment[p].item = item
                      /\ item \in Packs => payment[p].by = u
                      /\ payment[p].expiresAt > now + MinRemaining}

(* The newest checkout that can be reused is shown again. *)
FindCheckout(u, item) ==
    /\ checkout[u] = None
    /\ item \in Plans => u \in Owners
    /\ now + QrTtl + Grace + MinInterval < MaxTime
    /\ IF Reusable(u, item) = {}
       THEN /\ checkout' = [checkout EXCEPT ![u] = [item |-> item, at |-> now]]
            /\ UNCHANGED shown
       ELSE /\ \E p \in Reusable(u, item) :
                /\ \A q \in Reusable(u, item) : payment[q].expiresAt <= payment[p].expiresAt
                /\ shown' = [shown EXCEPT ![p] = @ \cup {u}]
            /\ UNCHANGED checkout
    /\ UNCHANGED <<now, payment, subscription, credit, bank, check, failures>>

(* The QR expires qrTtlMs after the time the request began. *)
CreateCheckout(u, p) ==
    /\ checkout[u] # None /\ payment[p] = None
    /\ payment' = [payment EXCEPT ![p] =
            [status |-> "PENDING", item |-> checkout[u].item, by |-> u,
             expiresAt |-> checkout[u].at + QrTtl, checked |-> {}, paidAt |-> 0]]
    /\ shown' = [shown EXCEPT ![p] = {u}]
    /\ checkout' = [checkout EXCEPT ![u] = None]
    /\ UNCHANGED <<now, subscription, credit, bank, check, failures>>

-----------------------------------------------------------------------------
(* The payer's bank: the whole amount, or REFUSED for a rejected transfer  *)
(* and for one of another amount, currency or receiver.                    *)
Pay(u, p) ==
    /\ u \in shown[p] /\ bank[p] = None
    /\ now <= payment[p].expiresAt + Grace
    /\ \E answer \in {"PAID", "REFUSED"} :
        bank' = [bank EXCEPT ![p] = [answer |-> answer, by |-> u]]
    /\ UNCHANGED <<now, payment, subscription, credit, shown, checkout, check, failures>>

Tick ==
    /\ now < MaxTime /\ now' = now + 1
    /\ UNCHANGED <<payment, subscription, credit, bank, shown, checkout, check, failures>>

-----------------------------------------------------------------------------
(* refresh *)

At(c, state) == check[c] # None /\ check[c].pc = state
Of(c) == check[c].payment
Becomes(c, state) == check' = [check EXCEPT ![c].pc = state]
Returns(c) == check' = [check EXCEPT ![c] = None]

\* Mutant: a payment that was ever checked is not checked again.
TooSoonForEver(p) == payment[p].checked # {}

TooSoon(p) == \E t \in payment[p].checked : now - t < MinInterval

(* A PENDING payment is read, for a poll or in the reconciler's list, the  *)
(* time is taken, and Bakong is asked unless it was a moment ago.          *)
Ask(c, p) ==
    /\ check[c] = None
    /\ Open(p) /\ ~TooSoon(p)
    /\ check' = [check EXCEPT ![c] =
            [pc |-> "asking", payment |-> p, now |-> now, answer |-> "NOT_FOUND",
             current |-> None]]
    /\ UNCHANGED <<now, payment, subscription, credit, bank, shown, checkout, failures>>

(* Bakong answers, or the call fails and the payment is left as it is. *)
Lookup(c) ==
    /\ At(c, "asking")
    /\ \/ /\ check' = [check EXCEPT ![c] = [@ EXCEPT !.pc = "answered",
                !.answer = IF bank[Of(c)] = None THEN "NOT_FOUND" ELSE bank[Of(c)].answer]]
          /\ UNCHANGED failures
       \/ Fail /\ Returns(c)
    /\ UNCHANGED <<now, payment, subscription, credit, bank, shown, checkout>>

(* Row locks: the payment's, from activate's first statement to its end;   *)
(* the subscription's, if there is one, from when it is read.              *)
RowIsFree(p) == \A d \in Checks : At(d, "locked") \/ At(d, "read") => Of(d) # p

SubscriptionIsFree ==
    \A d \in Checks : ~(At(d, "read") /\ check[d].current # None)

\* Mutant: the time is looked at when Bakong has answered.
VerdictLate(c) ==
    CASE check[c].answer = "PAID" -> "PAID"
      [] check[c].answer = "REFUSED" -> "FAILED"
      [] check[c].answer = "NOT_FOUND" ->
            IF now > payment[Of(c)].expiresAt + Grace THEN "EXPIRED" ELSE "PENDING"

Verdict(c) ==
    CASE check[c].answer = "PAID" -> "PAID"
      [] check[c].answer = "REFUSED" -> "FAILED"
      [] check[c].answer = "NOT_FOUND" ->
            IF check[c].now > payment[Of(c)].expiresAt + Grace THEN "EXPIRED" ELSE "PENDING"

(* markChecked, and close, which does nothing to a payment that is no      *)
(* longer PENDING; or the return of one that is to stay PENDING.           *)
Close(c) ==
    /\ At(c, "answered") /\ Verdict(c) # "PAID" /\ RowIsFree(Of(c))
    /\ payment' = [payment EXCEPT ![Of(c)] = [@ EXCEPT
            !.checked = IF Open(Of(c)) /\ Verdict(c) = "PENDING" THEN {check[c].now} ELSE {},
            !.status = IF Open(Of(c)) THEN Verdict(c) ELSE payment[Of(c)].status]]
    /\ Returns(c)
    /\ UNCHANGED <<now, subscription, credit, bank, shown, checkout, failures>>

\* Mutant: activate does not look at the status of the row it locked.
LockAnyway(c) ==
    /\ At(c, "answered") /\ Verdict(c) = "PAID" /\ RowIsFree(Of(c))
    /\ Becomes(c, "locked") /\ UNCHANGED payment
    /\ UNCHANGED <<now, subscription, credit, bank, shown, checkout, failures>>

(* markChecked, and activate's select of the payment, for update: settled  *)
(* meanwhile, it is left alone.                                            *)
LockPayment(c) ==
    /\ At(c, "answered") /\ Verdict(c) = "PAID" /\ RowIsFree(Of(c))
    /\ IF Open(Of(c))
       THEN /\ payment' = [payment EXCEPT ![Of(c)].checked = {check[c].now}]
            /\ Becomes(c, "locked")
       ELSE Returns(c) /\ UNCHANGED payment
    /\ UNCHANGED <<now, subscription, credit, bank, shown, checkout, failures>>

\* Mutant: the subscription is read without a lock.
ReadUnlocked(c) ==
    /\ At(c, "locked")
    /\ check' = [check EXCEPT ![c] = [@ EXCEPT !.pc = "read", !.current = subscription]]
    /\ UNCHANGED <<now, payment, subscription, credit, bank, shown, checkout, failures>>

(* activate: the subscription, for update; a row that is not there cannot  *)
(* be locked.                                                              *)
ReadSubscription(c) ==
    /\ At(c, "locked")
    /\ IF IsPlan(Of(c))
       THEN /\ SubscriptionIsFree
            /\ check' = [check EXCEPT ![c] = [@ EXCEPT !.pc = "read",
                                                       !.current = subscription]]
       ELSE Becomes(c, "read")
    /\ UNCHANGED <<now, payment, subscription, credit, bank, shown, checkout, failures>>

Extends(current, plan, paidAt) ==
    current # None /\ current.plan = plan /\ current.end > paidAt

(* nextSubscriptionPeriod *)
NextPeriod(current, plan, paidAt) ==
    [plan |-> plan,
     end  |-> Period + (IF Extends(current, plan, paidAt) THEN current.end ELSE paidAt)]

(* grantPaymentCredits: to the member who opened the checkout, if there    *)
(* are any.  The unique index of the ledger makes a second grant a no-op.  *)
Grant(p, until) ==
    credit' = [credit EXCEPT ![p] =
        IF ~Grants(p) \/ @ # None THEN @
        ELSE [to |-> payment[p].by, until |-> IF IsPlan(p) THEN until ELSE 0]]

\* Mutant: the credits are left to the reconciler.
ActivateOnly(c) ==
    LET p == Of(c)
        period == NextPeriod(check[c].current, payment[p].item, check[c].now)
    IN  /\ At(c, "read")
        /\ payment' = [payment EXCEPT ![p] = [@ EXCEPT !.status = "PAID", !.checked = {},
                                                       !.paidAt = check[c].now]]
        /\ subscription' = IF IsPlan(p) THEN period ELSE subscription
        /\ Returns(c)
        /\ UNCHANGED <<now, credit, bank, shown, checkout, failures>>

(* The commit of activate: payment, subscription and credits together. *)
Activate(c) ==
    LET p == Of(c)
        period == NextPeriod(check[c].current, payment[p].item, check[c].now)
    IN  /\ At(c, "read")
        /\ payment' = [payment EXCEPT ![p] = [@ EXCEPT !.status = "PAID", !.checked = {},
                                                       !.paidAt = check[c].now]]
        /\ subscription' = IF IsPlan(p) THEN period ELSE subscription
        /\ Grant(p, period.end)
        /\ Returns(c)
        /\ UNCHANGED <<now, bank, shown, checkout, failures>>

(* A statement fails or the server stops: the transaction is rolled back. *)
Abort(c) ==
    /\ Fail /\ check[c] # None
    /\ Returns(c)
    /\ UNCHANGED <<now, payment, subscription, credit, bank, shown, checkout>>

(* grantMissingCredits, of the reconciler: payments PAID without the grant *)
(* they are to have.  A plan's credits last one period from the payment.   *)
GrantMissing(p) ==
    /\ Is(p, "PAID") /\ Grants(p) /\ credit[p] = None
    /\ Grant(p, payment[p].paidAt + Period)
    /\ UNCHANGED <<now, payment, subscription, bank, shown, checkout, check, failures>>

-----------------------------------------------------------------------------
Advance(c) == \/ Lookup(c) \/ Close(c) \/ LockPayment(c)
              \/ ReadSubscription(c) \/ Activate(c)

Next ==
    \/ \E u \in Users : \/ \E item \in Items : FindCheckout(u, item)
                        \/ \E p \in Payments : CreateCheckout(u, p) \/ Pay(u, p)
    \/ \E c \in Checks : Advance(c) \/ Abort(c) \/ \E p \in Payments : Ask(c, p)
    \/ \E p \in Payments : GrantMissing(p)
    \/ Tick

Spec == Init /\ [][Next]_vars

(* Time passes, requests go on, and reconcilePending, on its timer, comes  *)
(* to every pending payment in turn.                                       *)
Fairness ==
    /\ WF_vars(Tick)
    /\ \A c \in Checks : WF_vars(Advance(c))
    /\ \A p \in Payments : SF_vars(Ask(Reconciler, p)) /\ WF_vars(GrantMissing(p))

FairSpec == Spec /\ Fairness

-----------------------------------------------------------------------------
(* Properties.                                                             *)

(* The bank has the whole amount. *)
HasMoney(p) == bank[p] # None /\ bank[p].answer = "PAID"

(* "A payer who scanned just before expiry": money that arrived within the *)
(* grace period is never answered by closing the payment, however long the *)
(* lookup and the statements after it take.                                *)
PaidIsHonoured ==
    \A p \in Payments : HasMoney(p) => Is(p, "PENDING") \/ Is(p, "PAID")

StaysSettled(p) ==
    payment[p] # None /\ ~Open(p) =>
        /\ payment'[p].status = payment[p].status /\ payment'[p].paidAt = payment[p].paidAt
        /\ credit[p] # None => credit'[p] = credit[p]

MovesWithPayment ==
    subscription' # subscription => \E p \in Payments : Open(p) /\ payment'[p].status = "PAID"

(* A payment is settled once: polls and the reconciler that find it settled *)
(* change neither it nor its credits, and the subscription moves only with *)
(* a payment that becomes PAID in the same step.                           *)
SettledForGood == [][MovesWithPayment /\ \A p \in Payments : StaysSettled(p)]_vars

(* PAID and credited are one commit, apart from payments made before       *)
(* payments granted credits and plans that have none; plan credits, also   *)
(* those the reconciler makes up for, last a whole period from the payment *)
(* at least.                                                               *)
PaidIsCredited ==
    \A p \in Payments :
        /\ p \notin Legacy => (Is(p, "PAID") /\ Grants(p) <=> credit[p] # None)
        /\ credit[p] # None =>
              /\ Is(p, "PAID")
              /\ IsPlan(p) => credit[p].until >= payment[p].paidAt + Period

AddsItsPeriod(p) ==
    Open(p) /\ payment'[p].status = "PAID" /\ IsPlan(p) =>
        subscription' = NextPeriod(subscription, payment[p].item, payment'[p].paidAt)

(* "Paying for the plan that is already active extends it by 30 days":     *)
(* every plan payment is worth a whole period, on top of what is there     *)
(* when it is settled.                                                     *)
NoPeriodLost == [][\A p \in Payments : AddsItsPeriod(p)]_vars

(* However many polls and passes meet over a payment, PAID comes once and  *)
(* with its credits, and what is settled stays.                            *)
PaidOnceAndForGood == [](TypeOK /\ PaidIsCredited) /\ SettledForGood

(* "An outage never loses a payment": once the bank has the money, the     *)
(* payment ends PAID, whatever calls failed and whoever stopped polling.   *)
EveryPaymentArrives ==
    \A p \in Payments \ Legacy : HasMoney(p) ~> Is(p, "PAID")

(* No checkout stays open for ever, and PAID ones, old ones too, end       *)
(* credited if they are for credits.                                       *)
EveryCheckoutEnds ==
    \A p \in Payments :
        payment[p] # None ~> ~Open(p) /\ (Is(p, "PAID") /\ Grants(p) => credit[p] # None)

(* Every checkout comes to an end, and to the right one for money that     *)
(* arrived (reconcilePending and the polls of the checkout's page).        *)
PaymentsEnd == EveryPaymentArrives /\ EveryCheckoutEnds
=============================================================================
