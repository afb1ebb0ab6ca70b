---------------------------- MODULE PaymentsProofs ----------------------------
(***************************************************************************)
(* Theorems about the payments side of the server: Payments, what a        *)
(* checkout costs under changing settings (CheckoutTerms), what Bakong's   *)
(* answers mean (BakongGateway), and the life of the process (ServerLife). *)
(* The four share no variable.                                             *)
(***************************************************************************)
EXTENDS Payments, CheckoutTerms, BakongGateway, ServerLife, FiniteSetTheorems, TLAPS

-----------------------------------------------------------------------------
(***************************************************************************)
(* Payments: any number of payments, members and polls, any times and any  *)
(* number of failures.                                                     *)
(***************************************************************************)

(* A payment that is not there has no past. *)
NoRowNoPast ==
    \A p \in Payments :
        /\ payment[p] = None => bank[p] = None /\ credit[p] = None /\ shown[p] = {}
        /\ p \in Legacy => Is(p, "PAID") /\ shown[p] = {} /\ bank[p] = None

(* What a check has been told is still so, and was asked about in time. *)
Told(c) ==
    /\ payment[Of(c)] # None /\ Of(c) \notin Legacy
    /\ check[c].now <= now
    /\ At(c, "asking") => check[c].answer = "NOT_FOUND"
    /\ check[c].answer = "PAID" => HasMoney(Of(c))
    /\ check[c].answer = "REFUSED" => bank[Of(c)] # None /\ bank[Of(c)].answer = "REFUSED"
    /\ At(c, "answered") /\ Verdict(c) = "EXPIRED" => bank[Of(c)] = None

ChecksToldTrue == \A c \in Checks : check[c] # None => Told(c)

(* Who has the row of a payment locked has it alone, and it is PENDING. *)
Locks(c) == At(c, "locked") \/ At(c, "read")

RowLocks ==
    \A c \in Checks : Locks(c) =>
        /\ Open(Of(c)) /\ check[c].answer = "PAID"
        /\ \A d \in Checks : Locks(d) /\ Of(d) = Of(c) => d = c

(* What a payment ended as agrees with the bank. *)
EndsAgree ==
    \A p \in Payments :
        /\ Is(p, "FAILED") => bank[p] # None /\ bank[p].answer = "REFUSED"
        /\ Is(p, "EXPIRED") => bank[p] = None /\ payment[p].expiresAt + Grace < now

PaymentsInv ==
    /\ TypeOK /\ NoRowNoPast /\ ChecksToldTrue /\ RowLocks /\ EndsAgree /\ PaidIsCredited

(* With a subscription from the start: it is never gone, and a plan's      *)
(* payment about to be activated has it as it is, and alone.               *)
SubscriptionLock ==
    /\ subscription # None
    /\ \A c \in Checks :
        /\ At(c, "read") /\ IsPlan(Of(c)) => check[c].current = subscription
        /\ At(c, "read") /\ ~IsPlan(Of(c)) => check[c].current = None
        /\ check[c] # None /\ ~At(c, "read") => check[c].current = None
    /\ \A c, d \in Checks :
        (At(c, "read") /\ check[c].current # None /\ At(d, "read") /\ check[d].current # None) => c = d

-----------------------------------------------------------------------------
(* The invariant holds initially. *)
LEMMA PaymentsInitEstablishes == Init => PaymentsInv
<1> SUFFICES ASSUME Init PROVE PaymentsInv
  OBVIOUS
<1> USE TimesAssumption, NamesAssumption, NoneAssumption
<1>1. TypeOK
  BY DEF Init, TypeOK, Times, Payment, Items
<1>2. NoRowNoPast /\ ChecksToldTrue /\ RowLocks /\ EndsAgree /\ PaidIsCredited
  BY DEF Init, NoRowNoPast, ChecksToldTrue, RowLocks, Locks, EndsAgree, PaidIsCredited, Is, At,
         Times, Payment, Items
<1> QED
  BY <1>1, <1>2 DEF PaymentsInv

(* Every step keeps the types. *)
LEMMA PaymentTypesKept == PaymentsInv /\ [Next]_vars => TypeOK'
<1> SUFFICES ASSUME PaymentsInv, [Next]_vars PROVE TypeOK'
  OBVIOUS
<1> USE TimesAssumption, NamesAssumption, NoneAssumption
    DEF PaymentsInv, TypeOK, Times, Items
<1>1. ASSUME NEW u \in Users, NEW item \in Items, FindCheckout(u, item) PROVE TypeOK'
  BY <1>1 DEF FindCheckout, Reusable
<1>2. ASSUME NEW u \in Users, NEW p \in Payments, CreateCheckout(u, p) PROVE TypeOK'
  BY <1>2 DEF CreateCheckout, Payment
<1>3. ASSUME NEW u \in Users, NEW p \in Payments, Pay(u, p) PROVE TypeOK'
  BY <1>3 DEF Pay, Transfer
<1>4. ASSUME NEW c \in Checks, NEW p \in Payments, Ask(c, p) PROVE TypeOK'
  BY <1>4 DEF Ask, Check
<1>5. ASSUME NEW c \in Checks, Lookup(c) PROVE TypeOK'
  <2>1. check[c] \in Check /\ Of(c) \in Payments
    BY <1>5 DEF Lookup, At, Of, Check
  <2>2. bank[Of(c)] # None => bank[Of(c)].answer \in {"PAID", "REFUSED"}
    BY <2>1 DEF Transfer
  <2>3. \A a \in {"NOT_FOUND", "PAID", "REFUSED"} :
            [check[c] EXCEPT !.pc = "answered", !.answer = a] \in Check
    BY <2>1 DEF Check
  <2>4. check' \in [Checks -> Check \cup {None}]
    <3>1. CASE UNCHANGED failures
      <4>1. PICK a \in {"NOT_FOUND", "PAID", "REFUSED"} :
                \/ check' = [check EXCEPT ![c] = [check[c] EXCEPT !.pc = "answered", !.answer = a]]
                \/ check' = [check EXCEPT ![c] = None]
        BY <1>5, <2>2 DEF Lookup, Returns
      <4> QED
        BY <4>1, <2>3
    <3>2. CASE Returns(c)
      BY <3>2 DEF Returns
    <3> QED
      BY <1>5, <3>1, <3>2 DEF Lookup
  <2> QED
    BY <1>5, <2>4 DEF Lookup, Fail
<1>6. ASSUME NEW c \in Checks, Close(c) PROVE TypeOK'
  <2>1. check[c] \in Check /\ Of(c) \in Payments /\ payment[Of(c)] \in Payment
    BY <1>6 DEF Close, At, Of, Check, ChecksToldTrue, Told
  <2>2. Verdict(c) \in {"FAILED", "EXPIRED", "PENDING"}
    BY <1>6, <2>1 DEF Close, Verdict, Check
  <2>3. \A k \in SUBSET Times, s \in {"FAILED", "EXPIRED", "PENDING", payment[Of(c)].status} :
            [payment[Of(c)] EXCEPT !.checked = k, !.status = s] \in Payment
    BY <2>1 DEF Payment
  <2>4. check[c].now \in Times
    BY <2>1 DEF Check
  <2>5. payment' \in [Payments -> Payment \cup {None}]
    <3> DEFINE k == IF Open(Of(c)) /\ Verdict(c) = "PENDING" THEN {check[c].now} ELSE {}
    <3> DEFINE s == IF Open(Of(c)) THEN Verdict(c) ELSE payment[Of(c)].status
    <3>1. payment' = [payment EXCEPT ![Of(c)] =
                            [payment[Of(c)] EXCEPT !.checked = k, !.status = s]]
      BY <1>6, <2>1 DEF Close, Payment
    <3>2. k \in SUBSET Times /\ s \in {"FAILED", "EXPIRED", "PENDING", payment[Of(c)].status}
      BY <2>2, <2>4
    <3> HIDE DEF k, s
    <3> QED
      BY <3>1, <3>2, <2>3
  <2> QED
    BY <1>6, <2>5 DEF Close, Returns
<1>7. ASSUME NEW c \in Checks, LockPayment(c) PROVE TypeOK'
  <2>1. check[c] \in Check /\ Of(c) \in Payments /\ payment[Of(c)] \in Payment
    BY <1>7 DEF LockPayment, At, Of, Check, ChecksToldTrue, Told
  <2> QED
    BY <1>7, <2>1 DEF LockPayment, Becomes, Returns, Payment, Check
<1>8. ASSUME NEW c \in Checks, ReadSubscription(c) PROVE TypeOK'
  <2>1. check[c] \in Check
    BY <1>8 DEF ReadSubscription, At
  <2>2. \A s \in Subscription \cup {None} :
            /\ [check[c] EXCEPT !.pc = "read", !.current = s] \in Check
            /\ [check[c] EXCEPT !.pc = "read"] \in Check
    BY <2>1 DEF Check
  <2>3. check' \in [Checks -> Check \cup {None}]
    BY <1>8, <2>2 DEF ReadSubscription, Becomes
  <2> QED
    BY <1>8, <2>3 DEF ReadSubscription
<1>9. ASSUME NEW c \in Checks, Activate(c) PROVE TypeOK'
  <2>1. check[c] \in Check /\ Of(c) \in Payments /\ payment[Of(c)] \in Payment
    BY <1>9 DEF Activate, At, Of, Check, ChecksToldTrue, Told
  <2> DEFINE period == NextPeriod(check[c].current, payment[Of(c)].item, check[c].now)
  <2>2. period.end \in Int /\ (IsPlan(Of(c)) => period \in Subscription)
    BY <2>1 DEF NextPeriod, Extends, Check, Subscription, IsPlan, Payment
  <2>3. credit' \in [Payments -> Credit \cup {None}]
    BY <1>9, <2>1, <2>2 DEF Activate, Grant, Credit, Payment
  <2>4. payment' \in [Payments -> Payment \cup {None}]
    BY <1>9, <2>1 DEF Activate, Payment, Check
  <2> QED
    BY <1>9, <2>2, <2>3, <2>4 DEF Activate, Returns
<1>10. ASSUME NEW c \in Checks, Abort(c) PROVE TypeOK'
  BY <1>10 DEF Abort, Fail, Returns
<1>11. ASSUME NEW p \in Payments, GrantMissing(p) PROVE TypeOK'
  BY <1>11 DEF GrantMissing, Grant, Credit, Payment, Is
<1>12. CASE Tick
  BY <1>12 DEF Tick
<1>13. CASE UNCHANGED vars
  BY <1>13 DEF vars
<1> QED
  BY <1>1, <1>2, <1>3, <1>4, <1>5, <1>6, <1>7, <1>8, <1>9, <1>10, <1>11, <1>12, <1>13
  DEF Next, Advance

-----------------------------------------------------------------------------
(* What a step may do to a payment, to its credits, to what the bank knows *)
(* of it, and to a check.                                                  *)
RowStep(p) ==
    \/ payment'[p] = payment[p]
    \/ payment[p] = None /\ payment'[p] # None /\ payment'[p].status = "PENDING"
    \/ /\ payment[p] # None /\ payment'[p] # None
       /\ payment'[p].item = payment[p].item /\ payment'[p].expiresAt = payment[p].expiresAt
       /\ \/ payment'[p].status = payment[p].status /\ payment'[p].paidAt = payment[p].paidAt
          \/ /\ Open(p)
             /\ \E c \in Checks : /\ At(c, "answered") /\ Of(c) = p /\ RowIsFree(p)
                                  /\ Verdict(c) # "PAID" /\ payment'[p].status = Verdict(c)
          \/ \E c \in Checks : /\ Activate(c) /\ Of(c) = p
                               /\ payment'[p].status = "PAID"
                               /\ payment'[p].paidAt = check[c].now

CreditStep(p) ==
    \/ credit'[p] = credit[p]
    \/ /\ credit[p] = None /\ credit'[p] # None
       /\ Grants(p)
       /\ \/ \E c \in Checks : /\ Activate(c) /\ Of(c) = p
                               /\ IsPlan(p) => credit'[p].until =
                                    NextPeriod(check[c].current, payment[p].item, check[c].now).end
          \/ GrantMissing(p) /\ (IsPlan(p) => credit'[p].until = payment[p].paidAt + Period)

BankStep(p) ==
    \/ bank'[p] = bank[p]
    \/ /\ bank[p] = None /\ shown[p] # {} /\ now <= payment[p].expiresAt + Grace
       /\ UNCHANGED <<now, payment, check>>

CheckStep(c) ==
    \/ check'[c] = check[c]
    \/ check'[c] = None
    \/ /\ check[c] = None /\ check'[c] # None
       /\ check'[c].pc = "asking" /\ check'[c].answer = "NOT_FOUND" /\ check'[c].now = now
       /\ Open(check'[c].payment) /\ UNCHANGED <<now, payment, bank>>
    \/ /\ check[c] # None /\ check'[c] # None
       /\ check'[c].payment = Of(c) /\ check'[c].now = check[c].now
       /\ UNCHANGED <<now, bank>>
       /\ \/ /\ At(c, "asking") /\ check'[c].pc = "answered" /\ UNCHANGED payment
             /\ check'[c].answer =
                    IF bank[Of(c)] = None THEN "NOT_FOUND" ELSE bank[Of(c)].answer
          \/ /\ At(c, "answered") /\ check'[c].pc = "locked" /\ check[c].answer = "PAID"
             /\ check'[c].answer = check[c].answer /\ RowIsFree(Of(c))
             /\ Open(Of(c)) /\ payment'[Of(c)].status = "PENDING"
          \/ /\ At(c, "locked") /\ check'[c].pc = "read" /\ UNCHANGED payment
             /\ check'[c].answer = check[c].answer

(* What a step does to a payment. *)
LEMMA RowSteps == PaymentsInv /\ [Next]_vars => \A p \in Payments : RowStep(p)
<1> SUFFICES ASSUME PaymentsInv, [Next]_vars PROVE \A q \in Payments : RowStep(q)
  OBVIOUS
<1> USE TimesAssumption, NamesAssumption, NoneAssumption
    DEF PaymentsInv, TypeOK, RowStep
<1>1. ASSUME NEW u \in Users, NEW item \in Items, FindCheckout(u, item) PROVE \A q \in Payments : RowStep(q)
  BY <1>1 DEF FindCheckout, Reusable
<1>2. ASSUME NEW u \in Users, NEW p \in Payments, CreateCheckout(u, p) PROVE \A q \in Payments : RowStep(q)
  BY <1>2 DEF CreateCheckout, RowStep
<1>3. ASSUME NEW u \in Users, NEW p \in Payments, Pay(u, p) PROVE \A q \in Payments : RowStep(q)
  BY <1>3 DEF Pay
<1>4. ASSUME NEW c \in Checks, NEW p \in Payments, Ask(c, p) PROVE \A q \in Payments : RowStep(q)
  BY <1>4 DEF Ask
<1>5. ASSUME NEW c \in Checks, Lookup(c) PROVE \A q \in Payments : RowStep(q)
  BY <1>5 DEF Lookup
<1>6. ASSUME NEW c \in Checks, Close(c) PROVE \A q \in Payments : RowStep(q)
  <2>1. check[c] \in Check /\ Of(c) \in Payments /\ payment[Of(c)] \in Payment
    BY <1>6 DEF Close, At, Of, Check, ChecksToldTrue, Told
  <2>2. ASSUME NEW p \in Payments, p # Of(c) PROVE payment'[p] = payment[p]
    BY <1>6, <2>2 DEF Close
  <2>3. /\ payment'[Of(c)] # None
        /\ payment'[Of(c)].item = payment[Of(c)].item
        /\ payment'[Of(c)].expiresAt = payment[Of(c)].expiresAt
        /\ payment'[Of(c)].paidAt = payment[Of(c)].paidAt
        /\ payment'[Of(c)].status = IF Open(Of(c)) THEN Verdict(c) ELSE payment[Of(c)].status
    <3> DEFINE k == IF Open(Of(c)) /\ Verdict(c) = "PENDING" THEN {check[c].now} ELSE {}
    <3> DEFINE s == IF Open(Of(c)) THEN Verdict(c) ELSE payment[Of(c)].status
    <3> DEFINE new == [payment[Of(c)] EXCEPT !.checked = k, !.status = s]
    <3>1. payment'[Of(c)] = new
      BY <1>6, <2>1 DEF Close
    <3>2. payment'[Of(c)] \in Payment \cup {None}
      BY <2>1, PaymentTypesKept
    <3> HIDE DEF k
    <3>3. new.status = s
      BY <2>1 DEF Payment
    <3> HIDE DEF s
    <3>4. /\ new.item = payment[Of(c)].item /\ new.expiresAt = payment[Of(c)].expiresAt
          /\ new.paidAt = payment[Of(c)].paidAt /\ new # None
      <4>1. k \in SUBSET Times /\ s \in {"FAILED", "EXPIRED", "PENDING", "PAID"}
        BY <1>6, <2>1 DEF k, s, Close, Verdict, Check, Payment
      <4>2. new \in Payment
        BY <2>1, <4>1 DEF Payment
      <4> QED
        BY <2>1, <4>2 DEF Payment
    <3> QED
      BY <3>1, <3>3, <3>4 DEF s
  <2> QED
    BY <1>6, <2>1, <2>2, <2>3 DEF Close, RowStep
<1>7. ASSUME NEW c \in Checks, LockPayment(c) PROVE \A q \in Payments : RowStep(q)
  <2>1. check[c] \in Check /\ Of(c) \in Payments /\ payment[Of(c)] \in Payment
    BY <1>7 DEF LockPayment, At, Of, Check, ChecksToldTrue, Told
  <2>2. ASSUME NEW p \in Payments, p # Of(c) PROVE payment'[p] = payment[p]
    BY <1>7, <2>2 DEF LockPayment
  <2>3. CASE payment' = payment
    BY <2>3 DEF RowStep
  <2>4. CASE payment' # payment
    <3> DEFINE new == [payment[Of(c)] EXCEPT !.checked = {check[c].now}]
    <3>1. payment'[Of(c)] = new
      BY <1>7, <2>1, <2>4 DEF LockPayment
    <3>2. new \in Payment /\ new.item = payment[Of(c)].item
          /\ new.expiresAt = payment[Of(c)].expiresAt
          /\ new.paidAt = payment[Of(c)].paidAt /\ new.status = payment[Of(c)].status
      BY <2>1 DEF Payment, Check
    <3>3. payment[Of(c)] # None /\ new # None
      BY <2>1, <3>2
    <3> HIDE DEF new
    <3>4. RowStep(Of(c))
      BY <3>1, <3>2, <3>3 DEF RowStep
    <3> QED
      BY <2>2, <3>4 DEF RowStep
  <2> QED
    BY <2>3, <2>4
<1>8. ASSUME NEW c \in Checks, ReadSubscription(c) PROVE \A q \in Payments : RowStep(q)
  BY <1>8 DEF ReadSubscription
<1>9. ASSUME NEW c \in Checks, Activate(c) PROVE \A q \in Payments : RowStep(q)
  <2>1. check[c] \in Check /\ Of(c) \in Payments /\ payment[Of(c)] \in Payment
    BY <1>9 DEF Activate, At, Of, Check, ChecksToldTrue, Told
  <2>2. ASSUME NEW p \in Payments, p # Of(c) PROVE payment'[p] = payment[p]
    BY <1>9, <2>2 DEF Activate
  <2>3. /\ payment'[Of(c)].item = payment[Of(c)].item
        /\ payment'[Of(c)].expiresAt = payment[Of(c)].expiresAt
        /\ payment'[Of(c)].paidAt = check[c].now
        /\ payment'[Of(c)].status = "PAID" /\ payment'[Of(c)] \in Payment
    BY <1>9, <2>1 DEF Activate, Payment, Check
  <2> QED
    BY <1>9, <2>1, <2>2, <2>3 DEF RowStep
<1>10. ASSUME NEW c \in Checks, Abort(c) PROVE \A q \in Payments : RowStep(q)
  BY <1>10 DEF Abort
<1>11. ASSUME NEW p \in Payments, GrantMissing(p) PROVE \A q \in Payments : RowStep(q)
  BY <1>11 DEF GrantMissing
<1>12. CASE Tick
  BY <1>12 DEF Tick
<1>13. CASE UNCHANGED vars
  BY <1>13 DEF vars
<1> QED
  BY <1>1, <1>2, <1>3, <1>4, <1>5, <1>6, <1>7, <1>8, <1>9, <1>10, <1>11, <1>12, <1>13
  DEF Next, Advance

(* What a step does to credits. *)
LEMMA CreditSteps == PaymentsInv /\ [Next]_vars => \A p \in Payments : CreditStep(p)
<1> SUFFICES ASSUME PaymentsInv, [Next]_vars PROVE \A q \in Payments : CreditStep(q)
  OBVIOUS
<1> USE TimesAssumption, NamesAssumption, NoneAssumption
    DEF PaymentsInv, TypeOK, CreditStep
<1>1. ASSUME NEW u \in Users, NEW item \in Items, FindCheckout(u, item) PROVE \A q \in Payments : CreditStep(q)
  BY <1>1 DEF FindCheckout, Reusable
<1>2. ASSUME NEW u \in Users, NEW p \in Payments, CreateCheckout(u, p) PROVE \A q \in Payments : CreditStep(q)
  BY <1>2 DEF CreateCheckout
<1>3. ASSUME NEW u \in Users, NEW p \in Payments, Pay(u, p) PROVE \A q \in Payments : CreditStep(q)
  BY <1>3 DEF Pay
<1>4. ASSUME NEW c \in Checks, NEW p \in Payments, Ask(c, p) PROVE \A q \in Payments : CreditStep(q)
  BY <1>4 DEF Ask
<1>5. ASSUME NEW c \in Checks, Lookup(c) PROVE \A q \in Payments : CreditStep(q)
  BY <1>5 DEF Lookup
<1>6. ASSUME NEW c \in Checks, Close(c) PROVE \A q \in Payments : CreditStep(q)
  BY <1>6 DEF Close
<1>7. ASSUME NEW c \in Checks, LockPayment(c) PROVE \A q \in Payments : CreditStep(q)
  BY <1>7 DEF LockPayment
<1>8. ASSUME NEW c \in Checks, ReadSubscription(c) PROVE \A q \in Payments : CreditStep(q)
  BY <1>8 DEF ReadSubscription
<1>9. ASSUME NEW c \in Checks, Activate(c) PROVE \A q \in Payments : CreditStep(q)
  <2>1. check[c] \in Check /\ Of(c) \in Payments /\ payment[Of(c)] \in Payment
    BY <1>9 DEF Activate, At, Of, Check, ChecksToldTrue, Told
  <2> DEFINE period == NextPeriod(check[c].current, payment[Of(c)].item, check[c].now)
  <2>2. /\ \A p \in Payments : p # Of(c) => credit'[p] = credit[p]
        /\ ~Grants(Of(c)) \/ credit[Of(c)] # None => credit'[Of(c)] = credit[Of(c)]
        /\ Grants(Of(c)) /\ credit[Of(c)] = None => credit'[Of(c)] =
                [to |-> payment[Of(c)].by, until |-> IF IsPlan(Of(c)) THEN period.end ELSE 0]
    BY <1>9, <2>1 DEF Activate, Grant
  <2>3. payment[Of(c)].by \in Users /\ period.end \in Int
    BY <2>1 DEF Payment, NextPeriod, Extends, Check, Subscription, Times
  <2>4. Grants(Of(c)) /\ credit[Of(c)] = None =>
            /\ credit'[Of(c)] \in Credit
            /\ IsPlan(Of(c)) => credit'[Of(c)].until = period.end
    BY <2>2, <2>3 DEF Credit
  <2> QED
    BY <1>9, <2>1, <2>2, <2>4 DEF CreditStep
<1>10. ASSUME NEW c \in Checks, Abort(c) PROVE \A q \in Payments : CreditStep(q)
  BY <1>10 DEF Abort
<1>11. ASSUME NEW p \in Payments, GrantMissing(p) PROVE \A q \in Payments : CreditStep(q)
  <2>1. payment[p] \in Payment
    BY <1>11 DEF GrantMissing, Is
  <2>2. /\ \A q \in Payments : q # p => credit'[q] = credit[q]
        /\ credit'[p] = [to |-> payment[p].by,
                         until |-> IF IsPlan(p) THEN payment[p].paidAt + Period ELSE 0]
    BY <1>11 DEF GrantMissing, Grant
  <2>3. credit'[p] \in Credit
    BY <2>1, <2>2 DEF Credit, Payment, Times
  <2> QED
    BY <1>11, <2>2, <2>3 DEF CreditStep, GrantMissing
<1>12. CASE Tick
  BY <1>12 DEF Tick
<1>13. CASE UNCHANGED vars
  BY <1>13 DEF vars
<1> QED
  BY <1>1, <1>2, <1>3, <1>4, <1>5, <1>6, <1>7, <1>8, <1>9, <1>10, <1>11, <1>12, <1>13
  DEF Next, Advance

(* What a step does to what the bank knows. *)
LEMMA BankSteps == PaymentsInv /\ [Next]_vars => \A p \in Payments : BankStep(p)
<1> SUFFICES ASSUME PaymentsInv, [Next]_vars PROVE \A q \in Payments : BankStep(q)
  OBVIOUS
<1> USE TimesAssumption, NamesAssumption, NoneAssumption
    DEF PaymentsInv, TypeOK, BankStep
<1>1. ASSUME NEW u \in Users, NEW item \in Items, FindCheckout(u, item) PROVE \A q \in Payments : BankStep(q)
  BY <1>1 DEF FindCheckout, Reusable
<1>2. ASSUME NEW u \in Users, NEW p \in Payments, CreateCheckout(u, p) PROVE \A q \in Payments : BankStep(q)
  BY <1>2 DEF CreateCheckout
<1>3. ASSUME NEW u \in Users, NEW p \in Payments, Pay(u, p) PROVE \A q \in Payments : BankStep(q)
  BY <1>3 DEF Pay
<1>4. ASSUME NEW c \in Checks, NEW p \in Payments, Ask(c, p) PROVE \A q \in Payments : BankStep(q)
  BY <1>4 DEF Ask
<1>5. ASSUME NEW c \in Checks, Lookup(c) PROVE \A q \in Payments : BankStep(q)
  BY <1>5 DEF Lookup
<1>6. ASSUME NEW c \in Checks, Close(c) PROVE \A q \in Payments : BankStep(q)
  BY <1>6 DEF Close
<1>7. ASSUME NEW c \in Checks, LockPayment(c) PROVE \A q \in Payments : BankStep(q)
  BY <1>7 DEF LockPayment
<1>8. ASSUME NEW c \in Checks, ReadSubscription(c) PROVE \A q \in Payments : BankStep(q)
  BY <1>8 DEF ReadSubscription
<1>9. ASSUME NEW c \in Checks, Activate(c) PROVE \A q \in Payments : BankStep(q)
  BY <1>9 DEF Activate
<1>10. ASSUME NEW c \in Checks, Abort(c) PROVE \A q \in Payments : BankStep(q)
  BY <1>10 DEF Abort
<1>11. ASSUME NEW p \in Payments, GrantMissing(p) PROVE \A q \in Payments : BankStep(q)
  BY <1>11 DEF GrantMissing
<1>12. CASE Tick
  BY <1>12 DEF Tick
<1>13. CASE UNCHANGED vars
  BY <1>13 DEF vars
<1> QED
  BY <1>1, <1>2, <1>3, <1>4, <1>5, <1>6, <1>7, <1>8, <1>9, <1>10, <1>11, <1>12, <1>13
  DEF Next, Advance

(* What a step does to a check. *)
LEMMA CheckSteps == PaymentsInv /\ [Next]_vars => \A c \in Checks : CheckStep(c)
<1> SUFFICES ASSUME PaymentsInv, [Next]_vars PROVE \A d \in Checks : CheckStep(d)
  OBVIOUS
<1> USE TimesAssumption, NamesAssumption, NoneAssumption
    DEF PaymentsInv, TypeOK, CheckStep
<1>1. ASSUME NEW u \in Users, NEW item \in Items, FindCheckout(u, item) PROVE \A d \in Checks : CheckStep(d)
  BY <1>1 DEF FindCheckout, Reusable
<1>2. ASSUME NEW u \in Users, NEW p \in Payments, CreateCheckout(u, p) PROVE \A d \in Checks : CheckStep(d)
  BY <1>2 DEF CreateCheckout
<1>3. ASSUME NEW u \in Users, NEW p \in Payments, Pay(u, p) PROVE \A d \in Checks : CheckStep(d)
  BY <1>3 DEF Pay
<1>4. ASSUME NEW c \in Checks, NEW p \in Payments, Ask(c, p) PROVE \A d \in Checks : CheckStep(d)
  <2>1. /\ check'[c] = [pc |-> "asking", payment |-> p, now |-> now, answer |-> "NOT_FOUND",
                       current |-> None]
        /\ \A d \in Checks : d # c => check'[d] = check[d]
    BY <1>4 DEF Ask
  <2>2. check'[c] \in Check
    BY <1>4, <2>1, PaymentTypesKept DEF Ask, Check
  <2> QED
    BY <1>4, <2>1, <2>2 DEF Ask, CheckStep
<1>5. ASSUME NEW c \in Checks, Lookup(c) PROVE \A d \in Checks : CheckStep(d)
  <2>1. check[c] \in Check /\ Of(c) \in Payments /\ payment[Of(c)] \in Payment
    BY <1>5 DEF Lookup, At, Of, Check, ChecksToldTrue, Told
  <2>2. CASE Returns(c)
    BY <1>5, <2>2 DEF Returns, CheckStep
  <2>3. CASE ~Returns(c)
    <3> DEFINE a == IF bank[Of(c)] = None THEN "NOT_FOUND" ELSE bank[Of(c)].answer
    <3>1. /\ check'[c] = [check[c] EXCEPT !.pc = "answered", !.answer = a]
          /\ \A d \in Checks : d # c => check'[d] = check[d]
          /\ UNCHANGED <<now, payment, bank>>
      BY <1>5, <2>3 DEF Lookup
    <3>2. /\ check'[c] # None /\ check'[c].pc = "answered" /\ check'[c].answer = a
          /\ check'[c].payment = Of(c) /\ check'[c].now = check[c].now
      <4>1. a \in {"NOT_FOUND", "PAID", "REFUSED"}
        BY <2>1 DEF Transfer
      <4> HIDE DEF a
      <4> QED
        BY <2>1, <3>1, <4>1, ZenonT(60) DEF Check, Of
    <3> QED
      BY <1>5, <2>1, <3>1, <3>2 DEF Lookup, At, CheckStep
  <2> QED
    BY <2>2, <2>3
<1>6. ASSUME NEW c \in Checks, Close(c) PROVE \A d \in Checks : CheckStep(d)
  BY <1>6 DEF Close, Returns
<1>7. ASSUME NEW c \in Checks, LockPayment(c) PROVE \A d \in Checks : CheckStep(d)
  <2>1. check[c] \in Check /\ Of(c) \in Payments /\ payment[Of(c)] \in Payment
    BY <1>7 DEF LockPayment, At, Of, Check, ChecksToldTrue, Told
  <2>2. CASE ~Open(Of(c))
    BY <1>7, <2>2 DEF LockPayment, Returns, CheckStep
  <2>3. CASE Open(Of(c))
    <3>1. /\ check'[c] = [check[c] EXCEPT !.pc = "locked"]
          /\ \A d \in Checks : d # c => check'[d] = check[d]
          /\ payment'[Of(c)] = [payment[Of(c)] EXCEPT !.checked = {check[c].now}]
      BY <1>7, <2>1, <2>3 DEF LockPayment, Becomes
    <3>2. /\ check'[c] # None /\ check'[c].pc = "locked" /\ check'[c].answer = check[c].answer
          /\ check'[c].payment = Of(c) /\ check'[c].now = check[c].now
          /\ payment'[Of(c)].status = "PENDING"
      BY <2>1, <2>3, <3>1 DEF Check, Of, Payment, Open, Is
    <3>3. check[c].answer = "PAID"
      BY <1>7, <2>1 DEF LockPayment, Verdict, Check
    <3>4. At(c, "answered") /\ check[c] # None /\ RowIsFree(Of(c)) /\ UNCHANGED <<now, bank>>
      BY <1>7 DEF LockPayment, At
    <3>5. CheckStep(c)
      BY <2>3, <3>2, <3>3, <3>4 DEF CheckStep
    <3> QED
      BY <3>1, <3>5, ZenonT(60) DEF CheckStep
  <2> QED
    BY <2>2, <2>3
<1>8. ASSUME NEW c \in Checks, ReadSubscription(c) PROVE \A d \in Checks : CheckStep(d)
  <2>1. check[c] \in Check
    BY <1>8 DEF ReadSubscription, At
  <2>2. /\ At(c, "locked") /\ UNCHANGED <<now, payment, bank>>
        /\ \A d \in Checks : d # c => check'[d] = check[d]
    BY <1>8 DEF ReadSubscription, Becomes
  <2>3. /\ check'[c] # None /\ check'[c].pc = "read" /\ check'[c].answer = check[c].answer
        /\ check'[c].payment = Of(c) /\ check'[c].now = check[c].now
    <3>1. CASE IsPlan(Of(c))
      <4>1. check'[c] = [check[c] EXCEPT !.pc = "read", !.current = subscription]
        BY <1>8, <3>1 DEF ReadSubscription
      <4> QED
        BY <2>1, <4>1, ZenonT(60) DEF Check, Of
    <3>2. CASE ~IsPlan(Of(c))
      <4>1. check'[c] = [check[c] EXCEPT !.pc = "read"]
        BY <1>8, <3>2 DEF ReadSubscription, Becomes
      <4> QED
        BY <2>1, <4>1 DEF Check, Of
    <3> QED
      BY <3>1, <3>2
  <2>4. CheckStep(c)
    BY <2>1, <2>2, <2>3 DEF At, CheckStep
  <2> QED
    BY <2>2, <2>4 DEF CheckStep
<1>9. ASSUME NEW c \in Checks, Activate(c) PROVE \A d \in Checks : CheckStep(d)
  BY <1>9 DEF Activate, Returns
<1>10. ASSUME NEW c \in Checks, Abort(c) PROVE \A d \in Checks : CheckStep(d)
  BY <1>10 DEF Abort, Returns
<1>11. ASSUME NEW p \in Payments, GrantMissing(p) PROVE \A d \in Checks : CheckStep(d)
  BY <1>11 DEF GrantMissing
<1>12. CASE Tick
  BY <1>12 DEF Tick
<1>13. CASE UNCHANGED vars
  BY <1>13 DEF vars
<1> QED
  BY <1>1, <1>2, <1>3, <1>4, <1>5, <1>6, <1>7, <1>8, <1>9, <1>10, <1>11, <1>12, <1>13
  DEF Next, Advance

(* A step shows a checkout only while it is open. *)
LEMMA ShownSteps ==
    PaymentsInv /\ [Next]_vars =>
        \A p \in Payments : shown'[p] # shown[p] => p \notin Legacy /\ payment'[p] # None
<1> DEFINE ShownWhileOpen ==
             \A q \in Payments : shown'[q] # shown[q] => q \notin Legacy /\ payment'[q] # None
<1> SUFFICES ASSUME PaymentsInv, [Next]_vars PROVE ShownWhileOpen
  OBVIOUS
<1> USE TimesAssumption, NamesAssumption, NoneAssumption
    DEF PaymentsInv, TypeOK
<1>1. ASSUME NEW u \in Users, NEW item \in Items, FindCheckout(u, item) PROVE ShownWhileOpen
  BY <1>1 DEF FindCheckout, Reusable, NoRowNoPast, Open, Is
<1>2. ASSUME NEW u \in Users, NEW p \in Payments, CreateCheckout(u, p) PROVE ShownWhileOpen
  <2>1. /\ checkout[u] \in [item : Items, at : Times]
        /\ payment[p] = None /\ p \notin Legacy
        /\ \A q \in Payments : q # p => shown'[q] = shown[q]
    BY <1>2 DEF CreateCheckout, NoRowNoPast, Is
  <2>2. payment'[p] = [status |-> "PENDING", item |-> checkout[u].item, by |-> u,
                       expiresAt |-> checkout[u].at + QrTtl, checked |-> {}, paidAt |-> 0]
    BY <1>2 DEF CreateCheckout
  <2>3. payment'[p] \in Payment
    BY <2>1, <2>2 DEF Payment, Times
  <2> QED
    BY <2>1, <2>3
<1>3. ASSUME NEW u \in Users, NEW p \in Payments, Pay(u, p) PROVE ShownWhileOpen
  BY <1>3 DEF Pay
<1>4. ASSUME NEW c \in Checks, NEW p \in Payments, Ask(c, p) PROVE ShownWhileOpen
  BY <1>4 DEF Ask
<1>5. ASSUME NEW c \in Checks, Lookup(c) PROVE ShownWhileOpen
  BY <1>5 DEF Lookup
<1>6. ASSUME NEW c \in Checks, Close(c) PROVE ShownWhileOpen
  BY <1>6 DEF Close
<1>7. ASSUME NEW c \in Checks, LockPayment(c) PROVE ShownWhileOpen
  BY <1>7 DEF LockPayment
<1>8. ASSUME NEW c \in Checks, ReadSubscription(c) PROVE ShownWhileOpen
  BY <1>8 DEF ReadSubscription
<1>9. ASSUME NEW c \in Checks, Activate(c) PROVE ShownWhileOpen
  BY <1>9 DEF Activate
<1>10. ASSUME NEW c \in Checks, Abort(c) PROVE ShownWhileOpen
  BY <1>10 DEF Abort
<1>11. ASSUME NEW p \in Payments, GrantMissing(p) PROVE ShownWhileOpen
  BY <1>11 DEF GrantMissing
<1>12. CASE Tick
  BY <1>12 DEF Tick
<1>13. CASE UNCHANGED vars
  BY <1>13 DEF vars
<1> QED
  BY <1>1, <1>2, <1>3, <1>4, <1>5, <1>6, <1>7, <1>8, <1>9, <1>10, <1>11, <1>12, <1>13
  DEF Next, Advance

(* One check moves at a time, and time does not go back. *)
LEMMA OneMoves ==
    PaymentsInv /\ [Next]_vars =>
        /\ \A c, d \in Checks : check'[c] # check[c] /\ check'[d] # check[d] => c = d
        /\ now <= now'
<1> DEFINE OneAtATime ==
             /\ \A a, b \in Checks : check'[a] # check[a] /\ check'[b] # check[b] => a = b
             /\ now <= now'
<1> SUFFICES ASSUME PaymentsInv, [Next]_vars PROVE OneAtATime
  OBVIOUS
<1> USE TimesAssumption, NamesAssumption, NoneAssumption
    DEF PaymentsInv, TypeOK, Times
<1>1. ASSUME NEW u \in Users, NEW item \in Items, FindCheckout(u, item) PROVE OneAtATime
  BY <1>1 DEF FindCheckout, Reusable
<1>2. ASSUME NEW u \in Users, NEW p \in Payments, CreateCheckout(u, p) PROVE OneAtATime
  BY <1>2 DEF CreateCheckout
<1>3. ASSUME NEW u \in Users, NEW p \in Payments, Pay(u, p) PROVE OneAtATime
  BY <1>3 DEF Pay
<1>4. ASSUME NEW c \in Checks, NEW p \in Payments, Ask(c, p) PROVE OneAtATime
  BY <1>4 DEF Ask, Times
<1>5. ASSUME NEW c \in Checks, Lookup(c) PROVE OneAtATime
  BY <1>5 DEF Lookup, Returns, Times
<1>6. ASSUME NEW c \in Checks, Close(c) PROVE OneAtATime
  BY <1>6 DEF Close, Returns, Times
<1>7. ASSUME NEW c \in Checks, LockPayment(c) PROVE OneAtATime
  BY <1>7 DEF LockPayment, Returns, Becomes, Times
<1>8. ASSUME NEW c \in Checks, ReadSubscription(c) PROVE OneAtATime
  BY <1>8 DEF ReadSubscription, Becomes, Times
<1>9. ASSUME NEW c \in Checks, Activate(c) PROVE OneAtATime
  BY <1>9 DEF Activate, Returns, Times
<1>10. ASSUME NEW c \in Checks, Abort(c) PROVE OneAtATime
  BY <1>10 DEF Abort, Returns, Times
<1>11. ASSUME NEW p \in Payments, GrantMissing(p) PROVE OneAtATime
  BY <1>11 DEF GrantMissing
<1>12. CASE Tick
  BY <1>12 DEF Tick, Times
<1>13. CASE UNCHANGED vars
  BY <1>13 DEF vars
<1> QED
  BY <1>1, <1>2, <1>3, <1>4, <1>5, <1>6, <1>7, <1>8, <1>9, <1>10, <1>11, <1>12, <1>13
  DEF Next, Advance

-----------------------------------------------------------------------------
(* The parts of the invariant are kept. *)
LEMMA PastKept == PaymentsInv /\ [Next]_vars => NoRowNoPast'
<1> SUFFICES ASSUME PaymentsInv, [Next]_vars, NEW p \in Payments
             PROVE  /\ payment'[p] = None =>
                            bank'[p] = None /\ credit'[p] = None /\ shown'[p] = {}
                    /\ p \in Legacy => Is(p, "PAID")' /\ shown'[p] = {} /\ bank'[p] = None
  BY DEF NoRowNoPast
<1>1. RowStep(p) /\ CreditStep(p) /\ BankStep(p)
  BY RowSteps, CreditSteps, BankSteps
<1>2. shown'[p] # shown[p] => p \notin Legacy /\ payment'[p] # None
  BY ShownSteps
<1>3. /\ payment[p] = None => bank[p] = None /\ credit[p] = None /\ shown[p] = {}
      /\ p \in Legacy => Is(p, "PAID") /\ shown[p] = {} /\ bank[p] = None
  BY DEF PaymentsInv, NoRowNoPast
<1>4. \A c \in Checks : Activate(c) => Open(Of(c)) /\ payment[Of(c)] # None
  BY DEF PaymentsInv, RowLocks, Locks, Activate, Open, Is
<1>5. GrantMissing(p) => payment[p] # None
  BY DEF GrantMissing, Is
<1>6. bank'[p] # bank[p] => payment[p] # None /\ p \notin Legacy
  BY <1>1, <1>3 DEF BankStep
<1>7. payment'[p] = None => payment[p] = None
  BY <1>1 DEF RowStep
<1>8. credit'[p] # credit[p] => payment[p] # None
  BY <1>1, <1>4, <1>5 DEF CreditStep
<1>9. Is(p, "PAID") => Is(p, "PAID")'
  BY <1>1, <1>4 DEF RowStep, Is, Open
<1> QED
  BY <1>2, <1>3, <1>6, <1>7, <1>8, <1>9

(* What a check was told by the bank stays true of the payment.            *)
LEMMA ToldKept == PaymentsInv /\ [Next]_vars => ChecksToldTrue'
<1> SUFFICES ASSUME PaymentsInv, [Next]_vars, NEW c \in Checks, check'[c] # None
             PROVE  Told(c)'
  BY DEF ChecksToldTrue
<1> USE TimesAssumption, NamesAssumption, NoneAssumption
<1>1. check'[c] \in Check /\ check'[c].payment \in Payments /\ check'[c].now \in Times
  BY PaymentTypesKept DEF TypeOK, Check
<1> DEFINE p == check'[c].payment
<1>2. now \in Int /\ now' \in Int /\ now <= now' /\ check'[c].now \in Int
  BY <1>1, PaymentTypesKept, OneMoves DEF PaymentsInv, TypeOK, Times
<1>3. /\ payment[p] # None => payment'[p] # None /\ payment'[p].expiresAt = payment[p].expiresAt
      /\ bank[p] # None => bank'[p] = bank[p]
  BY <1>1, RowSteps, BankSteps DEF RowStep, BankStep
<1>4. p \in Legacy => Is(p, "PAID")
  BY <1>1 DEF PaymentsInv, NoRowNoPast
<1>5. payment[p] # None => payment[p].expiresAt + Grace \in Int
  BY <1>1 DEF PaymentsInv, TypeOK, Payment
<1>6. check[c] # None => Told(c)
  BY DEF PaymentsInv, ChecksToldTrue
<1>7. bank'[p] # bank[p] =>
        /\ now <= payment[p].expiresAt + Grace
        /\ UNCHANGED <<now, payment, check>>
  BY <1>1, BankSteps DEF BankStep
<1>8. CASE check'[c] = check[c]
  <2>1. check'[c].answer \in {"NOT_FOUND", "PAID", "REFUSED"}
    BY <1>1 DEF Check
  <2>2. Told(c) /\ Of(c) = p /\ payment[p] # None
    BY <1>6, <1>8 DEF Told, Of
  <2>3. (At(c, "answered") /\ Verdict(c) = "EXPIRED")' => bank'[p] = None
    <3>1. ASSUME (At(c, "answered") /\ Verdict(c) = "EXPIRED")' PROVE bank'[p] = None
      <4>1. At(c, "answered") /\ Verdict(c) = "EXPIRED"
            /\ check[c].now > payment[p].expiresAt + Grace
        BY <1>3, <1>8, <2>1, <2>2, <3>1 DEF At, Verdict, Of
      <4>2. bank[p] = None /\ check[c].now <= now
        BY <2>2, <4>1 DEF Told
      <4> QED
        BY <1>2, <1>5, <1>7, <1>8, <2>2, <4>1, <4>2
    <3> QED
      BY <3>1
  <2> QED
    BY <1>2, <1>3, <1>8, <2>2, <2>3 DEF Told, At, HasMoney, Of
<1>9. CASE check[c] = None
  <2>1. /\ check'[c].pc = "asking" /\ check'[c].answer = "NOT_FOUND" /\ check'[c].now = now
        /\ Open(p)
    BY <1>9, CheckSteps DEF CheckStep
  <2> QED
    BY <1>2, <1>3, <1>4, <2>1 DEF Told, At, Of, Open, Is
<1>10. CASE check[c] # None /\ check'[c] # check[c]
  <2>1. /\ p = Of(c) /\ check'[c].now = check[c].now /\ UNCHANGED <<now, bank>>
        /\ \/ /\ At(c, "asking") /\ check'[c].pc = "answered" /\ UNCHANGED payment
              /\ check'[c].answer =
                    IF bank[Of(c)] = None THEN "NOT_FOUND" ELSE bank[Of(c)].answer
           \/ check'[c].pc \in {"locked", "read"} /\ check'[c].answer = check[c].answer
    BY <1>10, CheckSteps DEF CheckStep
  <2>2. Told(c) /\ payment[p] # None /\ p \notin Legacy
    BY <1>6, <1>10, <2>1 DEF Told
  <2>3. bank[p] # None => bank[p].answer \in {"PAID", "REFUSED"}
    BY <1>1 DEF PaymentsInv, TypeOK, Transfer
  <2>4. CASE check'[c].pc = "answered"
    <3>1. check'[c].answer = IF bank[p] = None THEN "NOT_FOUND" ELSE bank[p].answer
      BY <2>1, <2>4
    <3>2. Verdict(c)' = "EXPIRED" => check'[c].answer = "NOT_FOUND"
      BY <2>3, <3>1 DEF Verdict
    <3> QED
      BY <1>2, <1>3, <2>1, <2>2, <2>3, <2>4, <3>1, <3>2 DEF Told, At, HasMoney, Of
  <2>5. CASE check'[c].pc \in {"locked", "read"}
    BY <1>2, <1>3, <2>1, <2>2, <2>5 DEF Told, At, HasMoney, Of
  <2> QED
    BY <2>1, <2>4, <2>5
<1> QED
  BY <1>8, <1>9, <1>10

(* The row lock of a payment has one holder, and the payment is PENDING    *)
(* for it.                                                                 *)
LEMMA LocksKept == PaymentsInv /\ [Next]_vars => RowLocks'
<1> SUFFICES ASSUME PaymentsInv, [Next]_vars, NEW c \in Checks, Locks(c)'
             PROVE  /\ Open(Of(c))' /\ check'[c].answer = "PAID"
                    /\ \A d \in Checks : Locks(d)' /\ Of(d)' = Of(c)' => d = c
  BY DEF RowLocks
<1> DEFINE Takes(d) == /\ At(d, "answered") /\ check[d].answer = "PAID"
                       /\ RowIsFree(Of(d)) /\ Open(Of(d)) /\ payment'[Of(d)].status = "PENDING"
<1>1. ASSUME NEW d \in Checks, Locks(d)'
      PROVE  /\ Of(d)' = Of(d) /\ Of(d) \in Payments /\ check'[d].answer = check[d].answer
             /\ \/ Locks(d)
                \/ Takes(d) /\ check'[d] # check[d] /\ check'[d].pc = "locked"
  <2>1. CASE check'[d] = check[d]
    <3>1. Locks(d) /\ check[d] # None
      BY <1>1, <2>1 DEF Locks, At
    <3>2. check[d] \in Check
      BY <3>1 DEF PaymentsInv, TypeOK
    <3> QED
      BY <2>1, <3>1, <3>2 DEF Of, Check
  <2>2. CASE check'[d] # check[d]
    <3>1. /\ check[d] # None /\ Of(d)' = Of(d) /\ check'[d].answer = check[d].answer
          /\ \/ Takes(d) /\ check'[d].pc = "locked"
             \/ At(d, "locked")
      BY <1>1, <2>2, CheckSteps DEF CheckStep, Locks, At, Of
    <3>2. check[d] \in Check
      BY <3>1 DEF PaymentsInv, TypeOK
    <3> QED
      BY <2>2, <3>1, <3>2 DEF Locks, Of, Check
  <2> QED
    BY <2>1, <2>2
<1>2. Of(c) \in Payments /\ Of(c)' = Of(c) /\ check'[c].answer = "PAID" /\ Open(Of(c))
  BY <1>1 DEF PaymentsInv, RowLocks
<1>3. payment'[Of(c)] # None
  BY <1>2, RowSteps DEF RowStep, Open, Is
<1>4. payment'[Of(c)].status = "PENDING"
  <2>1. CASE Takes(c)
    BY <2>1
  <2>2. CASE Locks(c)
    <3>1. ~RowIsFree(Of(c))
      BY <2>2 DEF RowIsFree, Locks
    <3>2. \A d \in Checks : Activate(d) => Of(d) # Of(c)
      <4>1. SUFFICES ASSUME NEW d \in Checks, Activate(d), Of(d) = Of(c) PROVE FALSE
        OBVIOUS
      <4>2. d = c
        BY <2>2, <4>1 DEF PaymentsInv, RowLocks, Locks, Activate
      <4>3. check'[c] = None
        BY <4>1, <4>2 DEF Activate, Returns, PaymentsInv, TypeOK
      <4> QED
        BY <4>3 DEF Locks, At
    <3> QED
      BY <1>2, <3>1, <3>2, RowSteps DEF RowStep, Open, Is
  <2> QED
    BY <1>1, <2>1, <2>2
<1>5. ASSUME NEW d \in Checks, Locks(d)', Of(d)' = Of(c)' PROVE d = c
  <2>1. Of(d) = Of(c)
    BY <1>1, <1>2, <1>5
  <2>2. CASE Locks(c) /\ Locks(d)
    BY <2>1, <2>2 DEF PaymentsInv, RowLocks
  <2>3. CASE Locks(c) /\ ~Locks(d)
    BY <1>1, <1>5, <2>1, <2>3 DEF RowIsFree, Locks
  <2>4. CASE ~Locks(c) /\ Locks(d)
    BY <1>1, <2>1, <2>4 DEF RowIsFree, Locks
  <2>5. CASE ~Locks(c) /\ ~Locks(d)
    BY <1>1, <1>5, <2>5, OneMoves
  <2> QED
    BY <2>2, <2>3, <2>4, <2>5
<1> QED
  BY <1>2, <1>3, <1>4, <1>5 DEF Open, Is

(* What a payment ended as, FAILED or EXPIRED, agrees with the bank.       *)
LEMMA EndsKept == PaymentsInv /\ [Next]_vars => EndsAgree'
<1> SUFFICES ASSUME PaymentsInv, [Next]_vars, NEW p \in Payments
             PROVE  /\ Is(p, "FAILED")' => bank'[p] # None /\ bank'[p].answer = "REFUSED"
                    /\ Is(p, "EXPIRED")' =>
                            bank'[p] = None /\ payment'[p].expiresAt + Grace < now'
  BY DEF EndsAgree
<1> USE TimesAssumption
<1>1. /\ RowStep(p) /\ BankStep(p) /\ now <= now' /\ now \in Int /\ now' \in Int
      /\ payment[p] # None => payment[p].expiresAt \in Int
  BY RowSteps, BankSteps, OneMoves, PaymentTypesKept DEF PaymentsInv, TypeOK, Times, Payment
<1>2. /\ Is(p, "FAILED") => bank[p] # None /\ bank[p].answer = "REFUSED"
      /\ Is(p, "EXPIRED") => bank[p] = None /\ payment[p].expiresAt + Grace < now
  BY DEF PaymentsInv, EndsAgree
<1>3. CASE payment'[p] = payment[p]
  BY <1>1, <1>2, <1>3 DEF BankStep, Is
<1>4. CASE payment'[p] # payment[p]
  <2>1. bank'[p] = bank[p]
    BY <1>1, <1>4 DEF BankStep
  <2>2. CASE payment[p] # None /\ payment'[p].status = payment[p].status
    BY <1>1, <1>2, <1>4, <2>1, <2>2 DEF RowStep, Is
  <2>3. CASE payment[p] = None
    BY <1>1, <1>4, <2>3 DEF RowStep, Is
  <2>4. CASE payment[p] # None /\ payment'[p].status # payment[p].status
    <3>1. /\ payment'[p].expiresAt = payment[p].expiresAt
          /\ \/ payment'[p].status = "PAID"
             \/ \E c \in Checks : /\ At(c, "answered") /\ Of(c) = p
                                  /\ payment'[p].status = Verdict(c)
      BY <1>1, <1>4, <2>4 DEF RowStep
    <3>2. CASE payment'[p].status = "PAID"
      BY <3>2 DEF Is
    <3>3. ASSUME NEW c \in Checks, At(c, "answered"), Of(c) = p, payment'[p].status = Verdict(c)
          PROVE  /\ Is(p, "FAILED")' => bank'[p] # None /\ bank'[p].answer = "REFUSED"
                 /\ Is(p, "EXPIRED")' =>
                        bank'[p] = None /\ payment'[p].expiresAt + Grace < now'
      <4>1. check[c] \in Check /\ Told(c)
        BY <3>3 DEF PaymentsInv, TypeOK, ChecksToldTrue, At
      <4>2. Verdict(c) = "FAILED" => bank[p] # None /\ bank[p].answer = "REFUSED"
        BY <3>3, <4>1 DEF Verdict, Told, Check
      <4>3. Verdict(c) = "EXPIRED" => bank[p] = None /\ check[c].now > payment[p].expiresAt + Grace
        BY <3>3, <4>1 DEF Verdict, Told, Check
      <4>4. check[c].now <= now /\ check[c].now \in Int
        BY <4>1 DEF Told, Check, Times
      <4> QED
        BY <1>1, <2>1, <2>4, <3>1, <3>3, <4>2, <4>3, <4>4 DEF Is
    <3> QED
      BY <3>1, <3>2, <3>3
  <2> QED
    BY <2>2, <2>3, <2>4
<1> QED
  BY <1>3, <1>4

(* A payment for credits is PAID exactly when it is credited, but for      *)
(* those older than credits.                                               *)
LEMMA CreditsKept == PaymentsInv /\ [Next]_vars => PaidIsCredited'
<1> SUFFICES ASSUME PaymentsInv, [Next]_vars, NEW p \in Payments
             PROVE  /\ p \notin Legacy => (Is(p, "PAID")' /\ Grants(p)' <=> credit'[p] # None)
                    /\ credit'[p] # None =>
                          /\ Is(p, "PAID")'
                          /\ IsPlan(p)' => credit'[p].until >= payment'[p].paidAt + Period
  BY DEF PaidIsCredited
<1> USE TimesAssumption, NoneAssumption
<1>1. RowStep(p) /\ CreditStep(p)
  BY RowSteps, CreditSteps
<1>2. /\ p \notin Legacy => (Is(p, "PAID") /\ Grants(p) <=> credit[p] # None)
      /\ credit[p] # None =>
            /\ Is(p, "PAID")
            /\ IsPlan(p) => credit[p].until >= payment[p].paidAt + Period
  BY DEF PaymentsInv, PaidIsCredited
<1>3. ASSUME NEW c \in Checks, Activate(c), Of(c) = p
      PROVE  /\ credit[p] = None /\ Open(p) /\ (credit'[p] # None <=> Grants(p))
             /\ Is(p, "PAID")' /\ payment'[p].item = payment[p].item
             /\ Grants(p) /\ IsPlan(p) => credit'[p].until >= payment'[p].paidAt + Period
  <2>1. Open(p) /\ payment[p] \in Payment /\ check[c] \in Check
    BY <1>3 DEF PaymentsInv, TypeOK, RowLocks, Locks, Activate, At, Open, Is
  <2>2. credit[p] = None
    BY <1>2, <2>1 DEF Open, Is
  <2> DEFINE period == NextPeriod(check[c].current, payment[p].item, check[c].now)
  <2>3. period.end \in Int /\ period.end >= check[c].now + Period
    BY <2>1 DEF NextPeriod, Extends, Check, Subscription, Times
  <2>4. /\ Grants(p) => credit'[p] = [to |-> payment[p].by,
                                      until |-> IF IsPlan(p) THEN period.end ELSE 0]
        /\ ~Grants(p) => credit'[p] = None
    BY <1>3, <2>2 DEF Activate, Grant, PaymentsInv, TypeOK
  <2>5. Grants(p) => credit'[p] \in Credit
    BY <2>1, <2>3, <2>4 DEF Credit, Payment
  <2>6. payment'[p] = [payment[p] EXCEPT !.status = "PAID", !.checked = {}, !.paidAt = check[c].now]
    BY <1>3 DEF Activate, PaymentsInv, TypeOK
  <2>7. /\ payment'[p].status = "PAID" /\ payment'[p].paidAt = check[c].now
        /\ payment'[p].item = payment[p].item /\ payment'[p] \in Payment
    BY <2>1, <2>6 DEF Payment, Check
  <2> QED
    BY <2>1, <2>2, <2>3, <2>4, <2>5, <2>7 DEF Is
<1>4. CASE \E c \in Checks : Activate(c) /\ Of(c) = p
  BY <1>3, <1>2, <1>4 DEF IsPlan, Grants, Open, Is
<1>5. CASE /\ ~\E c \in Checks : Activate(c) /\ Of(c) = p
           /\ GrantMissing(p)
  <2>1. /\ Is(p, "PAID") /\ Grants(p) /\ credit[p] = None /\ payment'[p] = payment[p]
    BY <1>5 DEF GrantMissing
  <2>2. /\ credit'[p] = [to |-> payment[p].by,
                        until |-> IF IsPlan(p) THEN payment[p].paidAt + Period ELSE 0]
    BY <1>5, <2>1 DEF GrantMissing, Grant, PaymentsInv, TypeOK
  <2>3. payment[p] \in Payment
    BY <2>1 DEF Is, PaymentsInv, TypeOK
  <2>4. credit'[p] \in Credit /\ payment[p].paidAt + Period \in Int
    BY <2>2, <2>3 DEF Credit, Payment, Times
  <2> QED
    BY <2>1, <2>2, <2>4 DEF Is, IsPlan, Grants
<1>6. CASE /\ ~\E c \in Checks : Activate(c) /\ Of(c) = p
           /\ ~GrantMissing(p)
  <2>1. credit'[p] = credit[p]
    BY <1>1, <1>6 DEF CreditStep
  <2>2. /\ Is(p, "PAID")' <=> Is(p, "PAID")
        /\ Is(p, "PAID") => payment'[p].paidAt = payment[p].paidAt
                            /\ payment'[p].item = payment[p].item
    <3>1. \A c \in Checks : At(c, "answered") =>
                Verdict(c) \in {"PAID", "FAILED", "EXPIRED", "PENDING"}
      BY DEF At, PaymentsInv, TypeOK, Check, Verdict
    <3> QED
      BY <1>1, <1>6, <3>1 DEF RowStep, Is, Open
  <2> QED
    BY <1>2, <2>1, <2>2 DEF IsPlan, Grants, Is
<1> QED
  BY <1>4, <1>5, <1>6

(* The invariant of every behaviour of Spec. *)
LEMMA PaymentsInvariance == Spec => []PaymentsInv
<1>1. Init => PaymentsInv
  BY PaymentsInitEstablishes
<1>2. PaymentsInv /\ [Next]_vars => PaymentsInv'
  BY PaymentTypesKept, PastKept, ToldKept, LocksKept, EndsKept, CreditsKept DEF PaymentsInv
<1> QED
  BY <1>1, <1>2, PTL DEF Spec

-----------------------------------------------------------------------------
(* Rows, credits, checks and what the bank knows have the shape the code   *)
(* gives them.                                                             *)
THEOREM PaymentTypes == Spec => []TypeOK
<1>1. PaymentsInv => TypeOK
  BY DEF PaymentsInv
<1> QED
  BY <1>1, PaymentsInvariance, PTL

(* refresh never answers money that arrived within the grace period by     *)
(* closing the payment, however long the lookup and the statements after   *)
(* it take, whoever else settles payments meanwhile: the verdict is given  *)
(* for the time that was taken before Bakong was asked.                    *)
THEOREM MoneyIsHonoured == Spec => []PaidIsHonoured
<1>1. PaymentsInv => PaidIsHonoured
  <2> SUFFICES ASSUME PaymentsInv, NEW p \in Payments, HasMoney(p)
               PROVE  Is(p, "PENDING") \/ Is(p, "PAID")
    BY DEF PaidIsHonoured
  <2>1. payment[p] # None
    BY DEF PaymentsInv, NoRowNoPast, HasMoney
  <2>2. payment[p].status \in {"PENDING", "PAID", "FAILED", "EXPIRED"}
    BY <2>1 DEF PaymentsInv, TypeOK, Payment
  <2>3. ~Is(p, "FAILED") /\ ~Is(p, "EXPIRED")
    BY DEF PaymentsInv, EndsAgree, HasMoney
  <2> QED
    BY <2>1, <2>2, <2>3 DEF Is
<1> QED
  BY <1>1, PaymentsInvariance, PTL

(* activate commits PAID and the credits together, and the reconciler's    *)
(* grants last a whole period from the payment too.                        *)
THEOREM PaidMeansCredited == Spec => []PaidIsCredited
<1>1. PaymentsInv => PaidIsCredited
  BY DEF PaymentsInv
<1> QED
  BY <1>1, PaymentsInvariance, PTL

(* However many polls and the reconciler settle one payment at once, what  *)
(* it ended as, its time and its credits stay, and a subscription moves    *)
(* only with a payment that becomes PAID in the same step.                 *)
THEOREM SettledPaymentsStay == Spec => SettledForGood
<1>1. ASSUME PaymentsInv, [Next]_vars
      PROVE  MovesWithPayment /\ \A p \in Payments : StaysSettled(p)
  <2>1. \A c \in Checks : Activate(c) =>
            Open(Of(c)) /\ Of(c) \in Payments /\ payment[Of(c)] \in Payment /\ check[c] \in Check
    BY <1>1 DEF PaymentsInv, TypeOK, RowLocks, Locks, Activate, At, Check, Open, Is, Of
  <2>2. ASSUME NEW p \in Payments, payment[p] # None, ~Open(p)
        PROVE  /\ payment'[p].status = payment[p].status
               /\ payment'[p].paidAt = payment[p].paidAt
               /\ credit[p] # None => credit'[p] = credit[p]
    <3>1. RowStep(p) /\ CreditStep(p)
      BY <1>1, RowSteps, CreditSteps
    <3> QED
      BY <2>1, <2>2, <3>1 DEF RowStep, CreditStep
  <2>3. ASSUME subscription' # subscription
        PROVE  \E p \in Payments : Open(p) /\ payment'[p].status = "PAID"
    <3>1. PICK c \in Checks : Activate(c)
      BY <1>1, <2>3 DEF Next, vars, Advance, FindCheckout, CreateCheckout, Pay, Tick, Ask, Lookup,
         Close, LockPayment, ReadSubscription, Abort, GrantMissing
    <3>2. payment'[Of(c)] =
            [payment[Of(c)] EXCEPT !.status = "PAID", !.checked = {}, !.paidAt = check[c].now]
      BY <1>1, <2>1, <3>1 DEF Activate, PaymentsInv, TypeOK
    <3>3. payment'[Of(c)].status = "PAID"
      BY <2>1, <3>1, <3>2 DEF Payment
    <3> QED
      BY <2>1, <3>1, <3>3
  <2> QED
    BY <2>2, <2>3 DEF MovesWithPayment, StaysSettled
<1>2. PaymentsInv /\ [Next]_vars =>
        [MovesWithPayment /\ \A p \in Payments : StaysSettled(p)]_vars
  BY <1>1
<1> QED
  BY <1>2, PaymentsInvariance, PTL DEF Spec, SettledForGood

-----------------------------------------------------------------------------
(* A subscription that is there is locked by who read it.                  *)
LEMMA SubscriptionLockKept == PaymentsInv /\ SubscriptionLock /\ [Next]_vars => SubscriptionLock'
<1> SUFFICES ASSUME PaymentsInv, SubscriptionLock, [Next]_vars PROVE SubscriptionLock'
  OBVIOUS
<1> USE TimesAssumption, NoneAssumption
<1> DEFINE Has(c) == At(c, "read") /\ check[c].current # None
<1>1. \A c \in Checks : Has(c) => check[c].current = subscription /\ IsPlan(Of(c))
  BY DEF SubscriptionLock
<1>2. \A c, d \in Checks : Has(c) /\ Has(d) => c = d
  BY DEF SubscriptionLock
<1>3. \A c \in Checks : check'[c] # None => check'[c] \in Check /\ check'[c].payment \in Payments
  BY PaymentTypesKept DEF TypeOK, Check
<1>4. \A c \in Checks : check[c] # None => check[c] \in Check /\ payment[Of(c)] # None
  BY DEF PaymentsInv, TypeOK, ChecksToldTrue, Told
<1>5. \A p \in Payments : payment[p] # None => payment'[p].item = payment[p].item
  BY RowSteps DEF RowStep
<1>6. ASSUME NEW c \in Checks, Activate(c)
      PROVE  /\ ~At(c, "read")'
             /\ subscription' = subscription \/ (Has(c) /\ subscription' # None)
  <2>1. check[c] \in Check /\ payment[Of(c)] \in Payment
    BY <1>4, <1>6 DEF Activate, At, PaymentsInv, TypeOK, Check, Of
  <2>2. IsPlan(Of(c)) => /\ Has(c)
                         /\ NextPeriod(check[c].current, payment[Of(c)].item, check[c].now) \in Subscription
    BY <1>6, <2>1 DEF Activate, SubscriptionLock, NextPeriod, Extends, Check, Subscription, IsPlan, Times
  <2>3. check'[c] = None
    BY <1>6 DEF Activate, Returns, PaymentsInv, TypeOK
  <2> QED
    BY <1>6, <2>2, <2>3 DEF Activate, At
<1>7. subscription' = subscription \/ \E c \in Checks : Activate(c)
  BY DEF Next, vars, Advance, FindCheckout, CreateCheckout, Pay, Tick, Ask, Lookup, Close,
     LockPayment, ReadSubscription, Abort, GrantMissing
<1>8. subscription' # None
  BY <1>6, <1>7 DEF SubscriptionLock
<1>9. ASSUME NEW c \in Checks, check'[c] # check[c], check'[c] # None
      PROVE  \/ /\ ~At(c, "read")' /\ check'[c].current = None
             \/ /\ At(c, "read")' /\ Of(c)' = Of(c) /\ UNCHANGED subscription
                /\ check'[c].current = IF IsPlan(Of(c)) THEN subscription ELSE None
                /\ IsPlan(Of(c)) => SubscriptionIsFree
  <2>1. CASE check[c] = None
    <3>1. PICK p \in Payments : Ask(c, p)
      BY <1>9, <2>1, ZenonT(60) DEF Next, vars, Advance, FindCheckout, CreateCheckout, Pay, Tick, Ask, Lookup,
         Close, LockPayment, ReadSubscription, Activate, Abort, GrantMissing, At, Returns, Becomes,
         PaymentsInv, TypeOK
    <3>2. check'[c] = [pc |-> "asking", payment |-> p, now |-> now, answer |-> "NOT_FOUND",
                       current |-> None]
      BY <3>1 DEF Ask, PaymentsInv, TypeOK
    <3> QED
      BY <1>9, <3>2 DEF At
  <2>2. CASE check[c] # None
    <3>1. check[c] \in Check
      BY <1>4, <2>2
    <3>2. Lookup(c) \/ LockPayment(c) \/ ReadSubscription(c)
      <4>1. PICK d \in Checks : Advance(d) \/ Abort(d) \/ \E p \in Payments : Ask(d, p)
        BY <1>9 DEF Next, vars, FindCheckout, CreateCheckout, Pay, Tick, GrantMissing
      <4>2. CASE d = c
        BY <1>9, <2>2, <4>1, <4>2 DEF Advance, Close, Activate, Abort, Ask, Returns, PaymentsInv, TypeOK
      <4>3. CASE d # c
        <5>1. check'[c] = check[c]
          BY <4>1, <4>3 DEF Advance, Lookup, Close, LockPayment, ReadSubscription, Activate, Abort,
             Ask, Returns, Becomes, PaymentsInv, TypeOK
        <5> QED
          BY <1>9, <5>1
      <4> QED
        BY <4>2, <4>3
    <3>3. ASSUME Lookup(c) \/ LockPayment(c)
          PROVE  ~At(c, "read")' /\ check'[c].current = None
      <4>1. check[c].current = None
        BY <2>2, <3>1, <3>3 DEF SubscriptionLock, Lookup, LockPayment, At
      <4>2. check'[c].pc \in {"answered", "locked"} /\ check'[c].current = check[c].current
        <5>1. CASE Lookup(c)
          <6> DEFINE a == IF bank[Of(c)] = None THEN "NOT_FOUND" ELSE bank[Of(c)].answer
          <6>1. check'[c] = [check[c] EXCEPT !.pc = "answered", !.answer = a]
            BY <1>9, <5>1 DEF Lookup, Returns, PaymentsInv, TypeOK
          <6> HIDE DEF a
          <6> QED
            BY <3>1, <6>1 DEF Check
        <5>2. CASE LockPayment(c)
          <6>1. check'[c] = [check[c] EXCEPT !.pc = "locked"]
            BY <1>9, <5>2 DEF LockPayment, Returns, Becomes, PaymentsInv, TypeOK
          <6> QED
            BY <3>1, <6>1 DEF Check
        <5> QED
          BY <3>3, <5>1, <5>2
      <4> QED
        BY <4>1, <4>2 DEF At
    <3>4. ASSUME ReadSubscription(c)
          PROVE  /\ At(c, "read")' /\ Of(c)' = Of(c) /\ UNCHANGED subscription
                 /\ check'[c].current = IF IsPlan(Of(c)) THEN subscription ELSE None
                 /\ IsPlan(Of(c)) => SubscriptionIsFree
      <4>1. CASE IsPlan(Of(c))
        <5>1. check'[c] = [check[c] EXCEPT !.pc = "read", !.current = subscription]
          BY <3>4, <4>1 DEF ReadSubscription, PaymentsInv, TypeOK
        <5>2. check'[c].pc = "read" /\ check'[c].current = subscription /\ Of(c)' = Of(c)
          BY <3>1, <5>1 DEF Check, Of
        <5> QED
          BY <1>9, <3>4, <4>1, <5>2 DEF ReadSubscription, At
      <4>2. CASE ~IsPlan(Of(c))
        <5>1. check'[c] = [check[c] EXCEPT !.pc = "read"] /\ check[c].current = None
          BY <2>2, <3>1, <3>4, <4>2
          DEF ReadSubscription, Becomes, SubscriptionLock, At, PaymentsInv, TypeOK
        <5>2. check'[c].pc = "read" /\ check'[c].current = None /\ Of(c)' = Of(c)
          BY <3>1, <5>1 DEF Check, Of
        <5> QED
          BY <1>9, <3>4, <4>2, <5>2 DEF ReadSubscription, At
      <4> QED
        BY <4>1, <4>2
    <3> QED
      BY <3>2, <3>3, <3>4
  <2> QED
    BY <2>1, <2>2
<1>10. ASSUME NEW c \in Checks, check'[c] # None, check'[c] = check[c]
       PROVE  Of(c)' = Of(c) /\ (IsPlan(Of(c))' <=> IsPlan(Of(c))) /\ (Has(c) => UNCHANGED subscription)
  <2>1. Of(c)' = Of(c) /\ payment[Of(c)] # None /\ Of(c) \in Payments
    BY <1>4, <1>10 DEF Of, Check
  <2>2. ASSUME Has(c) PROVE UNCHANGED subscription
    BY <1>2, <1>6, <1>7, <1>10, <2>2 DEF At
  <2> QED
    BY <1>5, <2>1, <2>2 DEF IsPlan
<1>11. ASSUME NEW c \in Checks
       PROVE  /\ At(c, "read")' /\ IsPlan(Of(c))' => check'[c].current = subscription'
              /\ At(c, "read")' /\ ~IsPlan(Of(c))' => check'[c].current = None
              /\ check'[c] # None /\ ~At(c, "read")' => check'[c].current = None
  <2>1. CASE check'[c] = None
    BY <2>1 DEF At
  <2>2. CASE check'[c] # None /\ check'[c] = check[c]
    <3>1. /\ At(c, "read") /\ IsPlan(Of(c)) => check[c].current = subscription
          /\ At(c, "read") /\ ~IsPlan(Of(c)) => check[c].current = None
          /\ check[c] # None /\ ~At(c, "read") => check[c].current = None
          /\ subscription # None
      BY DEF SubscriptionLock
    <3>2. At(c, "read")' <=> At(c, "read")
      BY <2>2 DEF At
    <3> QED
      BY <1>10, <2>2, <3>1, <3>2
  <2>3. CASE check'[c] # None /\ check'[c] # check[c]
    <3>1. CASE ~At(c, "read")' /\ check'[c].current = None
      BY <3>1
    <3>2. CASE /\ At(c, "read")' /\ Of(c)' = Of(c) /\ UNCHANGED subscription
               /\ check'[c].current = IF IsPlan(Of(c)) THEN subscription ELSE None
      <4>1. check[c] # None
        BY <2>3, <3>2, CheckSteps DEF CheckStep, At
      <4>2. payment[Of(c)] # None /\ Of(c) \in Payments
        BY <1>4, <4>1 DEF Of, Check
      <4>3. IsPlan(Of(c))' <=> IsPlan(Of(c))
        BY <1>5, <3>2, <4>2 DEF IsPlan
      <4> QED
        BY <3>2, <4>3
    <3> QED
      BY <1>9, <2>3, <3>1, <3>2
  <2> QED
    BY <2>1, <2>2, <2>3
<1>12. ASSUME NEW c \in Checks, NEW d \in Checks, Has(c)', Has(d)' PROVE c = d
  <2>1. \A e \in Checks : Has(e)' => check'[e] # None
    BY DEF At
  <2>2. \A e \in Checks : Has(e)' /\ check'[e] = check[e] => Has(e)
    BY DEF At
  <2>3. \A e \in Checks : Has(e)' /\ check'[e] # check[e] => SubscriptionIsFree
    BY <1>9, <2>1 DEF At
  <2>4. SubscriptionIsFree => \A e \in Checks : ~Has(e)
    BY DEF SubscriptionIsFree
  <2> HIDE DEF Has
  <2> QED
    BY <1>2, <1>12, <2>2, <2>3, <2>4, OneMoves
<1> QED
  BY <1>8, <1>11, <1>12 DEF SubscriptionLock

(* Where a workspace has a subscription already, no two payments read the  *)
(* same end of it: each plan payment adds its whole period to what is      *)
(* there when it commits.                                                  *)
THEOREM PeriodsAddUp == ASSUME None \notin Subscriptions PROVE Spec => NoPeriodLost
<1>1. Init => SubscriptionLock
  BY NoneAssumption DEF Init, SubscriptionLock, At
<1>2. ASSUME PaymentsInv, SubscriptionLock, [Next]_vars, NEW p \in Payments
      PROVE  AddsItsPeriod(p)
  <2>1. SUFFICES ASSUME Open(p), payment'[p].status = "PAID", IsPlan(p)
                 PROVE  subscription' =
                            NextPeriod(subscription, payment[p].item, payment'[p].paidAt)
    BY DEF AddsItsPeriod
  <2>2. PICK c \in Checks : /\ Activate(c) /\ Of(c) = p /\ payment'[p].paidAt = check[c].now
    BY <1>2, <2>1, RowSteps DEF RowStep, Open, Is
  <2>3. check[c].current = subscription
    BY <1>2, <2>1, <2>2 DEF Activate, SubscriptionLock
  <2> QED
    BY <2>1, <2>2, <2>3 DEF Activate
<1>3. PaymentsInv /\ SubscriptionLock /\ [Next]_vars => [\A p \in Payments : AddsItsPeriod(p)]_vars
  BY <1>2
<1> QED
  BY <1>1, <1>3, SubscriptionLockKept, PaymentsInvariance, PTL DEF Spec, NoPeriodLost

(* A payment becomes PAID once, with its credits, and stays as it is then  *)
(* (activate, lockPayment and grantMissing).                               *)
THEOREM PaymentsAreSettledOnce == Spec => PaidOnceAndForGood
BY PaymentTypes, PaidMeansCredited, SettledPaymentsStay, PTL
DEF PaidOnceAndForGood

-----------------------------------------------------------------------------
(***************************************************************************)
(* CheckoutTerms: any settings, buyers and rows.                           *)
(***************************************************************************)

(* No id means two packs: a pack's id is its amount of credits. *)
PacksDiffer ==
    catalog # Absent => \A i, j \in DOMAIN catalog.packs :
        /\ catalog.packs[i].id = catalog.packs[i].credits
        /\ catalog.packs[i].id = catalog.packs[j].id => i = j

(* What a buyer holds stood in the list it came from. *)
PickedIsListed ==
    \A b \in Buyers : picked[b] # Absent =>
        LET item == picked[b].item
            of == picked[b].of
        IN  /\ item.id \in PlanIds => of.plans[item.id].price = item.price /\ of.plans[item.id].credits = item.credits
            /\ item.id \notin PlanIds => item.credits = item.id /\ \E i \in DOMAIN of.packs : of.packs[i] = item

(* A row keeps its terms: it is paid what it asks for or nothing. *)
RowsKeepTerms ==
    \A r \in Rows :
        /\ order[r] = Absent => moved[r] = 0
        /\ order[r] # Absent =>
            /\ order[r].qr = order[r].amountMinor /\ moved[r] \in {0, order[r].amountMinor}
            /\ order[r].item \notin PlanIds => order[r].creditUnits = order[r].item
            /\ order[r].status # "FAILED"
            /\ order[r].status = "PAID" => moved[r] # 0 /\ granted[r] = order[r].creditUnits

(* Every view is of the row as it is, for the item that was picked. *)
ViewsAreOfRows ==
    \A r \in Rows : \A t \in views[r] :
        /\ order[r] # Absent /\ t.view = PaymentView(order[r]) /\ t.item.id = order[r].item
        /\ t.item.id \notin PlanIds => t.item.credits = t.item.id

TermsInv == TermsTypeOK /\ PacksDiffer /\ PickedIsListed /\ RowsKeepTerms /\ ViewsAreOfRows

-----------------------------------------------------------------------------
(* Settings that parse are a catalog without doubles, of a bounded length. *)
LEMMA ParsedSettings ==
    ASSUME NEW e \in Environments, ValidPlans(e.plans), ValidPacks(e.packs)
    PROVE  /\ ParseBillingPlans(e.plans) \in [PlanIds -> Plan]
           /\ ParseCreditPacks(e.packs) \in Seq(Item)
           /\ Len(ParseCreditPacks(e.packs)) <= MaxPacks
           /\ \A i, j \in DOMAIN ParseCreditPacks(e.packs) :
                /\ ParseCreditPacks(e.packs)[i].id = ParseCreditPacks(e.packs)[i].credits
                /\ ParseCreditPacks(e.packs)[i].id = ParseCreditPacks(e.packs)[j].id => i = j
<1>1. /\ e.plans \in [PlanIds -> [price : Int, credits : Int, available : BOOLEAN]]
      /\ e.packs \in Seq([price : Int, credits : Int])
  BY SettingsAssumption
<1>2. \A n \in Int : n >= 0 => Cents(n) \in Nat
  BY DEF Cents
<1>3. ParseBillingPlans(e.plans) \in [PlanIds -> Plan]
  <2>1. ASSUME NEW i \in PlanIds 
                PROVE  [price |-> Cents(e.plans[i].price), credits |-> e.plans[i].credits,
                        available |-> e.plans[i].available] \in Plan
    <3>1. /\ e.plans[i] \in [price : Int, credits : Int, available : BOOLEAN]
          /\ e.plans[i].price \in 10..MaxPrice /\ e.plans[i].credits \in 0..MaxCredits
      BY <1>1 DEF ValidPlans, PlanPrice
    <3>2. Cents(e.plans[i].price) \in Nat /\ e.plans[i].credits \in Nat
      BY <1>2, <3>1
    <3> QED
      BY <3>1, <3>2 DEF Plan
  <2> QED
    BY <2>1 DEF ParseBillingPlans
<1>4. /\ DOMAIN e.packs = 1 .. Len(e.packs) /\ Len(e.packs) \in Nat /\ Len(e.packs) <= MaxPacks
      /\ \A i \in DOMAIN e.packs : Cents(e.packs[i].price) \in Nat /\ e.packs[i].credits \in Nat
      /\ \A i, j \in DOMAIN e.packs : e.packs[i].credits = e.packs[j].credits => i = j
  <2>1. \A i \in DOMAIN e.packs : e.packs[i].price \in 10..MaxPrice /\ e.packs[i].credits \in 1..MaxCredits
    BY DEF ValidPacks, PlanPrice
  <2>2. \A i \in DOMAIN e.packs : Cents(e.packs[i].price) \in Nat /\ e.packs[i].credits \in Nat
    BY <1>2, <2>1
  <2>3. DOMAIN e.packs = 1 .. Len(e.packs) /\ Len(e.packs) \in Nat
    BY <1>1
  <2>4. /\ Len(e.packs) <= MaxPacks
        /\ \A i, j \in DOMAIN e.packs : e.packs[i].credits = e.packs[j].credits => i = j
    BY DEF ValidPacks
  <2> QED
    BY <2>2, <2>3, <2>4
<1> DEFINE n == Len(e.packs)
           item(i) == [id |-> e.packs[i].credits, price |-> Cents(e.packs[i].price), credits |-> e.packs[i].credits]
<1>5. \A i \in 1..n : item(i) \in Item /\ item(i).id = e.packs[i].credits /\ item(i).credits = e.packs[i].credits
  BY <1>4 DEF Item
<1>6. ParseCreditPacks(e.packs) = [i \in 1..n |-> item(i)]
  BY <1>4 DEF ParseCreditPacks, PackId
<1> HIDE DEF item
<1>7. n \in Nat /\ ParseCreditPacks(e.packs) \in [1..n -> Item]
  BY <1>4, <1>5, <1>6
<1>8. ParseCreditPacks(e.packs) \in Seq(Item) /\ Len(ParseCreditPacks(e.packs)) = n
  BY <1>7
<1> QED
  BY <1>3, <1>4, <1>5, <1>6, <1>8

(* The item an id resolves to is the one the list has under it.            *)
LEMMA ResolvedItem ==
    ASSUME TermsInv, catalog # Absent, NEW id \in PlanIds \cup Nat, NEW item \in Resolve(id)
    PROVE  /\ item.price \in Nat /\ item.credits \in Nat
           /\ id \in PlanIds => item = catalog.plans[id]
           /\ id \notin PlanIds => item.credits = id
           /\ id \notin PlanIds => \A i \in DOMAIN catalog.packs : catalog.packs[i].id = id => catalog.packs[i] = item
<1>1. catalog \in Catalog /\ catalog.plans \in [PlanIds -> Plan] /\ catalog.packs \in Seq(Item)
  BY DEF TermsInv, TermsTypeOK, Catalog
<1>2. CASE id \in PlanIds
  <2>1. item = catalog.plans[id]
    BY <1>2 DEF Resolve
  <2>2. item \in Plan
    BY <1>1, <1>2, <2>1
  <2> QED
    BY <1>2, <2>1, <2>2 DEF Plan
<1>3. CASE id \notin PlanIds
  <2> DEFINE of == {i \in DOMAIN catalog.packs : catalog.packs[i].id = id}
  <2>1. of # {} /\ item = catalog.packs[Min(of)]
    BY <1>3 DEF Resolve
  <2>2. PICK i \in DOMAIN catalog.packs : catalog.packs[i].id = id
    BY <2>1
  <2>3. of = {i}
    BY <2>2 DEF TermsInv, PacksDiffer
  <2>4. i \in 1 .. Len(catalog.packs) /\ i \in Int
    BY <1>1, <2>2
  <2>5. Min({i}) = i
    BY <2>4 DEF Min
  <2>6. item = catalog.packs[i]
    BY <2>1, <2>3, <2>5
  <2>7. item \in Item
    BY <1>1, <2>4, <2>6
  <2>8. item.credits = id
    BY <2>2, <2>6 DEF TermsInv, PacksDiffer
  <2>9. \A j \in DOMAIN catalog.packs : catalog.packs[j].id = id => catalog.packs[j] = item
    BY <2>2, <2>6 DEF TermsInv, PacksDiffer
  <2> QED
    BY <1>3, <2>7, <2>8, <2>9 DEF Item
<1> QED
  BY <1>2, <1>3

(* The invariant holds initially. *)
LEMMA TermsInitEstablishes == TermsInit => TermsInv
  BY DEF TermsInit, TermsInv, TermsTypeOK, PacksDiffer, PickedIsListed, RowsKeepTerms, ViewsAreOfRows

(* A row that goes on with its terms, is paid what it asks for, and is     *)
(* granted what it says when it is settled, keeps the invariant.           *)
LEMMA RowsMove ==
    ASSUME TermsInv, NEW r \in Rows, Unsettled(r), NEW o \in Order,
           order' = [order EXCEPT ![r] = o],
           o.item = order[r].item, o.amountMinor = order[r].amountMinor,
           o.creditUnits = order[r].creditUnits, o.qr = order[r].qr, o.status # "FAILED",
           NEW cents \in {moved[r], order[r].amountMinor}, moved' = [moved EXCEPT ![r] = cents],
           NEW units \in Nat, granted' = [granted EXCEPT ![r] = units],
           o.status = "PAID" => cents # 0 /\ units = o.creditUnits,
           UNCHANGED <<catalog, picked, views>>
    PROVE  TermsInv'
<1>1. order[r] \in Order /\ order[r] # Absent /\ o # Absent
  BY SettingsAssumption DEF Unsettled, TermsInv, TermsTypeOK
<1>2. /\ \A x \in Rows : order'[x] = IF x = r THEN o ELSE order[x]
      /\ \A x \in Rows : moved'[x] = IF x = r THEN cents ELSE moved[x]
      /\ \A x \in Rows : granted'[x] = IF x = r THEN units ELSE granted[x]
  BY DEF TermsInv, TermsTypeOK
<1>3. cents \in Nat /\ cents \in {0, order[r].amountMinor}
  BY <1>1 DEF Order, TermsInv, TermsTypeOK, RowsKeepTerms
<1>4. TermsTypeOK'
  BY <1>3 DEF TermsInv, TermsTypeOK
<1>5. PacksDiffer' /\ PickedIsListed'
  BY DEF TermsInv, PacksDiffer, PickedIsListed
<1>6. RowsKeepTerms'
  BY <1>1, <1>2, <1>3 DEF TermsInv, RowsKeepTerms
<1>7. PaymentView(o) = PaymentView(order[r])
  BY DEF PaymentView
<1>8. ViewsAreOfRows'
  BY <1>1, <1>2, <1>7 DEF TermsInv, ViewsAreOfRows
<1> QED
  BY <1>4, <1>5, <1>6, <1>8 DEF TermsInv

(* An answer shows the row to its buyer, for what was picked.              *)
LEMMA AnswersShowRows ==
    ASSUME TermsInv, NEW b \in Buyers, picked[b] # Absent, NEW r \in Rows, NEW o \in Order,
           o.item = picked[b].item.id, o.qr = o.amountMinor, o.status # "FAILED",
           o.item \notin PlanIds => o.creditUnits = o.item,
           \/ order[r] = o /\ order' = order
           \/ order[r] = Absent /\ o.status = "PENDING" /\ order' = [order EXCEPT ![r] = o],
           Answer(b, r, o), UNCHANGED <<catalog, moved, granted>>
    PROVE  TermsInv'
<1>1. /\ picked[b] \in [item : Item, of : Catalog] /\ picked[b].item \in Item /\ o # Absent
      /\ picked[b].item.id \notin PlanIds => picked[b].item.credits = picked[b].item.id
  BY SettingsAssumption DEF TermsInv, TermsTypeOK, PickedIsListed
<1>2. /\ \A x \in Rows : order'[x] = IF x = r THEN o ELSE order[x]
      /\ order' \in [Rows -> Order \cup {Absent}]
      /\ \A x \in Buyers : picked'[x] = IF x = b THEN Absent ELSE picked[x]
      /\ picked' \in [Buyers -> [item : Item, of : Catalog] \cup {Absent}]
  BY DEF Answer, TermsInv, TermsTypeOK
<1> DEFINE entry == [item |-> picked[b].item, view |-> PaymentView(o)]
<1>3. \A x \in Rows : views'[x] = IF x = r THEN views[x] \cup {entry} ELSE views[x]
  BY DEF Answer, TermsInv, TermsTypeOK
<1>4. entry \in [item : Item, view : [amount : Nat, credits : Nat]]
  BY <1>1 DEF PaymentView, Order
<1>5. entry.item = picked[b].item /\ entry.view = PaymentView(o)
  OBVIOUS
<1> HIDE DEF entry
<1>6. views' = [views EXCEPT ![r] = @ \cup {entry}]
  BY DEF Answer, entry
<1>7. TermsTypeOK'
  BY <1>2, <1>4, <1>6 DEF TermsInv, TermsTypeOK
<1>8. PacksDiffer' /\ PickedIsListed'
  BY <1>2 DEF TermsInv, PacksDiffer, PickedIsListed
<1>9. RowsKeepTerms'
  BY <1>1, <1>2 DEF TermsInv, RowsKeepTerms
<1>10. ViewsAreOfRows'
  <2> SUFFICES ASSUME NEW x \in Rows, NEW t \in views'[x]
               PROVE  /\ order'[x] # Absent /\ t.view = PaymentView(order'[x]) /\ t.item.id = order'[x].item
                      /\ t.item.id \notin PlanIds => t.item.credits = t.item.id
    BY DEF ViewsAreOfRows, PaymentView
  <2>1. CASE t \in views[x]
    BY <1>1, <1>2, <2>1 DEF TermsInv, ViewsAreOfRows
  <2>2. CASE x = r /\ t = entry
    BY <1>1, <1>2, <1>5, <2>2
  <2> QED
    BY <1>3, <2>1, <2>2
<1> QED
  BY <1>7, <1>8, <1>9, <1>10 DEF TermsInv

(* Every step keeps the invariant. *)
LEMMA TermsInvKept == TermsInv /\ [TermsNext]_termsVars => TermsInv'
<1> SUFFICES ASSUME TermsInv, [TermsNext]_termsVars PROVE TermsInv'
  OBVIOUS
<1>a. \A r \in Rows : order[r] # Absent => order[r] \in Order
  BY DEF TermsInv, TermsTypeOK
<1>1. ASSUME NEW e \in Environments, Start(e) PROVE TermsInv'
  <2>1. UNCHANGED <<picked, order, moved, granted, views>>
    BY <1>1 DEF Start
  <2>2. CASE ValidPlans(e.plans) /\ ValidPacks(e.packs)
    <3>1. PICK plans, packs : plans = ParseBillingPlans(e.plans) /\ packs = ParseCreditPacks(e.packs)
      OBVIOUS
    <3>2. catalog' = [plans |-> plans, packs |-> packs]
      BY <1>1, <2>2, <3>1 DEF Start
    <3>3. /\ plans \in [PlanIds -> Plan] /\ packs \in Seq(Item) /\ Len(packs) <= MaxPacks
          /\ \A i, j \in DOMAIN packs : packs[i].id = packs[i].credits /\ (packs[i].id = packs[j].id => i = j)
      BY <2>2, <3>1, ParsedSettings
    <3>4. catalog' \in Catalog /\ catalog'.packs = packs
      BY <3>2, <3>3 DEF Catalog
    <3>5. TermsTypeOK'
      BY <2>1, <3>3, <3>4 DEF TermsInv, TermsTypeOK
    <3>6. PacksDiffer'
      BY <3>3, <3>4 DEF PacksDiffer
    <3> QED
      BY <2>1, <3>5, <3>6 DEF TermsInv, PickedIsListed, RowsKeepTerms, ViewsAreOfRows, PaymentView
  <2>3. CASE ~(ValidPlans(e.plans) /\ ValidPacks(e.packs))
    <3>1. catalog' = Absent
      BY <1>1, <2>3 DEF Start
    <3> QED
      BY <2>1, <3>1 DEF TermsInv, TermsTypeOK, PacksDiffer, PickedIsListed, RowsKeepTerms, ViewsAreOfRows, PaymentView
  <2> QED
    BY <2>2, <2>3
<1>2. ASSUME NEW b \in Buyers, Pick(b) PROVE TermsInv'
  <2>1. PICK item \in ListPlans \cup ListCreditPacks : picked' = [picked EXCEPT ![b] = [item |-> item, of |-> catalog]]
    BY <1>2 DEF Pick
  <2>2. /\ catalog # Absent /\ catalog \in Catalog /\ catalog.plans \in [PlanIds -> Plan] /\ catalog.packs \in Seq(Item)
        /\ UNCHANGED <<catalog, order, moved, granted, views>>
    BY <1>2 DEF Pick, TermsInv, TermsTypeOK, Catalog
  <2>3. /\ item \in Item
        /\ item.id \in PlanIds => /\ catalog.plans[item.id].price = item.price
                                  /\ catalog.plans[item.id].credits = item.credits
        /\ item.id \notin PlanIds => item.credits = item.id /\ \E i \in DOMAIN catalog.packs : catalog.packs[i] = item
    <3>1. CASE item \in ListPlans
      <4>1. PICK i \in PlanIds : item = [id |-> i, price |-> catalog.plans[i].price, credits |-> catalog.plans[i].credits]
        BY <3>1 DEF ListPlans
      <4>2. catalog.plans[i].price \in Nat /\ catalog.plans[i].credits \in Nat
        BY <2>2 DEF Plan
      <4> QED
        BY <4>1, <4>2 DEF Item
    <3>2. CASE item \in ListCreditPacks
      <4>1. PICK i \in DOMAIN catalog.packs : item = catalog.packs[i]
        BY <3>2 DEF ListCreditPacks, ToSet
      <4>2. item \in Item
        BY <2>2, <4>1
      <4>3. item.id = item.credits
        BY <2>2, <4>1 DEF TermsInv, PacksDiffer
      <4>4. item.id \notin PlanIds
        BY <4>2, <4>3, SettingsAssumption DEF Item
      <4> QED
        BY <4>1, <4>2, <4>3, <4>4
    <3> QED
      BY <3>1, <3>2
  <2>4. \A x \in Buyers : picked'[x] = IF x = b THEN [item |-> item, of |-> catalog] ELSE picked[x]
    BY <2>1 DEF TermsInv, TermsTypeOK
  <2>5. [item |-> item, of |-> catalog] \in [item : Item, of : Catalog]
    BY <2>2, <2>3
  <2>6. TermsTypeOK'
    BY <2>1, <2>2, <2>5 DEF TermsInv, TermsTypeOK
  <2>7. PickedIsListed'
    BY <2>3, <2>4 DEF TermsInv, PickedIsListed
  <2> QED
    BY <2>2, <2>6, <2>7 DEF TermsInv, PacksDiffer, RowsKeepTerms, ViewsAreOfRows, PaymentView
<1>3. ASSUME NEW b \in Buyers, OpenCheckout(b) PROVE TermsInv'
  <2>1. PICK id : id = picked[b].item.id
    OBVIOUS
  <2>2. PICK item \in Resolve(id) :
          IF FindReusablePending(b, id) # {}
          THEN /\ \E r \in FindReusablePending(b, id) : Answer(b, r, order[r])
               /\ UNCHANGED order
          ELSE \E r \in Rows :
                  LET o == [item |-> id, by |-> b, amountMinor |-> item.price, creditUnits |-> item.credits,
                            qr |-> item.price, status |-> "PENDING", fresh |-> TRUE]
                  IN  order[r] = Absent /\ order' = [order EXCEPT ![r] = o] /\ Answer(b, r, o)
    BY <1>3, <2>1 DEF OpenCheckout
  <2>3. catalog # Absent /\ picked[b] # Absent /\ UNCHANGED <<catalog, moved, granted>>
    BY <1>3 DEF OpenCheckout
  <2>4. id \in PlanIds \cup Nat
    BY <2>1, <2>3 DEF TermsInv, TermsTypeOK, Item
  <2>5. CASE FindReusablePending(b, id) # {}
    <3>1. PICK r \in FindReusablePending(b, id) : Answer(b, r, order[r]) /\ order' = order
      BY <2>2, <2>5
    <3>2. r \in Rows /\ order[r] # Absent /\ order[r].item = id /\ order[r] \in Order
      BY <1>a, <3>1 DEF FindReusablePending
    <3>3. /\ order[r].qr = order[r].amountMinor /\ order[r].status # "FAILED"
          /\ order[r].item \notin PlanIds => order[r].creditUnits = order[r].item
      BY <3>2 DEF TermsInv, RowsKeepTerms
    <3> QED
      BY <2>1, <2>3, <3>1, <3>2, <3>3, AnswersShowRows
  <2>6. CASE FindReusablePending(b, id) = {}
    <3>1. PICK r \in Rows, o \in {[item |-> id, by |-> b, amountMinor |-> item.price, creditUnits |-> item.credits,
                                   qr |-> item.price, status |-> "PENDING", fresh |-> TRUE]} :
             order[r] = Absent /\ order' = [order EXCEPT ![r] = o] /\ Answer(b, r, o)
      BY <2>2, <2>6
    <3>2. item.price \in Nat /\ item.credits \in Nat /\ (id \notin PlanIds => item.credits = id)
      BY <2>2, <2>3, <2>4, ResolvedItem
    <3>3. /\ o \in Order /\ o.item = id /\ o.qr = o.amountMinor /\ o.status = "PENDING"
          /\ o.item \notin PlanIds => o.creditUnits = o.item
      <4>1. o = [item |-> id, by |-> b, amountMinor |-> item.price, creditUnits |-> item.credits,
                 qr |-> item.price, status |-> "PENDING", fresh |-> TRUE]
        BY <3>1
      <4> QED
        BY <2>4, <3>2, <4>1 DEF Order
    <3> QED
      BY <2>1, <2>3, <3>1, <3>3, AnswersShowRows
  <2> QED
    BY <2>5, <2>6
<1>4. ASSUME NEW b \in Buyers, RefuseCheckout(b) PROVE TermsInv'
  <2>1. picked' = [picked EXCEPT ![b] = Absent] /\ UNCHANGED <<catalog, order, moved, granted, views>>
    BY <1>4 DEF RefuseCheckout
  <2> QED
    BY <2>1, ZenonT(60) DEF TermsInv, TermsTypeOK, PacksDiffer, PickedIsListed, RowsKeepTerms, ViewsAreOfRows, PaymentView
<1>b. \A r \in Rows : Unsettled(r) =>
        /\ order[r] \in Order /\ order[r].status = "PENDING" /\ order[r].qr = order[r].amountMinor
        /\ moved[r] \in {0, order[r].amountMinor}
        /\ moved[r] \in Nat /\ granted[r] \in Nat /\ order[r].creditUnits \in Nat
        /\ order = [order EXCEPT ![r] = order[r]] /\ moved = [moved EXCEPT ![r] = moved[r]]
        /\ granted = [granted EXCEPT ![r] = granted[r]]
  <2> SUFFICES ASSUME NEW r \in Rows, Unsettled(r)
               PROVE  /\ order[r] \in Order /\ order[r].status = "PENDING" /\ order[r].qr = order[r].amountMinor
                      /\ moved[r] \in {0, order[r].amountMinor}
                      /\ moved[r] \in Nat /\ granted[r] \in Nat /\ order[r].creditUnits \in Nat
                      /\ order = [order EXCEPT ![r] = order[r]] /\ moved = [moved EXCEPT ![r] = moved[r]]
                      /\ granted = [granted EXCEPT ![r] = granted[r]]
    OBVIOUS
  <2>1. /\ order[r] \in Order /\ order[r].status = "PENDING" /\ order[r].qr = order[r].amountMinor
        /\ moved[r] \in {0, order[r].amountMinor}
    BY <1>a DEF Unsettled, TermsInv, RowsKeepTerms
  <2>2. order \in [Rows -> Order \cup {Absent}] /\ moved \in [Rows -> Nat] /\ granted \in [Rows -> Nat]
    BY DEF TermsInv, TermsTypeOK
  <2> QED
    BY <2>1, <2>2 DEF Order
<1>5. ASSUME NEW r \in Rows, Ages(r) PROVE TermsInv'
  <2> DEFINE o == [order[r] EXCEPT !.fresh = FALSE]
  <2>1. Unsettled(r) /\ order' = [order EXCEPT ![r] = o] /\ UNCHANGED <<catalog, picked, moved, granted, views>>
    BY <1>5 DEF Ages
  <2>2. o \in Order /\ o.item = order[r].item /\ o.amountMinor = order[r].amountMinor /\ o.status = "PENDING"
        /\ o.creditUnits = order[r].creditUnits /\ o.qr = order[r].qr
    BY <1>b, <2>1 DEF Order
  <2> HIDE DEF o
  <2>3. /\ moved' = [moved EXCEPT ![r] = moved[r]] /\ granted' = [granted EXCEPT ![r] = granted[r]]
        /\ granted[r] \in Nat
    BY <1>b, <2>1
  <2> QED
    BY <2>1, <2>2, <2>3, RowsMove
<1>6. ASSUME NEW r \in Rows, PayQr(r) PROVE TermsInv'
  <2>1. /\ Unsettled(r) /\ moved' = [moved EXCEPT ![r] = order[r].qr]
        /\ UNCHANGED <<catalog, picked, order, granted, views>>
    BY <1>6 DEF PayQr
  <2>2. /\ order[r] \in Order /\ order[r].status = "PENDING" /\ order[r].qr \in {moved[r], order[r].amountMinor}
        /\ order' = [order EXCEPT ![r] = order[r]] /\ granted' = [granted EXCEPT ![r] = granted[r]]
        /\ granted[r] \in Nat
    BY <1>b, <2>1
  <2> QED
    BY <2>1, <2>2, RowsMove
<1>7. ASSUME NEW r \in Rows, SettleTerms(r) PROVE TermsInv'
  <2>1. Unsettled(r) /\ moved[r] # 0 /\ UNCHANGED <<catalog, picked, moved, views>>
    BY <1>7 DEF SettleTerms
  <2>2. moved[r] = order[r].amountMinor
    BY <1>b, <2>1
  <2> DEFINE o == [order[r] EXCEPT !.status = "PAID"]
  <2>3. order' = [order EXCEPT ![r] = o] /\ granted' = [granted EXCEPT ![r] = order[r].creditUnits]
    BY <1>7, <2>2 DEF SettleTerms
  <2>4. o \in Order /\ o.item = order[r].item /\ o.amountMinor = order[r].amountMinor /\ o.status = "PAID"
        /\ o.creditUnits = order[r].creditUnits /\ o.qr = order[r].qr
    BY <1>b, <2>1 DEF Order
  <2> HIDE DEF o
  <2> QED
    BY <1>b, <2>1, <2>3, <2>4, RowsMove
<1>8. ASSUME NEW r \in Rows, Expires(r) PROVE TermsInv'
  <2> DEFINE o == [order[r] EXCEPT !.status = "EXPIRED"]
  <2>1. Unsettled(r) /\ order' = [order EXCEPT ![r] = o] /\ UNCHANGED <<catalog, picked, moved, granted, views>>
    BY <1>8 DEF Expires
  <2>2. o \in Order /\ o.item = order[r].item /\ o.amountMinor = order[r].amountMinor /\ o.status = "EXPIRED"
        /\ o.creditUnits = order[r].creditUnits /\ o.qr = order[r].qr
    BY <1>b, <2>1 DEF Order
  <2> HIDE DEF o
  <2> QED
    BY <1>b, <2>1, <2>2, RowsMove, ZenonT(60)
<1>9. ASSUME UNCHANGED termsVars PROVE TermsInv'
  BY <1>9 DEF termsVars, TermsInv, TermsTypeOK, PacksDiffer, PickedIsListed, RowsKeepTerms, ViewsAreOfRows, PaymentView
<1> QED
  BY <1>1, <1>2, <1>3, <1>4, <1>5, <1>6, <1>7, <1>8, <1>9 DEF TermsNext

(* It is an invariant of checkouts under any settings. *)
LEMMA TermsInvariance == TermsSpec => []TermsInv
<1> QED
  BY TermsInitEstablishes, TermsInvKept, PTL DEF TermsSpec

(* A new row is opened for an item of the list of now.                     *)
LEMMA NewRowsAreListed ==
    ASSUME TermsInv, [TermsNext]_termsVars, NEW r \in Rows, order[r] = Absent, order'[r] # Absent,
           picked[order'[r].by].of = catalog
    PROVE  PaymentView(order'[r]) = [amount |-> picked[order'[r].by].item.price,
                                     credits |-> picked[order'[r].by].item.credits]
<1>1. ASSUME NEW b \in Buyers, OpenCheckout(b)
      PROVE  PaymentView(order'[r]) = [amount |-> picked[order'[r].by].item.price,
                                       credits |-> picked[order'[r].by].item.credits]
  <2>1. PICK id : id = picked[b].item.id
    OBVIOUS
  <2>2. PICK item \in Resolve(id) :
          \/ order' = order
          \/ \E x \in Rows :
               order' = [order EXCEPT ![x] =
                 [item |-> id, by |-> b, amountMinor |-> item.price, creditUnits |-> item.credits,
                  qr |-> item.price, status |-> "PENDING", fresh |-> TRUE]]
    BY <1>1, <2>1 DEF OpenCheckout
  <2>3. order'[r] = [item |-> id, by |-> b, amountMinor |-> item.price, creditUnits |-> item.credits,
                     qr |-> item.price, status |-> "PENDING", fresh |-> TRUE]
    BY <2>2 DEF TermsInv, TermsTypeOK
  <2>4. catalog # Absent /\ picked[b] # Absent /\ picked[b].item \in Item /\ id \in PlanIds \cup Nat
    BY <1>1, <2>1 DEF OpenCheckout, TermsInv, TermsTypeOK, Item
  <2>5. order'[r].by = b /\ PaymentView(order'[r]) = [amount |-> item.price, credits |-> item.credits]
    BY <2>3 DEF PaymentView
  <2>6. picked[b].of = catalog
    BY <2>5
  <2>7. item.price = picked[b].item.price /\ item.credits = picked[b].item.credits
    <3>1. /\ id \in PlanIds => item = catalog.plans[id]
          /\ id \notin PlanIds => \A i \in DOMAIN catalog.packs : catalog.packs[i].id = id => catalog.packs[i] = item
      BY <2>2, <2>4, ResolvedItem
    <3>2. CASE id \in PlanIds
      BY <2>1, <2>4, <2>6, <3>1, <3>2 DEF TermsInv, PickedIsListed
    <3>3. CASE id \notin PlanIds
      <4>1. PICK i \in DOMAIN catalog.packs : catalog.packs[i] = picked[b].item
        BY <2>1, <2>4, <2>6, <3>3 DEF TermsInv, PickedIsListed
      <4> QED
        BY <2>1, <3>1, <3>3, <4>1
    <3> QED
      BY <3>2, <3>3
  <2> QED
    BY <2>5, <2>7
<1>2. ASSUME NEW x \in Rows, Ages(x) \/ PayQr(x) \/ SettleTerms(x) \/ Expires(x) PROVE FALSE
  <2>1. order[x] # Absent /\ \A y \in Rows : y # x => order'[y] = order[y]
    BY <1>2 DEF Ages, PayQr, SettleTerms, Expires, Unsettled, TermsInv, TermsTypeOK
  <2> QED
    BY <2>1
<1> QED
  BY <1>1, <1>2 DEF TermsNext, termsVars, Start, Pick, RefuseCheckout

(* Whoever was shown a list and a checkout gets what they said, for the    *)
(* price they said, under any settings the server is restarted with: rows  *)
(* carry their own terms, a pack's id is its amount, and a list with the   *)
(* same amount twice or too many packs does not start a server             *)
(* (parseCreditPacks, resolvePurchase, createCheckout, refresh).           *)
THEOREM CheckoutsKeepTheirTerms == TermsSpec => TermsAreKept
<1>1. TermsInv => ShownTermsAreKept
  <2> SUFFICES ASSUME TermsInv, NEW r \in Rows, NEW t \in views[r]
               PROVE  /\ moved[r] # 0 => moved[r] = t.view.amount
                      /\ order[r].status = "PAID" => moved[r] # 0 /\ granted[r] = t.view.credits
                      /\ moved[r] # 0 => order[r].status # "FAILED"
    BY DEF ShownTermsAreKept
  <2>1. order[r] # Absent /\ t.view = PaymentView(order[r])
    BY DEF TermsInv, ViewsAreOfRows
  <2>2. t.view.amount = order[r].amountMinor /\ t.view.credits = order[r].creditUnits
    BY <2>1 DEF PaymentView
  <2> QED
    BY <2>1, <2>2 DEF TermsInv, RowsKeepTerms
<1>2. TermsInv => PackIsWhatWasPicked
  <2> SUFFICES ASSUME TermsInv, NEW r \in Rows, NEW t \in views[r], t.item.id \notin PlanIds
               PROVE  t.view.credits = t.item.credits
    BY DEF PackIsWhatWasPicked
  <2>1. /\ order[r] # Absent /\ t.view = PaymentView(order[r]) /\ t.item.id = order[r].item
        /\ t.item.credits = t.item.id
    BY DEF TermsInv, ViewsAreOfRows
  <2>2. t.view.credits = order[r].creditUnits
    BY <2>1 DEF PaymentView
  <2> QED
    BY <2>1, <2>2 DEF TermsInv, RowsKeepTerms
<1>3. TermsInv => TermsTypeOK /\ ShownTermsAreKept /\ PackIsWhatWasPicked
  BY <1>1, <1>2 DEF TermsInv
<1>4. TermsInv /\ [TermsNext]_termsVars =>
        [\A r \in Rows : order[r] = Absent /\ order'[r] # Absent =>
            LET p == picked[order'[r].by]
            IN  p.of = catalog => PaymentView(order'[r]) = [amount |-> p.item.price, credits |-> p.item.credits]
        ]_termsVars
  BY NewRowsAreListed
<1> QED
  BY <1>3, <1>4, TermsInvariance, PTL DEF TermsSpec, TermsAreKept, NewCheckoutIsAsListed

-----------------------------------------------------------------------------
(***************************************************************************)
(* BakongGateway: any price, any fineness of amounts, any lookups at once. *)
(***************************************************************************)

(* What the bank can answer, and what a request holds of it. *)
BankAnswers == {Nothing, Rejected} \cup {Paid(t) : t \in Transfers}

LookupsTyped ==
    /\ sandbox \in BOOLEAN /\ overdue \in BOOLEAN
    /\ status \in {"PENDING", "PAID", "FAILED", "EXPIRED"}
    /\ transfer \in BankAnswers /\ results \in BankAnswers
    /\ lookup \in [Lookups -> [at : {"idle", "read", "simulate", "answered"}, late : BOOLEAN,
                               outcome : Outcomes, answer : BankAnswers]]
    /\ told \subseteq {"whole", "other"}
    /\ IF sandbox THEN transfer = Nothing ELSE results = Nothing

(* Whatever was answered was told first; the bank says one thing, for good, *)
(* and a transfer that was not there when the grace was over never comes.   *)
AnswersWereTold ==
    /\ \A a \in {transfer, results} : a # Nothing => Says(a) \in told
    /\ ~sandbox => told = IF transfer = Nothing THEN {} ELSE {Says(transfer)}
    /\ \A c \in Lookups :
         /\ lookup[c].answer # Nothing => Says(lookup[c].answer) \in told
         /\ lookup[c].late => overdue
         /\ lookup[c].at = "simulate" => sandbox
         /\ ~sandbox => /\ lookup[c].answer \in {Nothing, transfer}
                        /\ lookup[c].late /\ lookup[c].answer = Nothing => transfer = Nothing
    /\ ~sandbox /\ status = "EXPIRED" => overdue /\ transfer = Nothing

GatewayInv == LookupsTyped /\ AnswersWereTold /\ SettledAsTold

-----------------------------------------------------------------------------
(* Rounding loses the trace a binary fraction has beside the whole cents,  *)
(* and nothing else (Math.round in toMinor).                               *)
LEMMA RoundingIsExact ==
    ASSUME NEW c \in Int, NEW e \in -1..1 PROVE ToMinor(Parts * c + e) = c
<1>1. Parts \in Int /\ Parts > 2 /\ e \in Int /\ -1 <= e /\ e <= 1
  BY PriceAssumption
<1>2. \A a, b, q, r \in Int : b > 0 /\ a = q * b + r /\ 0 <= r /\ r < b => a \div b = q
  BY Z3
<1>3. Parts * c \in Int
  BY <1>1
<1>4. 2 * (Parts * c + e) + Parts = c * (2 * Parts) + (2 * e + Parts)
  BY <1>1
<1>5. 2 * Parts \in Int /\ 2 * Parts > 0 /\ 2 * e + Parts \in Int /\ 0 <= 2 * e + Parts /\ 2 * e + Parts < 2 * Parts
  BY <1>1
<1>6. 2 * (Parts * c + e) + Parts \in Int
  BY <1>1, <1>3
<1> QED
  BY <1>2, <1>4, <1>5, <1>6 DEF ToMinor

(* A transfer mismatches exactly when it is not the whole price, to us. *)
LEMMA MismatchIsNotWhole == \A t \in Transfers : FindMismatch(t) <=> ~Whole(t)
<1> SUFFICES ASSUME NEW t \in Transfers PROVE FindMismatch(t) <=> ~Whole(t)
  OBVIOUS
<1>1. PICK c \in Price - 1 .. Price + 1, e \in -1..1 : t.amount = Parts * c + e
  BY DEF Transfers
<1>2. Parts \in Int /\ Parts > 2 /\ Price \in Int /\ c \in Int /\ e \in Int /\ -1 <= e /\ e <= 1
  BY PriceAssumption
<1>3. ToMinor(t.amount) = c
  BY <1>1, <1>2, RoundingIsExact
<1>4. c = Price \/ c = Price - 1 \/ c = Price + 1
  BY <1>2
<1>5. t.amount \in Parts * Price - 1 .. Parts * Price + 1 <=> c = Price
  <2>1. CASE c = Price
    BY <2>1, <1>1, <1>2
  <2>2. CASE c = Price - 1
    <3>1. Parts * c = Parts * Price - Parts
      BY <2>2, <1>2
    <3> QED
      BY <3>1, <2>2, <1>1, <1>2
  <2>3. CASE c = Price + 1
    <3>1. Parts * c = Parts * Price + Parts
      BY <2>3, <1>2
    <3> QED
      BY <3>1, <2>3, <1>1, <1>2
  <2> QED
    BY <1>4, <2>1, <2>2, <2>3
<1>6. t.to \in Names /\ t.currency \in Currencies
  BY DEF Transfers
<1>7. FindMismatch(t) <=> t.to = "another" \/ t.currency = "KHR" \/ c # Price
  BY <1>3, <1>6 DEF FindMismatch, Names, Currencies
<1> QED
  BY <1>5, <1>7 DEF Whole

(* What a reply says is what the bank has done, or an error to be caught.  *)
LEMMA RepliesAreRead ==
    ASSUME transfer \in BankAnswers, NEW reply \in Replies \cup {Unreadable}
    PROVE  CheckTransactionByMd5(reply) \in {Thrown, transfer}
<1>1. CASE reply \in {Envelope(1, 15, Nothing), Envelope(1, 0, Nothing), Envelope(0, 0, Nothing), Unreadable}
  BY <1>1 DEF CheckTransactionByMd5, Envelope, Unreadable
<1>2. CASE transfer = Nothing /\ reply = Envelope(1, 1, Nothing)
  BY <1>2 DEF CheckTransactionByMd5, Envelope
<1>3. CASE transfer = Rejected /\ reply = Envelope(1, 3, Nothing)
  BY <1>3 DEF CheckTransactionByMd5, Envelope
<1>4. CASE transfer # Nothing /\ reply = Envelope(0, 0, transfer)
  BY <1>4 DEF CheckTransactionByMd5, Envelope
<1> QED
  BY <1>1, <1>2, <1>3, <1>4 DEF Replies

(* A result that is simulated is one the bank could answer.                *)
LEMMA SimulatedIsAnswer ==
    ASSUME NEW outcome, NEW e \in -1..1 PROVE Simulated(outcome, e) \in BankAnswers \ {Nothing}
<1>1. CASE outcome = "failed"
  BY <1>1 DEF Simulated, BankAnswers, Rejected, Nothing
<1>2. CASE outcome # "failed"
  <2>1. PICK c \in Price - 1 .. Price + 1 :
            Simulated(outcome, e) = Paid([to |-> "ours", currency |-> "USD", amount |-> Parts * c + e])
    <3>1. Price - 1 \in Price - 1 .. Price + 1 /\ Price \in Price - 1 .. Price + 1
      BY PriceAssumption
    <3> QED
      BY <1>2, <3>1 DEF Simulated
  <2>2. [to |-> "ours", currency |-> "USD", amount |-> Parts * c + e] \in Transfers
    BY DEF Transfers, Names, Currencies
  <2> QED
    BY <2>1, <2>2 DEF BankAnswers, Paid, Nothing
<1> QED
  BY <1>1, <1>2

(* Kinds of answers have different names.                                  *)
LEMMA AnswersDiffer ==
    /\ Nothing # Rejected /\ Thrown \notin BankAnswers
    /\ \A t : Paid(t) # Nothing /\ Paid(t) # Rejected /\ Paid(t).status = "PAID" /\ Paid(t).transaction = t
    /\ Nothing.status = "NOT_FOUND" /\ Rejected.status = "FAILED"
    /\ \A a \in BankAnswers : \/ a = Nothing /\ ~SaysWhole(a)
                              \/ a = Rejected /\ ~SaysWhole(a)
                              \/ a.status = "PAID" /\ a.transaction \in Transfers /\ a # Nothing /\ a # Rejected
<1>1. /\ Nothing # Rejected
      /\ \A t : /\ Paid(t) # Nothing /\ Paid(t) # Rejected /\ Paid(t) # Thrown
                /\ Paid(t).status = "PAID" /\ Paid(t).transaction = t
      /\ Nothing # Thrown /\ Rejected # Thrown
      /\ Nothing.status = "NOT_FOUND" /\ Rejected.status = "FAILED"
  BY DEF Nothing, Rejected, Thrown, Paid
<1> QED
  BY <1>1 DEF BankAnswers, SaysWhole

(* A verdict says what the answer said, and time is up only without one.   *)
LEMMA VerdictsAreTold ==
    ASSUME NEW l, l.answer \in BankAnswers, l.answer # Nothing => Says(l.answer) \in told
    PROVE  /\ VerdictOn(l) \in {"PENDING", "PAID", "FAILED", "EXPIRED"}
           /\ VerdictOn(l) = "PAID" => SaysWhole(l.answer) /\ "whole" \in told
           /\ VerdictOn(l) = "FAILED" => ~SaysWhole(l.answer) /\ "other" \in told
           /\ VerdictOn(l) = "EXPIRED" => l.late /\ l.answer = Nothing
<1>1. CASE l.answer = Nothing
  BY <1>1, AnswersDiffer DEF VerdictOn
<1>2. CASE l.answer = Rejected
  BY <1>2, AnswersDiffer DEF VerdictOn, Says
<1>3. CASE l.answer.status = "PAID" /\ l.answer.transaction \in Transfers /\ l.answer # Nothing
  BY <1>3, MismatchIsNotWhole DEF VerdictOn, Says, SaysWhole
<1> QED
  BY <1>1, <1>2, <1>3, AnswersDiffer

(* The invariant holds initially. *)
LEMMA GatewayInitEstablishes == GatewayInit => GatewayInv
<1>1. Nothing \in BankAnswers
  BY DEF BankAnswers
<1>2. Resting \in [at : {"idle", "read", "simulate", "answered"}, late : BOOLEAN,
                   outcome : Outcomes, answer : BankAnswers]
  BY <1>1 DEF Resting, Outcomes
<1>3. Resting.at = "idle" /\ Resting.late = FALSE /\ Resting.answer = Nothing
  BY DEF Resting
<1> QED
  BY <1>1, <1>2, <1>3 DEF GatewayInit, GatewayInv, LookupsTyped, AnswersWereTold, SettledAsTold

(* What becomes of a request: it is at rest, reads, or has an answer that  *)
(* was given now.                                                          *)
LEMMA RequestsMove ==
    ASSUME GatewayInv, NEW c \in Lookups, NEW l, Goes(c, l),
           l \in [at : {"idle", "read", "simulate", "answered"}, late : BOOLEAN,
                  outcome : Outcomes, answer : BankAnswers],
           UNCHANGED <<sandbox, status, transfer, overdue>>,
           results' \in BankAnswers, results' # Nothing => Says(results') \in told' /\ sandbox,
           told \subseteq told', told' \subseteq {"whole", "other"}, ~sandbox => told' = told,
           l.answer # Nothing => Says(l.answer) \in told',
           l.late => overdue, l.at = "simulate" => sandbox,
           ~sandbox => l.answer \in {Nothing, transfer} /\ (l.late /\ l.answer = Nothing => transfer = Nothing)
    PROVE  GatewayInv'
<1>1. LookupsTyped'
  <2>1. lookup' \in [Lookups -> [at : {"idle", "read", "simulate", "answered"}, late : BOOLEAN,
                                 outcome : Outcomes, answer : BankAnswers]]
    BY DEF Goes, GatewayInv, LookupsTyped
  <2>2. BankAnswers' = BankAnswers
    BY DEF BankAnswers
  <2> QED
    BY <2>1, <2>2 DEF GatewayInv, LookupsTyped
<1>2. \A x \in Lookups : lookup'[x] = IF x = c THEN l ELSE lookup[x]
  BY DEF Goes, GatewayInv, LookupsTyped
<1>3. AnswersWereTold'
  BY <1>2 DEF GatewayInv, AnswersWereTold
<1>4. SettledAsTold'
  BY DEF GatewayInv, SettledAsTold
<1> QED
  BY <1>1, <1>3, <1>4 DEF GatewayInv

(* Every step keeps it. *)
LEMMA GatewayInvKept == GatewayInv /\ [GatewayNext]_gatewayVars => GatewayInv'
<1> SUFFICES ASSUME GatewayInv, [GatewayNext]_gatewayVars PROVE GatewayInv'
  OBVIOUS
<1> DEFINE LookUp == [at : {"idle", "read", "simulate", "answered"}, late : BOOLEAN,
                      outcome : Outcomes, answer : BankAnswers]
<1>a. /\ sandbox \in BOOLEAN /\ overdue \in BOOLEAN /\ lookup \in [Lookups -> LookUp]
      /\ transfer \in BankAnswers /\ results \in BankAnswers /\ told \subseteq {"whole", "other"}
      /\ results # Nothing => Says(results) \in told /\ sandbox
  BY DEF GatewayInv, LookupsTyped, AnswersWereTold
<1>b. /\ Resting \in LookUp /\ Resting.at = "idle" /\ Resting.late = FALSE /\ Resting.answer = Nothing
      /\ BankAnswers' = BankAnswers
  BY DEF Resting, Outcomes, BankAnswers
<1>c. \A c \in Lookups :
        /\ lookup[c].answer \in BankAnswers
        /\ lookup[c].answer # Nothing => Says(lookup[c].answer) \in told
        /\ lookup[c].at = "simulate" => sandbox
  BY <1>a DEF GatewayInv, AnswersWereTold
<1> HIDE DEF LookUp
<1>1. ASSUME PayersBank PROVE GatewayInv'
  <2>1. /\ ~sandbox /\ ~overdue /\ transfer = Nothing /\ told = {}
        /\ transfer' \in BankAnswers /\ transfer' # Nothing /\ told' = {Says(transfer')}
        /\ UNCHANGED <<sandbox, status, results, lookup, overdue>>
    BY <1>1, AnswersDiffer DEF PayersBank, GatewayInv, AnswersWereTold, BankAnswers
  <2>2. LookupsTyped'
    BY <2>1, <1>a, <1>b DEF GatewayInv, LookupsTyped, Says
  <2>3. status # "EXPIRED" /\ status # "PAID" /\ status # "FAILED"
    BY <2>1 DEF GatewayInv, AnswersWereTold, SettledAsTold
  <2>4. \A c \in Lookups : lookup[c].answer = Nothing /\ ~lookup[c].late
    BY <2>1 DEF GatewayInv, AnswersWereTold
  <2>5. AnswersWereTold'
    BY <2>1, <2>3, <2>4, <1>a DEF GatewayInv, AnswersWereTold
  <2> QED
    BY <2>1, <2>2, <2>3, <2>5 DEF GatewayInv, SettledAsTold
<1>2. ASSUME GraceEnds PROVE GatewayInv'
  BY <1>2, <1>b DEF GraceEnds, GatewayInv, LookupsTyped, AnswersWereTold, SettledAsTold
<1>3. ASSUME RestartServer PROVE GatewayInv'
  <2>1. /\ sandbox /\ results' = Nothing /\ lookup' = [c \in Lookups |-> Resting]
        /\ UNCHANGED <<sandbox, status, transfer, overdue, told>>
    BY <1>3 DEF RestartServer
  <2>2. Nothing \in BankAnswers
    BY DEF BankAnswers
  <2>3. LookupsTyped'
    BY <2>1, <2>2, <1>b DEF GatewayInv, LookupsTyped, LookUp
  <2>4. AnswersWereTold'
    BY <2>1, <1>b DEF GatewayInv, AnswersWereTold
  <2> QED
    BY <2>1, <2>3, <2>4 DEF GatewayInv, SettledAsTold
<1>4. ASSUME NEW c \in Lookups, ReadPayment(c) PROVE GatewayInv'
  <2> DEFINE l == [Resting EXCEPT !.at = "read"]
  <2>1. l \in LookUp /\ l.at = "read" /\ l.late = FALSE /\ l.answer = Nothing
    BY <1>b DEF LookUp
  <2>2. Goes(c, l) /\ UNCHANGED <<sandbox, status, transfer, results, overdue, told>>
    BY <1>4 DEF ReadPayment
  <2> HIDE DEF l
  <2> QED
    BY <1>a, <2>1, <2>2, RequestsMove DEF LookUp
<1>5. ASSUME NEW c \in Lookups, NEW o \in Outcomes, ReadToSimulate(c, o) PROVE GatewayInv'
  <2> DEFINE l == [Resting EXCEPT !.at = "simulate", !.outcome = o]
  <2>1. l \in LookUp /\ l.at = "simulate" /\ l.late = FALSE /\ l.answer = Nothing
    BY <1>b DEF LookUp
  <2>2. sandbox /\ Goes(c, l) /\ UNCHANGED <<sandbox, status, transfer, results, overdue, told>>
    BY <1>5 DEF ReadToSimulate
  <2> HIDE DEF l
  <2> QED
    BY <1>a, <2>1, <2>2, RequestsMove DEF LookUp
<1>6. ASSUME NEW c \in Lookups, NEW answer \in BankAnswers \cup {Thrown}, Answered(c, answer)
      PROVE  \E l \in LookUp :
                /\ Goes(c, l) /\ l.at # "simulate" /\ (l.late => overdue)
                /\ l.answer = Nothing \/ l.answer = answer
                /\ l.late => l.answer = answer
  <2>1. PICK late \in {FALSE, overdue} :
            Goes(c, IF answer = Thrown THEN Resting
                    ELSE [Resting EXCEPT !.at = "answered", !.answer = answer, !.late = late])
    BY <1>6 DEF Answered
  <2>2. CASE answer = Thrown
    BY <2>1, <2>2, <1>b
  <2>3. CASE answer # Thrown
    <3> DEFINE l == [Resting EXCEPT !.at = "answered", !.answer = answer, !.late = late]
    <3>1. late \in BOOLEAN /\ (late => overdue)
      <4>1. CASE late = FALSE
        BY <4>1
      <4>2. CASE late = overdue
        BY <1>a, <4>2
      <4> QED
        BY <2>1, <4>1, <4>2
    <3>2. l \in LookUp /\ l.at = "answered" /\ l.answer = answer /\ l.late = late
      BY <1>b, <2>3, <3>1 DEF LookUp
    <3>3. Goes(c, l)
      BY <2>1, <2>3
    <3> HIDE DEF l
    <3> QED
      BY <3>1, <3>2, <3>3
  <2> QED
    BY <2>2, <2>3
<1>7. ASSUME NEW c \in Lookups, AskBakong(c) PROVE GatewayInv'
  <2>1. PICK reply \in Replies \cup {Unreadable} : Answered(c, CheckTransactionByMd5(reply))
    BY <1>7 DEF AskBakong
  <2>2. PICK answer : answer = CheckTransactionByMd5(reply)
    OBVIOUS
  <2>3. answer \in {Thrown, transfer}
    BY <1>a, <2>2, RepliesAreRead
  <2>4. PICK l \in LookUp : /\ Goes(c, l) /\ l.at # "simulate" /\ (l.late => overdue)
                            /\ l.answer = Nothing \/ l.answer = answer
                            /\ l.late => l.answer = answer
    BY <1>6, <1>a, <2>1, <2>2, <2>3
  <2>5. ~sandbox /\ UNCHANGED <<sandbox, status, transfer, results, overdue, told>>
    BY <1>7 DEF AskBakong
  <2>6. l.answer \in BankAnswers /\ l.answer \in {Nothing, transfer} /\ (l.late /\ l.answer = Nothing => transfer = Nothing)
    BY <2>3, <2>4, AnswersDiffer DEF LookUp
  <2>7. l.answer # Nothing => Says(l.answer) \in told
    BY <2>6 DEF GatewayInv, AnswersWereTold
  <2> QED
    BY <1>a, <2>4, <2>5, <2>6, <2>7, RequestsMove DEF LookUp
<1>8. ASSUME NEW c \in Lookups, AskSandbox(c) PROVE GatewayInv'
  <2>1. sandbox /\ Answered(c, results) /\ UNCHANGED <<sandbox, status, transfer, results, overdue, told>>
    BY <1>8 DEF AskSandbox
  <2>2. PICK l \in LookUp : /\ Goes(c, l) /\ l.at # "simulate" /\ (l.late => overdue)
                            /\ l.answer = Nothing \/ l.answer = results
    BY <1>6, <1>a, <2>1
  <2> QED
    BY <1>a, <2>1, <2>2, RequestsMove DEF LookUp
<1>9. ASSUME NEW c \in Lookups, Simulate(c) PROVE GatewayInv'
  <2>1. PICK e \in -1..1 : /\ results' = Simulated(lookup[c].outcome, e)
                           /\ told' = told \cup {Says(Simulated(lookup[c].outcome, e))}
                           /\ Answered(c, Simulated(lookup[c].outcome, e))
    BY <1>9 DEF Simulate
  <2>2. PICK answer : answer = Simulated(lookup[c].outcome, e)
    OBVIOUS
  <2>3. answer \in BankAnswers \ {Nothing}
    BY <2>2, SimulatedIsAnswer
  <2>4. PICK l \in LookUp : /\ Goes(c, l) /\ l.at # "simulate" /\ (l.late => overdue)
                            /\ l.answer = Nothing \/ l.answer = answer
    BY <1>6, <2>1, <2>2, <2>3
  <2>5. /\ sandbox /\ results' = answer /\ told' = told \cup {Says(answer)}
        /\ UNCHANGED <<sandbox, status, transfer, overdue>>
    BY <1>9, <1>c, <2>1, <2>2 DEF Simulate
  <2>6. told' \subseteq {"whole", "other"} /\ told \subseteq told' /\ Says(answer) \in told'
    BY <1>a, <2>5 DEF Says
  <2>7. Says(results') \in told' /\ results' \in BankAnswers /\ (l.answer # Nothing => Says(l.answer) \in told')
    BY <2>3, <2>4, <2>5, <2>6
  <2> QED
    BY <2>4, <2>5, <2>6, <2>7, RequestsMove DEF LookUp
<1>10. ASSUME NEW c \in Lookups, GiveUp(c) PROVE GatewayInv'
  <2>1. Goes(c, Resting) /\ UNCHANGED <<sandbox, status, transfer, results, overdue, told>>
    BY <1>10 DEF GiveUp
  <2> QED
    BY <1>a, <1>b, <2>1, RequestsMove DEF LookUp
<1>11. ASSUME NEW c \in Lookups, NEW new \in {"PENDING", "PAID", "FAILED", "EXPIRED"},
              new = "PAID" => "whole" \in told, new = "FAILED" => "other" \in told,
              new = "EXPIRED" /\ ~sandbox => overdue /\ transfer = Nothing,
              status' = IF status = "PENDING" THEN new ELSE status, Goes(c, Resting),
              UNCHANGED <<sandbox, transfer, results, overdue, told>>
       PROVE  GatewayInv'
  <2>1. \A x \in Lookups : lookup'[x] = IF x = c THEN Resting ELSE lookup[x]
    BY <1>a, <1>11 DEF Goes
  <2>2. lookup' \in [Lookups -> LookUp]
    BY <1>a, <1>b, <1>11 DEF Goes
  <2>3. LookupsTyped'
    BY <1>b, <2>2, <1>11 DEF GatewayInv, LookupsTyped, LookUp
  <2>4. AnswersWereTold' /\ SettledAsTold'
    BY <1>b, <2>1, <1>11 DEF GatewayInv, AnswersWereTold, SettledAsTold
  <2> QED
    BY <2>3, <2>4 DEF GatewayInv
<1>12. ASSUME NEW c \in Lookups, SimulateExpiry(c) PROVE GatewayInv'
  <2>1. /\ sandbox /\ status' = (IF status = "PENDING" THEN "EXPIRED" ELSE status) /\ Goes(c, Resting)
        /\ UNCHANGED <<sandbox, transfer, results, overdue, told>>
    BY <1>c, <1>12 DEF SimulateExpiry
  <2> QED
    BY <1>11, <2>1
<1>13. ASSUME NEW c \in Lookups, Settle(c) PROVE GatewayInv'
  <2>1. PICK new : new = VerdictOn(lookup[c])
    OBVIOUS
  <2>2. /\ status' = (IF status = "PENDING" THEN new ELSE status) /\ Goes(c, Resting)
        /\ UNCHANGED <<sandbox, transfer, results, overdue, told>>
    BY <2>1, <1>13 DEF Settle
  <2>3. /\ new \in {"PENDING", "PAID", "FAILED", "EXPIRED"}
        /\ new = "PAID" => "whole" \in told
        /\ new = "FAILED" => "other" \in told
        /\ new = "EXPIRED" => lookup[c].late /\ lookup[c].answer = Nothing
    BY <1>c, <2>1, VerdictsAreTold
  <2>4. new = "EXPIRED" /\ ~sandbox => overdue /\ transfer = Nothing
    BY <2>3 DEF GatewayInv, AnswersWereTold
  <2> QED
    BY <1>11, <2>2, <2>3, <2>4
<1>14. ASSUME UNCHANGED gatewayVars PROVE GatewayInv'
  BY <1>b, <1>14 DEF gatewayVars, GatewayInv, LookupsTyped, AnswersWereTold, SettledAsTold
<1> QED
  BY <1>1, <1>2, <1>3, <1>4, <1>5, <1>7, <1>8, <1>9, <1>10, <1>12, <1>13, <1>14 DEF GatewayNext

(* It is an invariant of the gateway. *)
LEMMA GatewayInvariance == GatewaySpec => []GatewayInv
<1> QED
  BY GatewayInitEstablishes, GatewayInvKept, PTL DEF GatewaySpec

(* Money that arrived whole is never turned away, in any state of the      *)
(* invariant.                                                              *)
LEMMA WholeIsHonoured == GatewayInv => WholePaymentIsHonoured
<1> SUFFICES ASSUME GatewayInv, SaysWhole(transfer)
             PROVE  /\ status \in {"PENDING", "PAID"}
                    /\ \A c \in Lookups : lookup[c].at = "answered" => VerdictOn(lookup[c]) \in {"PENDING", "PAID"}
  BY DEF WholePaymentIsHonoured
<1>1. transfer # Nothing /\ ~sandbox /\ told = {"whole"}
  BY AnswersDiffer DEF GatewayInv, LookupsTyped, AnswersWereTold, Says
<1>2. status \in {"PENDING", "PAID"}
  BY <1>1 DEF GatewayInv, LookupsTyped, AnswersWereTold, SettledAsTold
<1>3. ASSUME NEW c \in Lookups PROVE VerdictOn(lookup[c]) \in {"PENDING", "PAID"}
  <2>1. /\ lookup[c].answer \in BankAnswers
        /\ lookup[c].answer # Nothing => Says(lookup[c].answer) \in told
        /\ lookup[c].late /\ lookup[c].answer = Nothing => transfer = Nothing
    BY <1>1 DEF GatewayInv, LookupsTyped, AnswersWereTold
  <2> QED
    BY <1>1, <2>1, VerdictsAreTold
<1> QED
  BY <1>2, <1>3

(* An error of Bakong's settles nothing, a whole transfer is recognised    *)
(* whatever its letters, trace and time, and nothing else is taken for one *)
(* (bakong/client.ts, refresh and findMismatch).                           *)
THEOREM AnswersAreUnderstood == GatewaySpec => []AnswersMeanWhatTheySay
<1>1. GatewayInv => GatewayTypeOK
  <2> SUFFICES ASSUME GatewayInv PROVE GatewayTypeOK
    OBVIOUS
  <2>1. \A a \in BankAnswers : a.status \in {"NOT_FOUND", "FAILED", "PAID"}
    BY AnswersDiffer
  <2> QED
    BY <2>1 DEF GatewayInv, LookupsTyped, GatewayTypeOK
<1>2. GatewayInv => AnswersMeanWhatTheySay
  BY <1>1, WholeIsHonoured DEF GatewayInv, AnswersMeanWhatTheySay
<1> QED
  BY <1>2, GatewayInvariance, PTL

-----------------------------------------------------------------------------
(***************************************************************************)
(* ServerLife: any number of connections and passes.                       *)
(***************************************************************************)

(* The intervals that are set belong to a phase that wants them. *)
TimersFitPhase ==
    Alive => /\ "reconcile" \in ticking => phase = "up"
             /\ ticking # {} => PoolOpen

(* Past the connections, none is left with somebody waiting on it. *)
NoneConnected ==
    /\ ~PoolOpen => \A r \in Requests : connection[r] \in {"none", "cut"}
    /\ PoolOpen => \A w \in Workers : worker[w] # "refused"

(* The flag is up as long as a pass is, and there is one pass at a time. *)
OnePass ==
    /\ \A w \in Reconcilers : worker[w] # "none" => reconciling
    /\ \A v, w \in Reconcilers : worker[v] # "none" /\ worker[w] # "none" => v = w

ServerInv == ServerTypeOK /\ TimersFitPhase /\ NoneConnected /\ OnePass

-----------------------------------------------------------------------------
(* The invariant holds initially. *)
LEMMA ServerInitEstablishes == ServerInit => ServerInv
  BY WorkersAssumption
  DEF ServerInit, ServerInv, ServerTypeOK, TimersFitPhase, NoneConnected, OnePass, PoolOpen, Workers,
      Passes, Signals

(* Every step keeps it. *)
LEMMA ServerInvKept == ServerInv /\ [ServerNext]_serverVars => ServerInv'
<1> SUFFICES ASSUME ServerInv, [ServerNext]_serverVars PROVE ServerInv'
  OBVIOUS
<1> USE WorkersAssumption
    DEF ServerInv, ServerTypeOK, TimersFitPhase, NoneConnected, OnePass, PoolOpen, Alive, Turns,
        Workers, Passes, Signals
<1>1. ASSUME NEW r \in Requests, Receive(r) PROVE ServerInv'
  BY <1>1 DEF Receive
<1>2. ASSUME NEW r \in Requests, Respond(r) PROVE ServerInv'
  BY <1>2 DEF Respond
<1>3. ASSUME NEW r \in Requests, CloseIdle(r) PROVE ServerInv'
  BY <1>3 DEF CloseIdle
<1>4. ASSUME NEW w \in Workers, Query(w) PROVE ServerInv'
  BY <1>4 DEF Query
<1>5. ASSUME NEW w \in Workers, QueryDone(w) PROVE ServerInv'
  BY <1>5 DEF QueryDone
<1>6. ASSUME NEW w \in Reconcilers, Reconciled(w) PROVE ServerInv'
  BY <1>6 DEF Reconciled
<1>7. ASSUME NEW w \in Sweepers, Swept(w) PROVE ServerInv'
  BY <1>7 DEF Swept
<1>8. ASSUME NEW w \in Reconcilers, Reconcile(w) PROVE ServerInv'
  <2>1. ServerTypeOK' /\ TimersFitPhase' /\ NoneConnected'
    BY <1>8 DEF Reconcile
  <2>2. \A v \in Reconcilers : v # w => worker'[v] = "none"
    BY <1>8 DEF Reconcile
  <2>3. reconciling'
    BY <1>8 DEF Reconcile
  <2>4. OnePass'
    BY <2>2, <2>3
  <2> QED
    BY <2>1, <2>4
<1>9. ASSUME NEW w \in Sweepers, Sweep(w) PROVE ServerInv'
  BY <1>9 DEF Sweep
<1>10. ASSUME NEW s \in Signals, Signal(s) PROVE ServerInv'
  <2>0. once' \in SUBSET Signals /\ ticking' \in SUBSET {"reconcile", "sweep"}
    <3>1. once' = once \ {s} /\ (ticking' = ticking \/ ticking' = ticking \ {"reconcile"})
      BY <1>10 DEF Signal
    <3> QED
      BY <3>1
  <2>1. CASE s \notin once
    <3>1. phase' = "killed" /\ \A w \in Workers : worker'[w] = "none"
      BY <1>10, <2>1 DEF Signal
    <3>2. ServerTypeOK'
      BY <1>10, <2>0, <2>1 DEF Signal
    <3>3. \A r \in Requests : connection'[r] = "none"
      BY <1>10, <2>1 DEF Signal
    <3> QED
      BY <3>1, <3>2, <3>3
  <2>2. CASE s \in once /\ phase = "up"
    <3>1. /\ phase' = "closing" /\ ticking' = ticking \ {"reconcile"} /\ force' = "set"
          /\ UNCHANGED <<worker, reconciling>>
          /\ connection' = [r \in Requests |-> IF connection[r] = "idle" THEN "none" ELSE connection[r]]
      BY <1>10, <2>2 DEF Signal
    <3>2. ServerTypeOK'
      BY <2>0, <3>1
    <3>3. TimersFitPhase'
      BY <3>1, <2>2
    <3>4. NoneConnected' /\ OnePass'
      BY <3>1, <2>2
    <3> QED
      BY <3>2, <3>3, <3>4
  <2>3. CASE s \in once /\ phase # "up"
    BY <1>10, <2>3, ZenonT(60) DEF Signal
  <2> QED
    BY <2>1, <2>2, <2>3
<1>11. ASSUME Closed PROVE ServerInv'
  BY <1>11 DEF Closed, Finish
<1>12. ASSUME CutConnections PROVE ServerInv'
  <2>1. /\ phase = "closing" /\ phase' = "ending" /\ ticking' = {} /\ force' = "fired"
        /\ UNCHANGED <<worker, reconciling, once>>
        /\ connection' = [r \in Requests |-> IF connection[r] = "busy" THEN "cut" ELSE "none"]
    BY <1>12 DEF CutConnections, Finish
  <2>2. ServerTypeOK'
    <3>1. ticking' \in SUBSET {"reconcile", "sweep"}
      BY <2>1
    <3>2. connection' \in [Requests -> {"none", "busy", "idle", "cut"}]
      BY <2>1
    <3> QED
      BY <2>1, <3>1, <3>2
  <2>3. TimersFitPhase' /\ NoneConnected' /\ OnePass'
    BY <2>1
  <2> QED
    BY <2>2, <2>3
<1>13. ASSUME PoolEnded PROVE ServerInv'
  BY <1>13 DEF PoolEnded
<1>14. CASE UNCHANGED serverVars
  BY <1>14 DEF serverVars
<1> QED
  BY <1>1, <1>2, <1>3, <1>4, <1>5, <1>6, <1>7, <1>8, <1>9, <1>10, <1>11, <1>12, <1>13, <1>14
  DEF ServerNext, PassStep

(* It is an invariant of the process. *)
LEMMA ServerInvariant == ServerSpec => []ServerInv
<1> QED
  BY ServerInitEstablishes, ServerInvKept, PTL DEF ServerSpec

-----------------------------------------------------------------------------
(* What the state says of the connections, and of queries after the pool's *)
(* end, is always true.                                                    *)
THEOREM ServerTypes == ServerSpec => []ServerTypeOK
<1>1. ServerInv => ServerTypeOK
  BY DEF ServerInv
<1> QED
  BY <1>1, ServerInvariant, PTL

(* Nobody who still waits for an answer meets an ended pool (shutdown,     *)
(* finish and forceTimer of startServer).                                  *)
THEOREM ConnectedAreAnswered == ServerSpec => []AnsweredWhileConnected
<1>1. ServerInv => AnsweredWhileConnected
  BY DEF ServerInv, NoneConnected, AnsweredWhileConnected, Workers, PoolOpen
<1> QED
  BY <1>1, ServerInvariant, PTL

(* Passes of the reconciler never overlap (the flag of reconcileTimer).    *)
THEOREM ReconcilersTakeTurns == ServerSpec => []OneReconciler
<1>1. ASSUME ServerInv PROVE OneReconciler
  <2> DEFINE busy == {w \in Reconcilers : worker[w] # "none"}
  <2>1. CASE busy = {}
    BY <2>1, FS_EmptySet, <1>1 DEF OneReconciler, ServerInv, ServerTypeOK
  <2>2. ASSUME NEW w \in busy PROVE OneReconciler
    <3>1. busy = {w} /\ reconciling
      BY <1>1 DEF ServerInv, OnePass
    <3>2. Cardinality({w}) = 1
      BY FS_Singleton
    <3> QED
      BY <3>1, <3>2 DEF OneReconciler
  <2> QED
    BY <2>1, <2>2
<1> QED
  BY <1>1, ServerInvariant, PTL

(* No pass begins behind a shutdown that is past its connections.          *)
THEOREM NoPassBehindShutdown == ServerSpec => NoPassWhenEnding
<1>1. ASSUME ServerInv, ServerNext, NEW w \in Passes, worker[w] = "none", worker'[w] # "none"
      PROVE  phase = "up" \/ (phase = "closing" /\ w \in Sweepers)
  <2> USE <1>1, WorkersAssumption
      DEF ServerInv, ServerTypeOK, TimersFitPhase, Alive, PoolOpen, Turns, Workers, Passes
  <2> DEFINE Fits == phase = "up" \/ (phase = "closing" /\ w \in Sweepers)
  <2>1. ASSUME NEW v \in Reconcilers, Reconcile(v) PROVE Fits
    BY <2>1 DEF Reconcile
  <2>2. ASSUME NEW v \in Sweepers, Sweep(v) PROVE Fits
    BY <2>2 DEF Sweep
  <2>3. ASSUME NEW v \in Workers, Query(v) \/ QueryDone(v) PROVE Fits
    BY <2>3 DEF Query, QueryDone
  <2>4. ASSUME NEW v \in Passes, Reconciled(v) \/ Swept(v) PROVE Fits
    BY <2>4 DEF Reconciled, Swept
  <2>5. ASSUME NEW r \in Requests, Receive(r) \/ Respond(r) \/ CloseIdle(r) PROVE Fits
    BY <2>5 DEF Receive, Respond, CloseIdle
  <2>6. ASSUME NEW s \in Signals, Signal(s) PROVE Fits
    BY <2>6 DEF Signal
  <2>7. ASSUME Closed \/ CutConnections \/ PoolEnded PROVE Fits
    BY <2>7 DEF Closed, CutConnections, PoolEnded
  <2> QED
    BY <2>1, <2>2, <2>3, <2>4, <2>5, <2>6, <2>7 DEF ServerNext, PassStep
<1>2. ServerInv /\ [ServerNext]_serverVars =>
        [\A w \in Passes : worker[w] = "none" /\ worker'[w] # "none" =>
            phase = "up" \/ (phase = "closing" /\ w \in Sweepers)]_serverVars
  BY <1>1
<1> QED
  BY <1>2, ServerInvariant, PTL DEF ServerSpec, NoPassWhenEnding

(* Requests, timers and the shutdown of one process never stand in each    *)
(* other's way, for any number of requests, sweepers and passes.           *)
THEOREM ShutdownSafety == ServerSpec => ShutdownIsSafe
BY ServerTypes, ConnectedAreAnswered, ReconcilersTakeTurns, NoPassBehindShutdown, PTL
DEF ShutdownIsSafe
=============================================================================
