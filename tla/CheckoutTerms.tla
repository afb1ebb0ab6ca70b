---------------------------- MODULE CheckoutTerms ----------------------------
(***************************************************************************)
(* What a checkout costs and grants when the settings change under it.     *)
(* Prices and credits come from the environment, parsed when the server    *)
(* starts (parseBillingPlans, parseCreditPacks); checkouts are rows of     *)
(* payments and outlive a restart.  A buyer picks an item from a list,     *)
(* maybe an old one, and asks for it by its id; the QR is paid and settled *)
(* under whatever settings the server has by then.                         *)
(*                                                                         *)
(* A price is a number of tenths of a cent.  A pack's id is the number in  *)
(* `credits-<n>`.  Payments has the races of a checkout, BakongGateway the *)
(* transfers of another amount; here a request is one step, and a payer    *)
(* pays what the QR says.                                                  *)
(***************************************************************************)
EXTENDS Integers, Sequences, SequencesExt, FiniteSetsExt

CONSTANTS
    Environments,       \* settings the server may be started with
    PlanIds,
    Buyers, Purchasers, \* members of the workspace; those who own it
    Rows,               \* of payments
    MaxPacks,           \* of CREDIT_PACKS
    Absent              \* no server, no row, nothing picked

ASSUME TermsAssumption == Purchasers \subseteq Buyers /\ MaxPacks \in Nat

VARIABLES
    catalog,  \* options.plans and options.creditPacks of the running server
    picked,   \* picked[b]: an item of a list b was shown, and the whole list
    order,    \* payments
    moved,    \* moved[r]: the cents the payer of r's QR has sent
    granted,  \* granted[r]: the ledger row of r
    views      \* history: views[r]: what was picked, and the view that r's buyers got

termsVars == <<catalog, picked, order, moved, granted, views>>

Plan == [price : Nat, credits : Nat, available : BOOLEAN]
Item == [id : PlanIds \cup Nat, price : Nat, credits : Nat]
Catalog == [plans : [PlanIds -> Plan], packs : Seq(Item)]
Order == [item : PlanIds \cup Nat, by : Buyers, amountMinor : Nat, creditUnits : Nat, qr : Nat,
          status : {"PENDING", "PAID", "FAILED", "EXPIRED"}, fresh : BOOLEAN]

\* What the environment may say is any number; no row is an absent one.
ASSUME SettingsAssumption ==
    /\ Environments \subseteq [plans : [PlanIds -> [price : Int, credits : Int, available : BOOLEAN]],
                               packs : Seq([price : Int, credits : Int])]
    /\ PlanIds \cap Nat = {}
    /\ Absent \notin Order

TermsTypeOK ==
    /\ catalog \in Catalog \cup {Absent}
    /\ catalog # Absent => Len(catalog.packs) <= MaxPacks
    /\ picked \in [Buyers -> [item : Item, of : Catalog] \cup {Absent}]
    /\ order \in [Rows -> Order \cup {Absent}]
    /\ moved \in [Rows -> Nat] /\ granted \in [Rows -> Nat]
    /\ views \in [Rows -> SUBSET [item : Item, view : [amount : Nat, credits : Nat]]]

-----------------------------------------------------------------------------
(* The settings.                                                           *)

MaxPrice == 10000000
MaxCredits == 1000000

PlanPrice(price) == price \in 10..MaxPrice /\ price % 10 = 0

Cents(price) == price \div 10

\* Mutant: the same credit amount may be listed twice.
ValidPacksTwice(packs) ==
    /\ Len(packs) <= MaxPacks
    /\ \A i \in DOMAIN packs : PlanPrice(packs[i].price) /\ packs[i].credits \in 1..MaxCredits

\* Mutant: the number of packs is not looked at.
ValidPacksMany(packs) ==
    /\ \A i \in DOMAIN packs : PlanPrice(packs[i].price) /\ packs[i].credits \in 1..MaxCredits
    /\ \A i, j \in DOMAIN packs : packs[i].credits = packs[j].credits => i = j

ValidPacks(packs) ==
    /\ Len(packs) <= MaxPacks
    /\ \A i \in DOMAIN packs : PlanPrice(packs[i].price) /\ packs[i].credits \in 1..MaxCredits
    /\ \A i, j \in DOMAIN packs : packs[i].credits = packs[j].credits => i = j

PackId(packs, i) == packs[i].credits

ParseCreditPacks(packs) ==
    [i \in DOMAIN packs |-> [id |-> PackId(packs, i), price |-> Cents(packs[i].price),
                             credits |-> packs[i].credits]]

ParseBillingPlans(plans) ==
    [i \in PlanIds |-> [price |-> Cents(plans[i].price), credits |-> plans[i].credits,
                        available |-> plans[i].available]]

ValidPlans(plans) ==
    \A i \in PlanIds : PlanPrice(plans[i].price) /\ plans[i].credits \in 0..MaxCredits

(* Settings that do not parse are an error, and there is no server. *)
Start(e) ==
    /\ catalog' = IF ValidPlans(e.plans) /\ ValidPacks(e.packs)
                  THEN [plans |-> ParseBillingPlans(e.plans), packs |-> ParseCreditPacks(e.packs)]
                  ELSE Absent
    /\ UNCHANGED <<picked, order, moved, granted, views>>

TermsInit ==
    /\ catalog = Absent
    /\ picked = [b \in Buyers |-> Absent]
    /\ order = [r \in Rows |-> Absent] /\ views = [r \in Rows |-> {}]
    /\ moved = [r \in Rows |-> 0] /\ granted = [r \in Rows |-> 0]

-----------------------------------------------------------------------------
(* listPlans and listCreditPacks: one of the items, kept by the client. *)
ListPlans == {[id |-> i, price |-> catalog.plans[i].price, credits |-> catalog.plans[i].credits] : i \in PlanIds}
ListCreditPacks == ToSet(catalog.packs)

Pick(b) ==
    /\ catalog # Absent
    /\ \E item \in ListPlans \cup ListCreditPacks : picked' = [picked EXCEPT ![b] = [item |-> item, of |-> catalog]]
    /\ UNCHANGED <<catalog, order, moved, granted, views>>

(* resolvePurchase: the plan, if it is on sale; the first pack of that id. *)
Resolve(id) ==
    IF id \in PlanIds
    THEN IF catalog.plans[id].available THEN {catalog.plans[id]} ELSE {}
    ELSE LET of == {i \in DOMAIN catalog.packs : catalog.packs[i].id = id}
         IN  IF of = {} THEN {} ELSE {catalog.packs[Min(of)]}

\* Mutant: any open checkout of the workspace for a plan or a pack will do.
FindReusablePendingKind(b, id) ==
    {r \in Rows : /\ order[r] # Absent /\ order[r].status = "PENDING" /\ order[r].fresh
                  /\ (order[r].item \in PlanIds) = (id \in PlanIds)}

FindReusablePending(b, id) ==
    {r \in Rows : /\ order[r] # Absent /\ order[r].status = "PENDING" /\ order[r].fresh
                  /\ order[r].item = id /\ (id \in PlanIds \/ order[r].by = b)}

PaymentView(o) == [amount |-> o.amountMinor, credits |-> o.creditUnits]

Answer(b, r, o) ==
    /\ views' = [views EXCEPT ![r] = @ \cup {[item |-> picked[b].item, view |-> PaymentView(o)]}]
    /\ picked' = [picked EXCEPT ![b] = Absent]

(* createCheckout: an open one, or a row with the terms of now and a QR    *)
(* for its price.                                                          *)
OpenCheckout(b) ==
    LET id == picked[b].item.id IN
    /\ catalog # Absent /\ picked[b] # Absent
    /\ id \in PlanIds => b \in Purchasers
    /\ \E item \in Resolve(id) :
        IF FindReusablePending(b, id) # {}
        THEN /\ \E r \in FindReusablePending(b, id) : Answer(b, r, order[r])
             /\ UNCHANGED order
        ELSE \E r \in Rows :
                LET o == [item |-> id, by |-> b, amountMinor |-> item.price, creditUnits |-> item.credits,
                          qr |-> item.price, status |-> "PENDING", fresh |-> TRUE]
                IN  order[r] = Absent /\ order' = [order EXCEPT ![r] = o] /\ Answer(b, r, o)
    /\ UNCHANGED <<catalog, moved, granted>>

(* 409, or 403 for a plan and a member who is no owner. *)
RefuseCheckout(b) ==
    /\ catalog # Absent /\ picked[b] # Absent
    /\ \/ Resolve(picked[b].item.id) = {}
       \/ picked[b].item.id \in PlanIds /\ b \notin Purchasers
    /\ picked' = [picked EXCEPT ![b] = Absent]
    /\ UNCHANGED <<catalog, order, moved, granted, views>>

-----------------------------------------------------------------------------
Unsettled(r) == order[r] # Absent /\ order[r].status = "PENDING"

\* Less than REUSE_MIN_REMAINING_MS are left.
Ages(r) ==
    /\ Unsettled(r) /\ order[r].fresh /\ order' = [order EXCEPT ![r].fresh = FALSE]
    /\ UNCHANGED <<catalog, picked, moved, granted, views>>

PayQr(r) ==
    /\ Unsettled(r) /\ moved[r] = 0 /\ moved' = [moved EXCEPT ![r] = order[r].qr]
    /\ UNCHANGED <<catalog, picked, order, granted, views>>

\* Mutant: what is granted is looked up in the settings of now.
SettleAtListPrice(r) ==
    /\ catalog # Absent /\ Unsettled(r) /\ moved[r] # 0
    /\ IF moved[r] = order[r].amountMinor
       THEN /\ order' = [order EXCEPT ![r].status = "PAID"]
            /\ granted' = [granted EXCEPT ![r] =
                 IF order[r].item \in PlanIds THEN catalog.plans[order[r].item].credits ELSE order[r].creditUnits]
       ELSE order' = [order EXCEPT ![r].status = "FAILED"] /\ UNCHANGED granted
    /\ UNCHANGED <<catalog, picked, moved, views>>

(* refresh: the row's amount is compared, the row's credits are granted. *)
SettleTerms(r) ==
    /\ catalog # Absent /\ Unsettled(r) /\ moved[r] # 0
    /\ IF moved[r] = order[r].amountMinor
       THEN /\ order' = [order EXCEPT ![r].status = "PAID"]
            /\ granted' = [granted EXCEPT ![r] = order[r].creditUnits]
       ELSE order' = [order EXCEPT ![r].status = "FAILED"] /\ UNCHANGED granted
    /\ UNCHANGED <<catalog, picked, moved, views>>

Expires(r) ==
    /\ catalog # Absent /\ Unsettled(r) /\ ~order[r].fresh /\ moved[r] = 0
    /\ order' = [order EXCEPT ![r].status = "EXPIRED"]
    /\ UNCHANGED <<catalog, picked, moved, granted, views>>

TermsNext ==
    \/ \E e \in Environments : Start(e)
    \/ \E b \in Buyers : Pick(b) \/ OpenCheckout(b) \/ RefuseCheckout(b)
    \/ \E r \in Rows : Ages(r) \/ PayQr(r) \/ SettleTerms(r) \/ Expires(r)

TermsSpec == TermsInit /\ [][TermsNext]_termsVars

-----------------------------------------------------------------------------
(* Properties.                                                             *)

(* Whoever was shown a checkout pays what its view said, and is granted    *)
(* the credits it said, whatever the settings have become ("an open QR     *)
(* keeps charging the price it showed", "Credits are fixed when the        *)
(* checkout is created", docs/api.md:148,183; refresh and activate).       *)
ShownTermsAreKept ==
    \A r \in Rows : \A t \in views[r] :
        /\ moved[r] # 0 => moved[r] = t.view.amount
        /\ order[r].status = "PAID" => moved[r] # 0 /\ granted[r] = t.view.credits
        /\ moved[r] # 0 => order[r].status # "FAILED"

(* A pack that was picked from any list, however old, is answered with a   *)
(* checkout of that many credits: its id stays what it was when packs are  *)
(* reordered (billing-plans.ts:32; parseCreditPacks, resolvePurchase,      *)
(* findReusablePending).                                                   *)
PackIsWhatWasPicked ==
    \A r \in Rows : \A t \in views[r] :
        t.item.id \notin PlanIds => t.view.credits = t.item.credits

(* A new checkout costs and grants what the list says under its id, for a  *)
(* buyer whose list is still the server's: no id means two items           *)
(* (parseCreditPacks refuses "the same credit amount twice").              *)
NewCheckoutIsAsListed ==
    [][\A r \in Rows : order[r] = Absent /\ order'[r] # Absent =>
        LET p == picked[order'[r].by]
        IN  p.of = catalog => PaymentView(order'[r]) = [amount |-> p.item.price, credits |-> p.item.credits]
      ]_termsVars

(* A buyer gets what a list and a checkout said, for the price they said,  *)
(* over restarts with other settings, and a server whose packs would be    *)
(* ambiguous or too many does not start (billing-plans.ts; payment.service). *)
TermsAreKept ==
    /\ [](TermsTypeOK /\ ShownTermsAreKept /\ PackIsWhatWasPicked)
    /\ NewCheckoutIsAsListed
=============================================================================
