---------------------------- MODULE MCCheckouts ----------------------------
(* Checkouts and their settlement, and checkouts under changing settings,  *)
(* on small instances.  The two share no variable: a behaviour is of one   *)
(* of them, picked with the initial state, and the other stands still.     *)
EXTENDS MCPayments, CheckoutTerms
CONSTANTS basic, b1, b2, r1

VARIABLE part

\* Settings: two good lists of the same packs, one without the small pack
\* and with the plan taken off sale, one with a pack twice, one too long.
Small == [price |-> 2500, credits |-> 30]
Large == [price |-> 5000, credits |-> 65]

Deployment(price, credits, available, packs) ==
    [plans |-> [i \in PlanIds |-> [price |-> price, credits |-> credits, available |-> available]],
     packs |-> packs]

Deployments == {
    Deployment(10000, 150, TRUE, <<Small, Large>>),
    Deployment(10000, 300, TRUE, <<Large, [Small EXCEPT !.price = 3000]>>),
    Deployment(12000, 150, FALSE, <<Large>>),
    Deployment(10000, 150, TRUE, <<Small, [Small EXCEPT !.price = 1000]>>),
    Deployment(10000, 150, TRUE, <<Small, Large, [price |-> 10, credits |-> 1]>>)}

\* A behaviour of Payments is about one of the plans; the workspace may be
\* on another.
Buys(plan) == \A u \in Users : checkout'[u] # None => checkout'[u].item = plan

MCInit == part \in Plans \cup {"terms"} /\ Init /\ TermsInit

MCNext ==
    \/ part \in Plans /\ Next /\ Buys(part) /\ UNCHANGED <<part, termsVars>>
    \/ part = "terms" /\ TermsNext /\ UNCHANGED <<part, vars>>

MCSpec == MCInit /\ [][MCNext]_<<part, vars, termsVars>>
=============================================================================
