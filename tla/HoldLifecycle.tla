---------------------------- MODULE HoldLifecycle ----------------------------
(***************************************************************************)
(* What GenerationBilling promises about one credit hold, without          *)
(* accounts, locks or rows: a hold is opened once, and then exactly one of *)
(* a charge or a full return closes it, for good.                          *)
(***************************************************************************)
CONSTANT Refs          \* the requests, each with its own hold reference

VARIABLE hold          \* hold[r]: how far the hold of request r has come

HoldStates == {"none", "open", "charged", "returned"}

TypeOK == hold \in [Refs -> HoldStates]

Init == hold = [r \in Refs |-> "none"]

Become(r, from, to) ==
    /\ hold[r] = from
    /\ hold' = [hold EXCEPT ![r] = to]

Open(r)   == Become(r, "none", "open")
Charge(r) == Become(r, "open", "charged")
Return(r) == Become(r, "open", "returned")

Next == \E r \in Refs : Open(r) \/ Charge(r) \/ Return(r)

Spec == Init /\ [][Next]_hold
=============================================================================
