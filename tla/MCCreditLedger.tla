--------------------------- MODULE MCCreditLedger ---------------------------
(* The ledger's batches, and the reconciler's pass that makes up for       *)
(* missing grants, on small instances.  The two share no variable: a       *)
(* behaviour is of one of them, picked with the initial state; the other    *)
(* stands still and fairness asks nothing of it.                           *)
EXTENDS GrantLoops, ReconcilerPass

CONSTANTS r1, r2, p1, p2, k1

VARIABLE part

MCInit ==
    /\ part \in {"ledger", "pass"} /\ Init /\ PassInit
    /\ part = "ledger" => newest = 0 /\ free = {}

MCNext ==
    \/ part = "ledger" /\ Next /\ UNCHANGED <<part, passVars>>
    \/ part = "pass" /\ PassNext /\ UNCHANGED <<part, vars>>

MCSpec ==
    /\ MCInit /\ [][MCNext]_<<part, vars, passVars>>
    /\ part = "ledger" => WF_vars(ExpireSelect) /\ SF_vars(ExpireBatch) /\ WF_vars(Tick)
    /\ part = "pass" => PassFairness
=============================================================================
