--------------------------- MODULE MCHoldsAndRuns ---------------------------
(* Holds on credits, and runs of an agent that makes one call at a time,   *)
(* on small instances, both under fairness.  The two share no variable: a  *)
(* behaviour is of one of them, picked with the initial state, and the     *)
(* other stands still.                                                     *)
EXTENDS CreditTransactions, AgentRun

CONSTANTS u1, r1, r2, t1, w1, a1, a2, e1, c1

VARIABLE part

\* One account: different accounts share no row.
MCOwner == [r \in Refs \cup TopUps |-> u1]

\* Runs at rest have ended without a word.
MCInit ==
    \/ part = "runs" /\ Init /\ RunInit
    \/ /\ part = "holds" /\ Init
       /\ writes = <<[by |-> "creator", seen |-> 0]>> /\ archived = FALSE
       /\ transcript = <<>> /\ runRows = {}
       /\ run = [r \in Runs |-> [pc |-> "ended", existing |-> 0, expected |-> 0,
                                 failures |-> 0, gaveUp |-> FALSE, finalized |-> "no",
                                 saved |-> 0, steps |-> 0]]
       /\ calls = [r \in Runs |-> Idle]
       /\ response = [r \in Runs |-> Answer("none", 0)]
       /\ known = [e \in Editors |-> 1] /\ storeFailures = 0

MCNext ==
    \/ part = "holds" /\ Next /\ UNCHANGED <<part, runVars>>
    \/ part = "runs" /\ RunNext /\ UNCHANGED <<part, vars>>

\* What stands still is in a state where fairness asks for nothing.
MCSpec == MCInit /\ [][MCNext]_<<part, vars, runVars>> /\ Fairness /\ RunFairness
=============================================================================
