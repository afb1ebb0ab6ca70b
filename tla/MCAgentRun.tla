----------------------------- MODULE MCAgentRun -----------------------------
(* Instances of AgentRun for TLC. *)
EXTENDS AgentRun, TLC

CONSTANTS r1, r2, e1, c1, c2

\* Interchangeable names.  Only for runs without liveness properties.
Symmetry == Permutations(Runs) \cup Permutations(Calls)
=============================================================================
