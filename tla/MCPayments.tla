----------------------------- MODULE MCPayments -----------------------------
(* Instances of Payments for TLC. *)
EXTENDS Payments, TLC

CONSTANTS p1, p2, p3, u1, u2, starter, pro, pack, poll, reconciler

\* A starter plan that runs out in the course of the run; none at all.
RunningSubscription == {[plan |-> starter, end |-> 2]}
FirstSubscription == {None}

\* Interchangeable names.  Only for runs without liveness properties, where
\* the reconciler is a check like any other.
Symmetry == Permutations(Payments \ Legacy) \cup Permutations(Checks)
=============================================================================
