------------------------------ MODULE GrantLoops ------------------------------
(***************************************************************************)
(* The two loops of the trigger credit_ledger_grants as the database runs  *)
(* them, batch after batch with the units still to be moved in a variable. *)
(* CreditLedger says what a loop moves of each batch without running it.   *)
(* TLC compares the two on every small input, CreditLedgerProofs on all.   *)
(***************************************************************************)
EXTENDS CreditLedger

(* One round: what the batch has or what is left, and out when nothing is. *)
LoopBody(has, loop, b) ==
    LET moved == SmallerOf(loop.left, has[b])
    IN  IF loop.left = 0 THEN loop
        ELSE [left |-> loop.left - moved, moved |-> [loop.moved EXCEPT ![b] = moved]]

(* The rows the loop's query selects: batches that have something. *)
LoopRows(has, rank) ==
    LET rows == {b \in DOMAIN has : has[b] > 0}
    IN  [i \in 1..Cardinality(rows) |->
            CHOOSE b \in rows : Cardinality({a \in rows : rank[a] < rank[b]}) = i - 1]

Loop(has, units, rank) ==
    LET rows == LoopRows(has, rank)
        loop[n \in 0..Len(rows)] ==
            IF n = 0 THEN [left |-> units, moved |-> [b \in DOMAIN has |-> 0]]
            ELSE LoopBody(has, loop[n - 1], rows[n])
    IN  loop[Len(rows)].moved

(* Bounds of the comparison: batches, units of a batch, units to move. *)
MaxBatches == 3
MaxHas == 2
MaxMoved == 6

(* Whatever the batches have and in whatever order they are visited. *)
ASSUME LoopsMoveTheSame ==
    \A n \in 0..MaxBatches :
        \A has \in [1..n -> 0..MaxHas], units \in 1..MaxMoved,
           rank \in {f \in [1..n -> 1..n] : \A a, b \in 1..n : f[a] = f[b] => a = b} :
            Moved(has, units, rank) = Loop(has, units, rank)
=============================================================================
