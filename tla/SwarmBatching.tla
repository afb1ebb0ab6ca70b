--------------------------- MODULE SwarmBatching ---------------------------
(***************************************************************************)
(* How the swarm skill cuts the rows of a run into calls and puts the      *)
(* answers back: .agents/skills/swarm/scripts/batching.ts and the pure     *)
(* functions of index.ts.  Rows are numbered in table order.               *)
(***************************************************************************)
EXTENDS Integers, Sequences, FiniteSets, SequencesExt, FiniteSetsExt

CONSTANTS
    MaxBatchSize,   \* MAX_BATCH_SIZE
    MaxSubagents    \* MAX_SUBAGENTS

ASSUME LimitsAssumption == MaxBatchSize \in Nat \ {0} /\ MaxSubagents \in Nat \ {0}

\* The members of s that are in T, in their order: SelectSeq by a set, as a
\* function, which the proofs can expand.
Within(s, T) ==
    LET taken[n \in 0..Len(s)] ==
          IF n = 0 THEN <<>> ELSE IF s[n] \in T THEN Append(taken[n - 1], s[n]) ELSE taken[n - 1]
    IN taken[Len(s)]

\* What batchSize may be: left out, one number, or a number for every row.
NoSize == [kind |-> "auto"]
Uniform(n) == [kind |-> "uniform", size |-> n]
PerRow(f) == [kind |-> "per row", size |-> f]

\* Mutant: the last batch is only made when it is full.
CreateBatchesFull(items, size) ==
    [k \in 1..(Len(items) \div size) |-> SubSeq(items, (k - 1) * size + 1, k * size)]

\* Chunks of size rows; the last may be smaller.
CreateBatches(items, size) ==
    [k \in 1..((Len(items) + size - 1) \div size) |->
        SubSeq(items, (k - 1) * size + 1, Min({k * size, Len(items)}))]

ClampBatchSize(n) == Max({1, Min({n, MaxBatchSize})})

\* Mutant: rounded down.
AutoSizeDown(n, concurrency) ==
    IF n > concurrency THEN Min({n \div concurrency, MaxBatchSize}) ELSE 1

AutoSize(n, concurrency) ==
    IF n > concurrency THEN Min({(n + concurrency - 1) \div concurrency, MaxBatchSize}) ELSE 1

\* Rows of one size keep together, the sizes in the order they first appear.
ResolveBatchGroups(rows, concurrency, how) ==
    CASE how.kind = "auto" -> CreateBatches(rows, AutoSize(Len(rows), concurrency))
      [] how.kind = "uniform" -> CreateBatches(rows, ClampBatchSize(how.size))
      [] how.kind = "per row" ->
           LET size(i) == ClampBatchSize(how.size[rows[i]])
               first == Within([i \in 1..Len(rows) |-> i],
                               {i \in 1..Len(rows) : \A j \in 1..(i - 1) : size(j) # size(i)})
               group(i) == Within(rows, {x \in ToSet(rows) : ClampBatchSize(how.size[x]) = size(i)})
           IN FlattenSeq([k \in 1..Len(first) |-> CreateBatches(group(first[k]), size(first[k]))])

\* A single row that lacks a column of the instruction is an error at once;
\* in a batch the column is shown as missing.
Uncallable(batch, lacks) == Len(batch) = 1 /\ batch[1] \in lacks
BuildDispatchUnits(batches, lacks) == Within(batches, {b \in ToSet(batches) : ~Uncallable(b, lacks)})

(***************************************************************************)
(* An answer: the call failed, or the rows its text has a usable object    *)
(* for; none when it is no JSON.  Rows that were not asked for are dropped.*)
(***************************************************************************)
CallFailed == [ok |-> FALSE, rows |-> {}]
Answered(s) == [ok |-> TRUE, rows |-> s]
AnswersTo(unit, all) == {CallFailed, Answered(all)} \cup {Answered(s) : s \in SUBSET ToSet(unit)}

\* A call for one row takes the answer as that row's, a batch goes by the ids.
Unpack(unit, answer) == answer.rows \cap ToSet(unit)

\* The rows that were asked for.
Asked(units) == UNION {ToSet(units[k]) : k \in 1..Len(units)}

\* Mutant: calls without a result are counted, not rows.
CountFailedCalls(units, got) == Cardinality({k \in 1..Len(units) : ToSet(units[k]) \cap got = {}})

\* Those that got no result.
CountFailed(units, got) == Cardinality(Asked(units) \ got)
=============================================================================
