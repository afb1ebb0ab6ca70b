------------------------------ MODULE RowFilter ------------------------------
(***************************************************************************)
(* Which rows of a table a swarm run takes: filter.ts and readColumn of    *)
(* utils.ts in .agents/skills/swarm/scripts.  A row is read from JSON, and *)
(* its results are what a model wrote: a column may be missing, null or of *)
(* any type.                                                               *)
(*                                                                         *)
(* A value is its kind with its content; an object is a sequence of pairs, *)
(* since JSON.stringify keeps the order of the keys.                       *)
(***************************************************************************)
EXTENDS Naturals, Sequences

CONSTANTS
    Columns,    \* paths, each the sequence of its segments
    Values,     \* what filters compare a column with
    Records,    \* the rows a table may hold
    Given,      \* the filters a run may be given
    MaxNesting  \* bound on the filters within one another

VARIABLES row, filter

filterVars == <<row, filter>>

Undefined == <<"undefined">>
Null == <<"null">>
Object(pairs) == <<"object", pairs>>
Leaf(op, column, value) == [op |-> op, column |-> column, value |-> value]
Combined(op, of) == [op |-> op, of |-> of]

Comparisons == [op : {"equals", "notEquals"}, column : Columns, value : Values]
Presences == [op : {"exists"}, column : Columns, value : BOOLEAN]
Memberships == [op : {"in"}, column : Columns, value : Seq(Values)]

(* SwarmFilter, by how deep it nests; a list of values nests once, as the  *)
(* comparisons it stands for do.                                           *)
Nested[d \in 0..MaxNesting] ==
    IF d = 0 THEN Comparisons \cup Presences
    ELSE Nested[d - 1] \cup Memberships \cup [op : {"and", "or"}, of : Seq(Nested[d - 1])]

Filters == Nested[MaxNesting]

ASSUME FilterAssumption == MaxNesting \in Nat /\ Given \subseteq Filters

FilterInit == row \in Records /\ filter \in Given

\* Filtering leaves the rows as they are.
FilterSpec == FilterInit /\ [][UNCHANGED filterVars]_filterVars

Nullish(v) == v \in {Undefined, Null}

Get(o, key) ==
    LET at == IF o[1] = "object" THEN {i \in DOMAIN o[2] : o[2][i][1] = key} ELSE {}
    IN IF at = {} THEN Undefined ELSE o[2][CHOOSE i \in at : TRUE][2]

\* Segment by segment; what is missing, null, a list or no object ends it.
ReadColumn(r, path) ==
    LET reached[n \in 0..Len(path)] ==
            IF n = 0 THEN r
            ELSE LET next == Get(reached[n - 1], path[n])
                 IN IF n = Len(path) \/ next[1] = "object" THEN next ELSE Undefined
    IN reached[Len(path)]

\* The same value, or values of the same JSON.
DeepEquals(a, b) == a = b

\* Mutant: a row without the column matches neither of equals and notEquals.
MatchesPresent(f, v) ==
    CASE f.op = "equals" -> DeepEquals(v, f.value)
      [] f.op = "notEquals" -> v # Undefined /\ ~DeepEquals(v, f.value)
      [] f.op = "in" -> \E i \in DOMAIN f.value : DeepEquals(v, f.value[i])
      [] f.op = "exists" -> f.value = ~Nullish(v)

\* A leaf, on the value of its column.
Matches(f, v) ==
    CASE f.op = "equals" -> DeepEquals(v, f.value)
      [] f.op = "notEquals" -> ~DeepEquals(v, f.value)
      [] f.op = "in" -> \E i \in DOMAIN f.value : DeepEquals(v, f.value[i])
      [] f.op = "exists" -> f.value = ~Nullish(v)

EvaluateFilter(filtered, r) ==
    LET matches[f \in Filters] ==
            CASE f.op = "and" -> \A i \in DOMAIN f.of : matches[f.of[i]]
              [] f.op = "or" -> \E i \in DOMAIN f.of : matches[f.of[i]]
              [] OTHER -> Matches(f, ReadColumn(r, f.column))
    IN matches[filtered]

(***************************************************************************)
(* Properties.                                                             *)
(***************************************************************************)

Opposite(filtered) ==
    LET opposite[f \in Filters] ==
            CASE f.op = "equals" -> Leaf("notEquals", f.column, f.value)
              [] f.op = "notEquals" -> Leaf("equals", f.column, f.value)
              [] f.op = "exists" -> Leaf("exists", f.column, ~f.value)
              [] f.op = "in" -> Combined("and", [i \in DOMAIN f.value |-> Leaf("notEquals", f.column, f.value[i])])
              [] f.op = "and" -> Combined("or", [i \in DOMAIN f.of |-> opposite[f.of[i]]])
              [] OTHER -> Combined("and", [i \in DOMAIN f.of |-> opposite[f.of[i]]])
    IN opposite[filtered]

\* A run over a filter and a run over its opposite take every row of a table
\* between them, and none twice, whatever is missing, null or nested in it.
OppositeTakesTheRest == EvaluateFilter(Opposite(filter), row) = ~EvaluateFilter(filter, row)
=============================================================================
