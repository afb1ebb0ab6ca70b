---------------------------- MODULE SwarmProofs ----------------------------
(***************************************************************************)
(* What is proved of the swarm skill (Swarm, SwarmBatching, RowFilter),    *)
(* for any number of tables, runs and rows: how rows are cut into units,   *)
(* what a run's calls add up to, which tables are removed, that a result   *)
(* that was written is kept while runs on its table do not overlap, and    *)
(* that a filter and its opposite share the rows between them.             *)
(***************************************************************************)
EXTENDS Swarm, RowFilter, Sums, TLAPS

-----------------------------------------------------------------------------
(* Within: what is taken is of the sequence and of the set.                *)
Taken(f, s, T) ==
    f = [n \in 0..Len(s) |->
           IF n = 0 THEN <<>> ELSE IF s[n] \in T THEN Append(f[n - 1], s[n]) ELSE f[n - 1]]

LEMMA WithinUnfolds ==
    ASSUME NEW s, NEW T
    PROVE  Within(s, T) = (CHOOSE f : Taken(f, s, T))[Len(s)]
BY DEF Within, Taken

LEMMA TakenExists ==
    ASSUME NEW S, NEW s \in Seq(S), NEW T
    PROVE  \E f \in [0..Len(s) -> Seq(S \cap T)] : Taken(f, s, T)
<1>0. PICK n \in Nat : n = Len(s)
  BY LenProperties
<1>1. PICK A : A = Seq(S \cap T)
  OBVIOUS
<1> DEFINE goOn(i, q) == IF s[i] \in T THEN Append(q, s[i]) ELSE q
           step == [i \in 1..n |-> [q \in A |-> goOn(i, q)]]
<1>2. ASSUME NEW i \in 1..n, NEW q \in A PROVE goOn(i, q) \in A
  <2>1. s[i] \in S
    BY <1>0, ElementOfSeq
  <2> QED
    BY <1>1, <2>1, AppendProperties
<1>3. step \in [1..n -> [A -> A]]
  <2> HIDE DEF goOn
  <2> QED
    BY <1>2
<1>4. <<>> \in A
  BY <1>1
<1>5. PICK f \in [0..n -> A] : f[0] = <<>> /\ \A i \in 1..n : f[i] = step[i][f[i - 1]]
  <2>1. PICK st \in [1..n -> [A -> A]] : st = step
    BY <1>3
  <2>2. PICK a \in A : a = <<>>
    BY <1>4
  <2> HIDE DEF step
  <2>3. \E f : Follows(f, n, A, a, st)
    BY GoesOn
  <2> QED
    BY <2>1, <2>2, <2>3 DEF Follows
<1>6. ASSUME NEW i \in 1..n PROVE f[i] = goOn(i, f[i - 1])
  <2>1. f[i - 1] \in A
    BY <1>5
  <2> HIDE DEF goOn
  <2> QED
    BY <1>5, <2>1
<1>7. ASSUME NEW i \in 0..n PROVE f[i] = IF i = 0 THEN <<>> ELSE goOn(i, f[i - 1])
  <2>1. CASE i = 0
    BY <1>5, <2>1
  <2>2. CASE i # 0
    <3>1. i \in 1..n
      BY <2>2
    <3> HIDE DEF goOn
    <3> QED
      BY <1>6, <2>2, <3>1
  <2> QED
    BY <2>1, <2>2
<1>8. f = [i \in 0..n |-> IF i = 0 THEN <<>> ELSE goOn(i, f[i - 1])]
  <2> HIDE DEF goOn
  <2> QED
    BY <1>7
<1>9. Taken(f, s, T)
  BY <1>0, <1>8 DEF Taken
<1> QED
  BY <1>0, <1>1, <1>9

LEMMA WithinIsTyped ==
    ASSUME NEW S, NEW s \in Seq(S), NEW T
    PROVE  Within(s, T) \in Seq(S \cap T)
<1>0. PICK n \in Nat : n = Len(s)
  BY LenProperties
<1>1. PICK f \in [0..n -> Seq(S \cap T)] : Taken(f, s, T)
  BY <1>0, TakenExists
<1>2. PICK h : h = CHOOSE g : Taken(g, s, T)
  OBVIOUS
<1>3. Taken(h, s, T)
  BY <1>1, <1>2
<1>4. ASSUME NEW g, Taken(g, s, T)
      PROVE  g[0] = <<>> /\ \A i \in 1..n : g[i] = IF s[i] \in T THEN Append(g[i - 1], s[i]) ELSE g[i - 1]
  <2>1. g = [k \in 0..n |-> IF k = 0 THEN <<>> ELSE IF s[k] \in T THEN Append(g[k - 1], s[k]) ELSE g[k - 1]]
    BY <1>0, <1>4 DEF Taken
  <2>2. g[0] = <<>>
    <3>1. 0 \in 0..n
      OBVIOUS
    <3> QED
      BY <2>1, <3>1
  <2>3. ASSUME NEW i \in 1..n PROVE g[i] = IF s[i] \in T THEN Append(g[i - 1], s[i]) ELSE g[i - 1]
    <3>1. i \in 0..n /\ i # 0
      OBVIOUS
    <3> QED
      BY <2>1, <3>1
  <2> QED
    BY <2>2, <2>3
<1>5. h[0] = f[0]
  BY <1>1, <1>3, <1>4
<1>6. \A i \in 1..n : h[i - 1] = f[i - 1] => h[i] = f[i]
  BY <1>1, <1>3, <1>4
<1>7. \A i \in 0..n : h[i] = f[i]
  BY <1>5, <1>6, SameUpTo, ZenonT(60)
<1>8. h[n] \in Seq(S \cap T)
  BY <1>1, <1>7
<1> QED
  BY <1>0, <1>2, <1>8, WithinUnfolds

-----------------------------------------------------------------------------
(* The calls of a run go out with the rows it has selected.                *)

LEMMA SmallerOfTwo ==
    ASSUME NEW a \in Int, NEW b \in Int
    PROVE  Min({a, b}) = IF a <= b THEN a ELSE b
<1>1. CASE a <= b
  <2>1. \A y \in {a, b} : a <= y
    BY <1>1
  <2>2. \A x \in {a, b} : (\A y \in {a, b} : x <= y) => x = a
    BY <1>1
  <2> QED
    BY <1>1, <2>1, <2>2 DEF Min
<1>2. CASE ~(a <= b)
  <2>1. \A y \in {a, b} : b <= y
    BY <1>2
  <2>2. \A x \in {a, b} : (\A y \in {a, b} : x <= y) => x = b
    BY <1>2
  <2> QED
    BY <1>2, <2>1, <2>2 DEF Min
<1> QED
  BY <1>1, <1>2

LEMMA LargerOfTwo ==
    ASSUME NEW a \in Int, NEW b \in Int
    PROVE  Max({a, b}) = IF a >= b THEN a ELSE b
<1>1. CASE a >= b
  <2>1. \A y \in {a, b} : a >= y
    BY <1>1
  <2>2. \A x \in {a, b} : (\A y \in {a, b} : x >= y) => x = a
    BY <1>1
  <2> QED
    BY <1>1, <2>1, <2>2 DEF Max
<1>2. CASE ~(a >= b)
  <2>1. \A y \in {a, b} : b >= y
    BY <1>2
  <2>2. \A x \in {a, b} : (\A y \in {a, b} : x >= y) => x = b
    BY <1>2
  <2> QED
    BY <1>2, <2>1, <2>2 DEF Max
<1> QED
  BY <1>1, <1>2

LEMMA Division ==
    ASSUME NEW a \in Nat, NEW b \in Nat \ {0}
    PROVE  a \div b \in Nat /\ b * (a \div b) <= a /\ a < b * (a \div b) + b
  BY Z3

LEMMA FunctionIsASeq == ASSUME NEW m \in Nat, NEW A, NEW g \in [1..m -> A] PROVE g \in Seq(A)
  OBVIOUS

LEMMA PartIsASeq == ASSUME NEW A, NEW T, NEW s \in Seq(A \cap T) PROVE s \in Seq(A)
  OBVIOUS

LEMMA PlacesInBatches ==
    ASSUME NEW k \in Nat \ {0}, NEW size \in Nat \ {0}
    PROVE  (k - 1) * size + 1 \in Nat \ {0} /\ k * size \in Nat
<1>1. k - 1 \in Nat
  OBVIOUS
<1>2. \A a \in Nat : a * size \in Nat
  BY Z3
<1> QED
  BY <1>1, <1>2

LEMMA BatchesAreTyped ==
    ASSUME NEW S, NEW items \in Seq(S), NEW size \in Nat \ {0}
    PROVE  CreateBatches(items, size) \in Seq(Seq(S))
<1>0. PICK n \in Nat : n = Len(items)
  BY LenProperties
<1>1. PICK m \in Nat : m = (n + size - 1) \div size
  <2>1. n + size - 1 \in Nat
    OBVIOUS
  <2> QED
    BY <2>1, Division
<1>2. ASSUME NEW k \in 1..m PROVE SubSeq(items, (k - 1) * size + 1, Min({k * size, n})) \in Seq(S)
  <2>1. (k - 1) * size + 1 \in Nat \ {0} /\ k * size \in Nat
    BY PlacesInBatches
  <2>2. Min({k * size, n}) \in 0..n
    BY <2>1, SmallerOfTwo
  <2>3. PICK a \in Nat \ {0} : a = (k - 1) * size + 1
    BY <2>1
  <2>4. PICK b \in 0..n : b = Min({k * size, n})
    BY <2>2
  <2>5. SubSeq(items, a, b) \in Seq(S)
    <3>1. ASSUME NEW i \in a..b PROVE i \in 1..Len(items)
      BY <1>0, <2>3, <2>4
    <3> QED
      BY <1>0, <3>1, SubSeqProperties
  <2> QED
    BY <2>3, <2>4, <2>5
<1>3. CreateBatches(items, size) = [k \in 1..m |-> SubSeq(items, (k - 1) * size + 1, Min({k * size, n}))]
  BY <1>0, <1>1 DEF CreateBatches
<1>4. PICK g : g = CreateBatches(items, size)
  OBVIOUS
<1>5. g \in [1..m -> Seq(S)]
  BY <1>2, <1>3, <1>4
<1> QED
  BY <1>4, <1>5, FunctionIsASeq

LEMMA SizesAreAtLeastOne ==
    /\ \A n \in Int : ClampBatchSize(n) \in Nat \ {0}
    /\ \A n \in Nat, W \in Nat \ {0} : AutoSize(n, W) \in Nat \ {0}
<1>1. MaxBatchSize \in Nat \ {0}
  BY LimitsAssumption
<1>2. ASSUME NEW n \in Int PROVE ClampBatchSize(n) \in Nat \ {0}
  <2>1. PICK a \in Int : a = Min({n, MaxBatchSize})
    BY <1>1, SmallerOfTwo
  <2>2. Max({1, a}) \in Nat \ {0}
    BY LargerOfTwo
  <2> QED
    BY <2>1, <2>2 DEF ClampBatchSize
<1>3. ASSUME NEW n \in Nat, NEW W \in Nat \ {0} PROVE AutoSize(n, W) \in Nat \ {0}
  <2>1. CASE ~(n > W)
    BY <2>1 DEF AutoSize
  <2>2. CASE n > W
    <3>1. PICK q \in Nat : q = (n + W - 1) \div W
      <4>1. n + W - 1 \in Nat
        BY <1>1
      <4> QED
        BY <1>1, <4>1, Division
    <3>2. q # 0
      <4>1. \A a \in Nat, b \in Nat \ {0} : a >= b => a \div b # 0
        BY Z3
      <4> QED
        BY <1>1, <2>2, <3>1, <4>1
    <3>3. Min({q, MaxBatchSize}) \in Nat \ {0}
      BY <1>1, <3>2, SmallerOfTwo
    <3> QED
      BY <2>2, <3>1, <3>3 DEF AutoSize
  <2> QED
    BY <2>1, <2>2
<1> QED
  BY <1>2, <1>3

LEMMA GroupsAreTyped ==
    ASSUME NEW M \in SUBSET Rows, NEW rows \in Seq(M), NEW how \in Sizes \cup {NoSize},
           NEW W \in Nat \ {0}
    PROVE  ResolveBatchGroups(rows, W, how) \in Seq(Seq(M))
<1>0. PICK n \in Nat : n = Len(rows)
  BY LenProperties
<1>1. \/ how.kind = "auto"
      \/ how.kind = "uniform" /\ how.size \in Int
      \/ how.kind = "per row" /\ how.size \in [Rows -> Int]
  <2>1. NoSize.kind = "auto"
    BY DEF NoSize
  <2> QED
    BY <2>1, SwarmAssumption DEF Rows
<1>2. CASE how.kind = "auto"
  <2>1. PICK size \in Nat \ {0} : size = AutoSize(n, W)
    BY SizesAreAtLeastOne
  <2>2. CreateBatches(rows, size) \in Seq(Seq(M))
    BY BatchesAreTyped
  <2>3. ResolveBatchGroups(rows, W, how) = CreateBatches(rows, AutoSize(Len(rows), W))
    BY <1>2 DEF ResolveBatchGroups
  <2> QED
    BY <1>0, <2>1, <2>2, <2>3
<1>3. CASE how.kind = "uniform" /\ how.size \in Int
  <2>1. PICK size \in Nat \ {0} : size = ClampBatchSize(how.size)
    BY <1>3, SizesAreAtLeastOne
  <2>2. CreateBatches(rows, size) \in Seq(Seq(M))
    BY BatchesAreTyped
  <2>3. ResolveBatchGroups(rows, W, how) = CreateBatches(rows, ClampBatchSize(how.size))
    BY <1>3 DEF ResolveBatchGroups
  <2> QED
    BY <2>1, <2>2, <2>3
<1>4. CASE how.kind = "per row" /\ how.size \in [Rows -> Int]
  <2> DEFINE size(i) == ClampBatchSize(how.size[rows[i]])
             first == Within([i \in 1..Len(rows) |-> i],
                             {i \in 1..Len(rows) : \A j \in 1..(i - 1) : size(j) # size(i)})
             group(i) == Within(rows, {x \in ToSet(rows) : ClampBatchSize(how.size[x]) = size(i)})
             pieces == [k \in 1..Len(first) |-> CreateBatches(group(first[k]), size(first[k]))]
  <2>1. ASSUME NEW i \in 1..n PROVE size(i) \in Nat \ {0}
    <3>1. rows[i] \in Rows
      BY <1>0, ElementOfSeq
    <3>2. how.size[rows[i]] \in Int
      BY <1>4, <3>1
    <3> QED
      BY <3>2, SizesAreAtLeastOne
  <2>2. first \in Seq(1..n)
    <3>1. PICK p \in Seq(1..n) : p = [i \in 1..Len(rows) |-> i]
      <4>1. PICK p \in [1..n -> 1..n] : p = [i \in 1..n |-> i]
        OBVIOUS
      <4>2. p \in Seq(1..n)
        BY FunctionIsASeq
      <4> QED
        BY <1>0, <4>1, <4>2
    <3>2. PICK T : T = {i \in 1..Len(rows) : \A j \in 1..(i - 1) : size(j) # size(i)}
      OBVIOUS
    <3>3. Within(p, T) \in Seq((1..n) \cap T)
      BY WithinIsTyped
    <3>4. Within(p, T) \in Seq(1..n)
      BY <3>3, PartIsASeq
    <3> QED
      BY <3>1, <3>2, <3>4
  <2>3. ASSUME NEW i PROVE group(i) \in Seq(M)
    <3>1. PICK T : T = {x \in ToSet(rows) : ClampBatchSize(how.size[x]) = size(i)}
      OBVIOUS
    <3>2. Within(rows, T) \in Seq(M \cap T)
      BY WithinIsTyped
    <3>3. Within(rows, T) \in Seq(M)
      BY <3>2, PartIsASeq
    <3> QED
      BY <3>1, <3>3
  <2>4. PICK m \in Nat : m = Len(first)
    <3> HIDE DEF first
    <3> QED
      BY <2>2, LenProperties
  <2>5. ASSUME NEW k \in 1..m PROVE CreateBatches(group(first[k]), size(first[k])) \in Seq(Seq(M))
    <3>1. PICK i \in 1..n : i = first[k]
      <4> HIDE DEF first
      <4> QED
        BY <2>2, <2>4, ElementOfSeq
    <3>2. PICK s \in Nat \ {0} : s = size(i)
      BY <2>1
    <3>3. PICK g \in Seq(M) : g = group(i)
      <4> HIDE DEF group
      <4> QED
        BY <2>3
    <3>4. CreateBatches(g, s) \in Seq(Seq(M))
      BY BatchesAreTyped
    <3> HIDE DEF first, group, size
    <3> QED
      BY <3>1, <3>2, <3>3, <3>4
  <2>6. PICK ps \in Seq(Seq(Seq(M))) : ps = pieces
    <3>1. PICK A : A = Seq(Seq(M))
      OBVIOUS
    <3>2. pieces \in [1..m -> A]
      <4> HIDE DEF first, group, size
      <4> QED
        BY <2>4, <2>5, <3>1
    <3>3. pieces \in Seq(A)
      <4> HIDE DEF pieces
      <4> QED
        BY <3>2, FunctionIsASeq
    <3> HIDE DEF pieces
    <3> QED
      BY <3>1, <3>3
  <2>7. FlattenSeq(ps) \in Seq(Seq(M))
    <3>1. PICK A : A = Seq(M)
      OBVIOUS
    <3>2. FlattenSeq(ps) \in Seq(A)
      BY <3>1, FlattenIsTyped
    <3> QED
      BY <3>1, <3>2
  <2>8. ResolveBatchGroups(rows, W, how) = FlattenSeq(pieces)
    BY <1>4 DEF ResolveBatchGroups
  <2> HIDE DEF pieces
  <2> QED
    BY <2>6, <2>7, <2>8
<1> QED
  BY <1>1, <1>2, <1>3, <1>4

LEMMA UnitsAreTyped ==
    ASSUME NEW A, NEW batches \in Seq(A), NEW lacks
    PROVE  BuildDispatchUnits(batches, lacks) \in Seq(A)
<1>1. PICK T : T = {b \in ToSet(batches) : ~Uncallable(b, lacks)}
  OBVIOUS
<1>2. Within(batches, T) \in Seq(A \cap T)
  BY WithinIsTyped
<1>3. Within(batches, T) \in Seq(A)
  BY <1>2, PartIsASeq
<1> QED
  BY <1>1, <1>3 DEF BuildDispatchUnits

LEMMA SelectedRows ==
    ASSUME NEW M \in SUBSET Rows
    PROVE  Within([x \in Rows |-> x], M) \in Seq(M)
<1>1. PICK p \in Seq(Rows) : p = [x \in Rows |-> x]
  <2>1. PICK p \in [1..NumRows -> Rows] : p = [x \in Rows |-> x]
    BY DEF Rows
  <2>2. NumRows \in Nat
    BY SwarmAssumption
  <2>3. p \in Seq(Rows)
    BY <2>2, FunctionIsASeq
  <2> QED
    BY <2>1, <2>3
<1>2. Within(p, M) \in Seq(Rows \cap M)
  BY WithinIsTyped
<1>3. Rows \cap M = M
  OBVIOUS
<1> QED
  BY <1>1, <1>2, <1>3

-----------------------------------------------------------------------------
(* A finite set of integers has a greatest. *)
LEMMA Greatest ==
    ASSUME NEW S, IsFiniteSet(S), S # {}, S \subseteq Int
    PROVE  Max(S) \in S /\ \A y \in S : Max(S) >= y
<1> DEFINE T == {s \in SUBSET S : s # {} /\ ~ \E x \in s : \A y \in s : x >= y}
<1>1. T = {}
  <2> SUFFICES ASSUME T # {} PROVE FALSE
    OBVIOUS
  <2>1. IsWellFoundedOn(StrictSubsetOrdering(S), SUBSET S)
    BY FS_StrictSubsetOrderingWellFounded, FS_FiniteSubsetsOfFinite
  <2>2. T \subseteq SUBSET S
    OBVIOUS
  <2>3. PICK m \in T : \A t \in T : ~ (<<t, m>> \in StrictSubsetOrdering(S))
    <3> HIDE DEF T
    <3> QED
      BY <2>1, <2>2, WFMin
  <2>4. PICK x \in m : TRUE
    OBVIOUS
  <2>5. m \ {x} \notin T
    BY <2>3, <2>4 DEF StrictSubsetOrdering
  <2>6. CASE m \ {x} = {}
    BY <2>4, <2>6
  <2>7. CASE m \ {x} # {}
    <3>1. PICK y \in m \ {x} : \A z \in m \ {x} : y >= z
      BY <2>5, <2>7
    <3>2. x \in Int /\ y \in Int /\ m \subseteq Int
      BY <2>4, <3>1
    <3>3. CASE x >= y
      <4>1. \A z \in m : x >= z
        BY <3>1, <3>2, <3>3
      <4> QED
        BY <2>4, <4>1
    <3>4. CASE y >= x
      <4>1. \A z \in m : y >= z
        BY <3>1, <3>2, <3>4
      <4> QED
        BY <3>1, <4>1
    <3> QED
      BY <3>2, <3>3, <3>4
  <2> QED
    BY <2>6, <2>7
<1>2. \E x \in S : \A y \in S : x >= y
  BY <1>1
<1> QED
  BY <1>2 DEF Max

-----------------------------------------------------------------------------
(* How the rows are cut.                                                   *)

(* The places a sequence is taken from: in their order, all that fit.      *)
TakenFrom(p, w, s, T, n) ==
    /\ p \in [1..Len(w) -> 1..n]
    /\ \A j \in 1..Len(w) : w[j] = s[p[j]] /\ s[p[j]] \in T
    /\ \A i, j \in 1..Len(w) : p[i] = p[j] => i = j
    /\ \A i \in 1..n : s[i] \in T => \E j \in 1..Len(w) : p[j] = i

LEMMA TakesOneMore ==
    ASSUME NEW S, NEW s \in Seq(S), NEW T, NEW n \in 1..Len(s), NEW w \in Seq(S),
           \E p : TakenFrom(p, w, s, T, n - 1),
           NEW v \in Seq(S), v = IF s[n] \in T THEN Append(w, s[n]) ELSE w
    PROVE  \E p : TakenFrom(p, v, s, T, n)
<1>0. PICK m \in Nat : m = Len(w)
  BY LenProperties
<1>1. PICK p \in [1..m -> 1..(n - 1)] :
        /\ \A j \in 1..m : w[j] = s[p[j]] /\ s[p[j]] \in T
        /\ \A i, j \in 1..m : p[i] = p[j] => i = j
        /\ \A i \in 1..(n - 1) : s[i] \in T => \E j \in 1..m : p[j] = i
  BY <1>0 DEF TakenFrom
<1>2. n \in Nat \ {0} /\ s[n] \in S
  BY LenProperties, ElementOfSeq
<1>3. CASE s[n] \notin T
  <2>1. v = w
    BY <1>3
  <2>2. p \in [1..m -> 1..n]
    BY <1>1, <1>2
  <2>3. \A i \in 1..n : s[i] \in T => i \in 1..(n - 1)
    BY <1>2, <1>3
  <2>4. TakenFrom(p, v, s, T, n)
    BY <1>0, <1>1, <2>1, <2>2, <2>3 DEF TakenFrom
  <2> QED
    BY <2>4
<1>4. CASE s[n] \in T
  <2>1. Len(v) = m + 1 /\ v[m + 1] = s[n] /\ \A j \in 1..m : v[j] = w[j]
    BY <1>0, <1>2, <1>4, AppendProperties
  <2> DEFINE q == [j \in 1..(m + 1) |-> IF j = m + 1 THEN n ELSE p[j]]
  <2>2. q \in [1..(m + 1) -> 1..n] /\ q[m + 1] = n /\ \A j \in 1..m : q[j] = p[j] /\ q[j] \in 1..(n - 1)
    BY <1>1, <1>2
  <2> HIDE DEF q
  <2>3. ASSUME NEW j \in 1..(m + 1) PROVE v[j] = s[q[j]] /\ s[q[j]] \in T
    <3>1. CASE j = m + 1
      BY <1>4, <2>1, <2>2, <3>1
    <3>2. CASE j # m + 1
      <4>1. j \in 1..m
        BY <3>2
      <4> QED
        BY <1>1, <2>1, <2>2, <4>1
    <3> QED
      BY <3>1, <3>2
  <2>4. ASSUME NEW i \in 1..(m + 1), NEW j \in 1..(m + 1), q[i] = q[j] PROVE i = j
    <3>1. (i = m + 1 \/ i \in 1..m) /\ (j = m + 1 \/ j \in 1..m)
      OBVIOUS
    <3>2. \A k \in 1..m : q[k] # n
      BY <1>2, <2>2
    <3> QED
      BY <1>1, <2>2, <2>4, <3>1, <3>2
  <2>5. ASSUME NEW i \in 1..n, s[i] \in T PROVE \E j \in 1..(m + 1) : q[j] = i
    <3>1. CASE i = n
      BY <2>2, <3>1
    <3>2. CASE i # n
      <4>1. i \in 1..(n - 1)
        BY <1>2, <3>2
      <4>2. PICK j \in 1..m : p[j] = i
        BY <1>1, <2>5, <4>1
      <4> QED
        BY <2>2, <4>2
    <3> QED
      BY <3>1, <3>2
  <2>6. TakenFrom(q, v, s, T, n)
    BY <2>1, <2>2, <2>3, <2>4, <2>5 DEF TakenFrom
  <2> QED
    BY <2>6
<1> QED
  BY <1>3, <1>4

LEMMA WithinPlaces ==
    ASSUME NEW S, NEW s \in Seq(S), NEW T
    PROVE  \E p : TakenFrom(p, Within(s, T), s, T, Len(s))
<1>0. PICK n \in Nat : n = Len(s)
  BY LenProperties
<1>1. PICK f \in [0..n -> Seq(S \cap T)] : Taken(f, s, T)
  BY <1>0, TakenExists
<1>2. PICK h : h = CHOOSE g : Taken(g, s, T)
  OBVIOUS
<1>3. Taken(h, s, T)
  BY <1>1, <1>2
<1>4. ASSUME NEW g, Taken(g, s, T)
      PROVE  g[0] = <<>> /\ \A i \in 1..n : g[i] = IF s[i] \in T THEN Append(g[i - 1], s[i]) ELSE g[i - 1]
  <2>1. g = [k \in 0..n |-> IF k = 0 THEN <<>> ELSE IF s[k] \in T THEN Append(g[k - 1], s[k]) ELSE g[k - 1]]
    BY <1>0, <1>4 DEF Taken
  <2>2. g[0] = <<>>
    <3>1. 0 \in 0..n
      OBVIOUS
    <3> QED
      BY <2>1, <3>1
  <2>3. ASSUME NEW i \in 1..n PROVE g[i] = IF s[i] \in T THEN Append(g[i - 1], s[i]) ELSE g[i - 1]
    <3>1. i \in 0..n /\ i # 0
      OBVIOUS
    <3> QED
      BY <2>1, <3>1
  <2> QED
    BY <2>2, <2>3
<1>5. h[0] = f[0]
  BY <1>1, <1>3, <1>4
<1>6. \A i \in 1..n : h[i - 1] = f[i - 1] => h[i] = f[i]
  BY <1>1, <1>3, <1>4
<1>7. \A i \in 0..n : h[i] = f[i]
  BY <1>5, <1>6, SameUpTo, ZenonT(60)
<1>8. \A i \in 0..n : h[i] \in Seq(S)
  <2>1. ASSUME NEW i \in 0..n PROVE h[i] \in Seq(S)
    <3>1. PICK w \in Seq(S \cap T) : w = h[i]
      BY <1>1, <1>7
    <3> QED
      BY <3>1, PartIsASeq
  <2> QED
    BY <2>1
<1> DEFINE From(i) == \E p : TakenFrom(p, h[i], s, T, i)
           I == {i \in 0..n : From(i)}
<1>9. 0 \in I
  <2>1. PICK p : p = [j \in 1..0 |-> 0]
    OBVIOUS
  <2>2. h[0] = <<>> /\ Len(<<>>) = 0
    BY <1>3, <1>4
  <2>3. TakenFrom(p, h[0], s, T, 0)
    BY <2>1, <2>2 DEF TakenFrom
  <2> QED
    BY <2>3
<1>10. \A i \in 1..n : i - 1 \in I => i \in I
  <2>0. ASSUME NEW i \in 1..n PROVE (i - 1 \in I <=> From(i - 1)) /\ (i \in I <=> From(i))
    <3> HIDE DEF From
    <3> QED
      OBVIOUS
  <2> SUFFICES ASSUME NEW i \in 1..n, From(i - 1) PROVE From(i)
    <3> HIDE DEF I, From
    <3> QED
      BY <2>0
  <2>1. PICK w \in Seq(S), v \in Seq(S) : w = h[i - 1] /\ v = h[i]
    BY <1>8
  <2>2. v = IF s[i] \in T THEN Append(w, s[i]) ELSE w
    BY <1>3, <1>4, <2>1
  <2>3. \E p : TakenFrom(p, w, s, T, i - 1)
    BY <2>1
  <2>4. \E p : TakenFrom(p, v, s, T, i)
    BY <1>0, <2>2, <2>3, TakesOneMore, Zenon
  <2> QED
    BY <2>1, <2>4
<1>11. n \in I
  <2>1. \A i \in 0..n : i \in I
    <3> HIDE DEF I
    <3> QED
      BY <1>9, <1>10, UpTo
  <2> QED
    BY <2>1
<1> QED
  BY <1>0, <1>2, <1>11, WithinUnfolds

(* A set with one member for every member of a finite one has as many.     *)
LEMMA AsManyAs ==
    ASSUME NEW S, NEW T, NEW f \in [S -> T], IsFiniteSet(S),
           \A x, y \in S : f[x] = f[y] => x = y,
           \A z \in T : \E x \in S : f[x] = z
    PROVE  IsFiniteSet(T) /\ Cardinality(T) = Cardinality(S)
<1>1. f \in Bijection(S, T)
  BY DEF Bijection, Injection, Surjection, IsInjective
<1>2. ExistsBijection(S, T)
  BY <1>1 DEF ExistsBijection
<1> QED
  BY <1>2, FS_Bijection

(* s is M in some order.                                                   *)
Lists(s, M) ==
    /\ s \in Seq(M)
    /\ \A x \in M : \E i \in 1..Len(s) : s[i] = x
    /\ \A i, j \in 1..Len(s) : s[i] = s[j] => i = j

LEMMA ListedNumber ==
    ASSUME NEW M, NEW s, Lists(s, M)
    PROVE  IsFiniteSet(M) /\ Cardinality(M) = Len(s) /\ Len(s) \in Nat
<1>1. PICK n \in Nat : n = Len(s)
  BY LenProperties DEF Lists
<1>2. s \in [1..n -> M]
  BY <1>1, LenProperties DEF Lists
<1>3. IsFiniteSet(1..n) /\ Cardinality(1..n) = n
  <2>1. n = 0 \/ n # 0
    OBVIOUS
  <2> QED
    BY <2>1, FS_Interval
<1>4. PICK S : S = 1..n
  OBVIOUS
<1>5. /\ \A x, y \in S : s[x] = s[y] => x = y
      /\ \A z \in M : \E x \in S : s[x] = z
      /\ IsFiniteSet(S) /\ s \in [S -> M]
  BY <1>1, <1>2, <1>3, <1>4 DEF Lists
<1>6. IsFiniteSet(M) /\ Cardinality(M) = Cardinality(S)
  BY <1>5, AsManyAs
<1> QED
  BY <1>1, <1>3, <1>4, <1>6

LEMMA WithinListed ==
    ASSUME NEW M, NEW s, Lists(s, M), NEW T
    PROVE  Lists(Within(s, T), M \cap T)
<1>1. s \in Seq(M)
  BY DEF Lists
<1>2. PICK w \in Seq(M \cap T) : w = Within(s, T)
  BY <1>1, WithinIsTyped
<1>3. PICK n \in Nat, m \in Nat : n = Len(s) /\ m = Len(w)
  BY <1>1, LenProperties
<1>4. PICK p \in [1..m -> 1..n] :
        /\ \A j \in 1..m : w[j] = s[p[j]] /\ s[p[j]] \in T
        /\ \A i, j \in 1..m : p[i] = p[j] => i = j
        /\ \A i \in 1..n : s[i] \in T => \E j \in 1..m : p[j] = i
  <2>1. \E p : TakenFrom(p, Within(s, T), s, T, Len(s))
    BY <1>1, WithinPlaces
  <2>2. \E p : TakenFrom(p, w, s, T, n)
    BY <1>2, <1>3, <2>1
  <2>3. PICK p : TakenFrom(p, w, s, T, n)
    BY <2>2
  <2> QED
    BY <1>3, <2>3, ZenonT(30) DEF TakenFrom
<1>5. ASSUME NEW x \in M \cap T PROVE \E j \in 1..m : w[j] = x
  <2>1. PICK i \in 1..n : s[i] = x
    BY <1>3 DEF Lists
  <2>2. PICK j \in 1..m : p[j] = i
    BY <1>4, <2>1
  <2> QED
    BY <1>4, <2>1, <2>2
<1>6. ASSUME NEW i \in 1..m, NEW j \in 1..m, w[i] = w[j] PROVE i = j
  <2>1. s[p[i]] = s[p[j]] /\ p[i] \in 1..n /\ p[j] \in 1..n
    BY <1>4, <1>6
  <2>2. p[i] = p[j]
    BY <1>3, <2>1 DEF Lists
  <2> QED
    BY <1>4, <2>2
<1>7. Lists(w, M \cap T)
  BY <1>3, <1>5, <1>6 DEF Lists
<1> QED
  BY <1>2, <1>7

LEMMA RowsListed ==
    ASSUME NEW M \in SUBSET Rows
    PROVE  Lists(Within([x \in Rows |-> x], M), M)
<1>1. PICK p \in Seq(Rows) : p = [x \in Rows |-> x] /\ Lists(p, Rows)
  <2>1. PICK p \in [1..NumRows -> Rows] : p = [x \in Rows |-> x]
    BY DEF Rows
  <2>2. NumRows \in Nat
    BY SwarmAssumption
  <2>3. p \in Seq(Rows) /\ Len(p) = NumRows
    BY <2>2, FunctionIsASeq
  <2>4. Lists(p, Rows)
    BY <2>1, <2>3 DEF Lists, Rows
  <2> QED
    BY <2>1, <2>3, <2>4
<1>2. Lists(Within(p, M), Rows \cap M)
  BY <1>1, WithinListed
<1>3. Rows \cap M = M
  OBVIOUS
<1> QED
  BY <1>1, <1>2, <1>3

-----------------------------------------------------------------------------
(* Every member of M is at one place of the batches, and nothing else is.  *)
CutsUp(bs, M) ==
    /\ \A k \in 1..Len(bs) : Len(bs[k]) \in 1..MaxBatchSize /\ \A i \in 1..Len(bs[k]) : bs[k][i] \in M
    /\ \A x \in M : \E k \in 1..Len(bs) : \E i \in 1..Len(bs[k]) : bs[k][i] = x
    /\ \A k, l \in 1..Len(bs) : \A i \in 1..Len(bs[k]), j \in 1..Len(bs[l]) :
         bs[k][i] = bs[l][j] => k = l /\ i = j

LEMMA ProductsOrdered ==
    ASSUME NEW a \in Nat, NEW b \in Nat, NEW c \in Nat
    PROVE  /\ a * c \in Nat /\ b * c \in Nat
           /\ a < b => a * c + c <= b * c
BY Z3

LEMMA SamePlace ==
    ASSUME NEW size \in Nat, NEW a \in Nat, NEW b \in Nat, NEW i \in 1..size, NEW j \in 1..size,
           a * size + i = b * size + j
    PROVE  a = b /\ i = j
<1>1. /\ a * size \in Nat /\ b * size \in Nat
      /\ (a < b => a * size + size <= b * size) /\ (b < a => b * size + size <= a * size)
  BY ProductsOrdered
<1>2. ~(a < b)
  BY <1>1
<1>3. ~(b < a)
  BY <1>1
<1>4. a = b
  BY <1>2, <1>3
<1> QED
  BY <1>1, <1>4

(* The number of batches.                                                  *)
Enough(m, n, size) ==
    /\ m \in Nat /\ m * size \in Nat /\ n <= m * size
    /\ \A a \in Nat : a < m => a * size \in Nat /\ a * size < n
    /\ \A a \in Nat : n <= a * size => m <= a
LEMMA EnoughBatches ==
    ASSUME NEW n \in Nat, NEW size \in Nat \ {0}, NEW m, m = (n + size - 1) \div size
    PROVE  Enough(m, n, size)
<1>1. m \in Nat /\ size * m <= n + size - 1 /\ n + size - 1 < size * m + size
  <2>1. PICK x \in Nat : x = n + size - 1
    OBVIOUS
  <2>2. x \div size \in Nat /\ size * (x \div size) <= x /\ x < size * (x \div size) + size
    BY <2>1, Division
  <2> QED
    BY <2>1, <2>2
<1>2. m * size = size * m /\ m * size \in Nat
  BY <1>1, Z3
<1>3. ASSUME NEW a \in Nat, a < m PROVE a * size \in Nat /\ a * size < n
  <2>1. a * size \in Nat /\ a * size + size <= m * size
    BY <1>1, <1>3, ProductsOrdered
  <2> QED
    BY <1>1, <1>2, <2>1
<1>4. ASSUME NEW a \in Nat, n <= a * size PROVE m <= a
  <2> SUFFICES ASSUME a < m PROVE FALSE
    BY <1>1
  <2>1. a * size \in Nat /\ a * size < n
    BY <1>3
  <2> QED
    BY <1>4, <2>1
<1> QED
  BY <1>1, <1>2, <1>3, <1>4 DEF Enough

LEMMA LengthOfFunction == ASSUME NEW m \in Nat, NEW A, NEW g \in [1..m -> A] PROVE Len(g) = m
  OBVIOUS

LEMMA ChunksCut ==
    ASSUME NEW M, NEW items, Lists(items, M), NEW size \in 1..MaxBatchSize
    PROVE  /\ CutsUp(CreateBatches(items, size), M)
           /\ Len(CreateBatches(items, size)) = (Len(items) + size - 1) \div size
<1>0. PICK n \in Nat : n = Len(items)
  BY ListedNumber
<1>1. items \in Seq(M) /\ size \in Nat \ {0} /\ MaxBatchSize \in Nat
  BY LimitsAssumption DEF Lists
<1>2. PICK m \in Nat : m = (n + size - 1) \div size /\ Enough(m, n, size)
  <2>1. PICK m : m = (n + size - 1) \div size
    OBVIOUS
  <2>2. Enough(m, n, size)
    BY <1>1, <2>1, EnoughBatches, Zenon
  <2> QED
    BY <2>1, <2>2 DEF Enough
<1>3. /\ m * size \in Nat /\ n <= m * size
      /\ \A a \in Nat : a < m => a * size \in Nat /\ a * size < n
  BY <1>2 DEF Enough
<1>4. PICK bs : bs = CreateBatches(items, size)
  OBVIOUS
<1>5. /\ Len(bs) = m
      /\ \A k \in 1..m : bs[k] = SubSeq(items, (k - 1) * size + 1, Min({k * size, n}))
  <2>1. bs = [k \in 1..m |-> SubSeq(items, (k - 1) * size + 1, Min({k * size, n}))]
    BY <1>0, <1>2, <1>4 DEF CreateBatches
  <2>2. Len(bs) = m
    <3>1. PICK A : A = {bs[k] : k \in 1..m}
      OBVIOUS
    <3>2. bs \in [1..m -> A]
      BY <2>1, <3>1
    <3> QED
      BY <3>2, LengthOfFunction
  <2> QED
    BY <2>1, <2>2
(* What is in the batch that begins after a batches.                       *)
<1>6. ASSUME NEW k \in 1..m
      PROVE  \E l \in 1..size :
               /\ Len(bs[k]) = l /\ (k - 1) * size + l <= n /\ (l = size \/ (k - 1) * size + l = n)
               /\ \A i \in 1..l : bs[k][i] = items[(k - 1) * size + i]
  <2>1. PICK a \in Nat : a = k - 1 /\ a < m
    OBVIOUS
  <2>2. PICK c \in Nat : c = a * size /\ c < n
    BY <1>3, <2>1
  <2>3. k * size = c + size /\ k * size \in Nat
    <3>1. \A s \in Nat : (a + 1) * s = a * s + s
      BY Z3
    <3>2. k = a + 1 /\ size \in Nat
      BY <1>1, <2>1
    <3>3. (a + 1) * size = a * size + size
      BY <3>1, <3>2
    <3> QED
      BY <2>2, <3>2, <3>3
  <2>4. PICK h \in Nat : h = Min({k * size, n})
    BY <2>3, SmallerOfTwo
  <2>5. h = IF c + size <= n THEN c + size ELSE n
    BY <2>3, <2>4, SmallerOfTwo
  <2>6. PICK l \in 1..size : l = h - c
    BY <2>2, <2>5
  <2>7. bs[k] = SubSeq(items, c + 1, h)
    BY <1>5, <2>1, <2>2, <2>4
  <2>8. ASSUME NEW i \in (c + 1)..h PROVE items[i] \in M
    <3>1. i \in 1..n
      BY <2>2, <2>5
    <3> QED
      BY <1>0, <1>1, <3>1, ElementOfSeq
  <2>9. /\ Len(SubSeq(items, c + 1, h)) = h - (c + 1) + 1
        /\ \A i \in 1..(h - (c + 1) + 1) : SubSeq(items, c + 1, h)[i] = items[c + 1 + i - 1]
    <3>1. PICK d \in Int : d = c + 1 /\ d <= h
      BY <2>2, <2>5
    <3>2. \A i \in d..h : items[i] \in M
      BY <2>8, <3>1
    <3>3. /\ Len(SubSeq(items, d, h)) = IF d <= h THEN h - d + 1 ELSE 0
          /\ \A i \in 1..(h - d + 1) : SubSeq(items, d, h)[i] = items[d + i - 1]
      BY <3>2, SubSeqProperties
    <3> QED
      BY <3>1, <3>3
  <2>10. Len(bs[k]) = l
    BY <2>6, <2>7, <2>9
  <2>11. ASSUME NEW i \in 1..l PROVE bs[k][i] = items[(k - 1) * size + i]
    <3>1. i \in 1..(h - (c + 1) + 1) /\ c + 1 + i - 1 = c + i
      BY <2>6
    <3> QED
      BY <2>1, <2>2, <2>7, <2>9, <3>1
  <2>12. (k - 1) * size + l <= n /\ (l = size \/ (k - 1) * size + l = n)
    BY <2>1, <2>2, <2>5, <2>6
  <2> QED
    BY <2>10, <2>11, <2>12
<1>7. ASSUME NEW k \in 1..m, NEW i \in 1..Len(bs[k])
      PROVE  /\ i \in 1..size /\ bs[k][i] = items[(k - 1) * size + i]
             /\ (k - 1) * size \in Nat /\ (k - 1) * size + i \in 1..n
  <2>1. PICK l \in 1..size :
           /\ Len(bs[k]) = l /\ (k - 1) * size + l <= n
           /\ \A j \in 1..l : bs[k][j] = items[(k - 1) * size + j]
    BY <1>6
  <2>2. k - 1 \in Nat /\ k - 1 < m
    OBVIOUS
  <2>3. PICK c \in Nat : c = (k - 1) * size
    BY <1>3, <2>2
  <2>4. i \in 1..l /\ c + l <= n
    BY <2>1, <2>3
  <2>5. i \in 1..size /\ c + i \in 1..n
    BY <2>3, <2>4
  <2>6. bs[k][i] = items[c + i]
    BY <2>1, <2>3, <2>4
  <2> QED
    BY <2>3, <2>5, <2>6
<1>8. ASSUME NEW k \in 1..m
      PROVE  Len(bs[k]) \in 1..MaxBatchSize /\ \A i \in 1..Len(bs[k]) : bs[k][i] \in M
  <2>1. Len(bs[k]) \in 1..size
    BY <1>6
  <2>2. ASSUME NEW i \in 1..Len(bs[k]) PROVE bs[k][i] \in M
    <3>1. PICK p \in 1..n : bs[k][i] = items[p]
      BY <1>7
    <3> QED
      BY <1>0, <1>1, <3>1, ElementOfSeq
  <2> QED
    BY <1>1, <2>1, <2>2
<1>9. ASSUME NEW x \in M PROVE \E k \in 1..m : \E i \in 1..Len(bs[k]) : bs[k][i] = x
  <2>1. PICK p \in 1..n : items[p] = x
    BY <1>0 DEF Lists
  <2>2. PICK a \in Nat, i \in 1..size : p = a * size + i /\ a * size \in Nat
    <3>1. PICK b \in Nat : b = p - 1
      OBVIOUS
    <3>2. PICK a \in Nat : a = b \div size /\ size * a <= b /\ b < size * a + size
      BY <1>1, <3>1, Division
    <3>3. PICK c \in Nat : c = a * size /\ c = size * a
      <4>1. \A s \in Nat : a * s = s * a /\ a * s \in Nat
        BY Z3
      <4> QED
        BY <1>1, <4>1
    <3>4. PICK i \in 1..size : i = p - c
      <4>1. p - c \in 1..size
        BY <1>1, <3>1, <3>2, <3>3
      <4> QED
        BY <4>1
    <3>5. p = c + i
      BY <3>4
    <3> QED
      BY <3>3, <3>4, <3>5
  <2>3. a < m
    <3> SUFFICES ASSUME ~(a < m) PROVE FALSE
      OBVIOUS
    <3>1. m = a \/ m < a
      OBVIOUS
    <3>2. m * size <= a * size
      BY <1>1, <1>3, <2>2, <3>1, ProductsOrdered
    <3> QED
      BY <1>3, <2>2, <3>2
  <2>4. PICK k \in 1..m : a = k - 1
    <3>1. a + 1 \in 1..m /\ a = (a + 1) - 1
      BY <2>3
    <3> QED
      BY <3>1
  <2>5. PICK l \in 1..size :
           /\ Len(bs[k]) = l /\ (l = size \/ (k - 1) * size + l = n)
           /\ \A j \in 1..l : bs[k][j] = items[(k - 1) * size + j]
    BY <1>6
  <2>6. i \in 1..l
    BY <2>2, <2>4, <2>5
  <2> QED
    BY <2>1, <2>2, <2>4, <2>5, <2>6
<1>10. ASSUME NEW k \in 1..m, NEW l \in 1..m, NEW i \in 1..Len(bs[k]), NEW j \in 1..Len(bs[l]),
              bs[k][i] = bs[l][j]
       PROVE  k = l /\ i = j
  <2>1. PICK a \in Nat, b \in Nat : a = k - 1 /\ b = l - 1
    OBVIOUS
  <2>2. /\ i \in 1..size /\ bs[k][i] = items[a * size + i] /\ a * size + i \in 1..n
        /\ j \in 1..size /\ bs[l][j] = items[b * size + j] /\ b * size + j \in 1..n
    BY <1>7, <2>1
  <2>3. a * size + i = b * size + j
    BY <1>0, <1>10, <2>2 DEF Lists
  <2>4. size \in Nat /\ i \in 1..size /\ j \in 1..size
    BY <1>1, <2>2
  <2>5. a = b /\ i = j
    BY <2>3, <2>4, SamePlace
  <2> QED
    BY <2>1, <2>5
<1> QED
  BY <1>0, <1>2, <1>4, <1>5, <1>8, <1>9, <1>10 DEF CutsUp

LEMMA NothingIsCut ==
    ASSUME NEW bs, Len(bs) = 0
    PROVE  CutsUp(bs, {})
BY DEF CutsUp

(* Batches of different rows, one after the other.                         *)
LEMMA CutsJoin ==
    ASSUME NEW A, NEW b \in Seq(A), NEW c \in Seq(A), NEW M, NEW N,
           CutsUp(b, M), CutsUp(c, N), M \cap N = {}
    PROVE  CutsUp(b \o c, M \cup N)
<1>1. PICK m \in Nat, n \in Nat : m = Len(b) /\ n = Len(c)
  BY LenProperties
<1>2. PICK bs : bs = b \o c
  OBVIOUS
<1>3. /\ Len(bs) = m + n
      /\ \A k \in 1..m : bs[k] = b[k]
      /\ \A k \in 1..n : bs[m + k] = c[k]
  <2>1. /\ Len(b \o c) = Len(b) + Len(c)
        /\ \A i \in 1 .. Len(b) + Len(c) : (b \o c)[i] = IF i <= Len(b) THEN b[i] ELSE c[i - Len(b)]
    BY ConcatProperties
  <2>2. \A i \in 1..(m + n) : bs[i] = IF i <= m THEN b[i] ELSE c[i - m]
    BY <1>1, <1>2, <2>1
  <2>3. \A k \in 1..m : bs[k] = b[k]
    BY <2>2
  <2>4. ASSUME NEW k \in 1..n PROVE bs[m + k] = c[k]
    <3>1. m + k \in 1..(m + n) /\ ~(m + k <= m) /\ (m + k) - m = k
      OBVIOUS
    <3> QED
      BY <2>2, <3>1
  <2> QED
    BY <1>1, <1>2, <2>1, <2>3, <2>4
<1>4. ASSUME NEW k \in 1..(m + n)
      PROVE  \/ k \in 1..m /\ bs[k] = b[k]
             \/ \E l \in 1..n : k = m + l /\ bs[k] = c[l]
  <2>1. CASE k <= m
    BY <1>3, <2>1
  <2>2. CASE ~(k <= m)
    <3>1. PICK l \in 1..n : k = m + l
      <4>1. k - m \in 1..n /\ k = m + (k - m)
        BY <2>2
      <4> QED
        BY <4>1
    <3> QED
      BY <1>3, <3>1
  <2> QED
    BY <2>1, <2>2
<1>5. ASSUME NEW k \in 1..(m + n)
      PROVE  Len(bs[k]) \in 1..MaxBatchSize /\ \A i \in 1..Len(bs[k]) : bs[k][i] \in M \cup N
  BY <1>1, <1>4 DEF CutsUp
<1>6. ASSUME NEW x \in M \cup N PROVE \E k \in 1..(m + n) : \E i \in 1..Len(bs[k]) : bs[k][i] = x
  <2>1. CASE x \in M
    <3>1. PICK k \in 1..m : \E i \in 1..Len(b[k]) : b[k][i] = x
      BY <1>1, <2>1 DEF CutsUp
    <3>2. k \in 1..(m + n) /\ bs[k] = b[k]
      BY <1>3
    <3> QED
      BY <3>1, <3>2
  <2>2. CASE x \in N
    <3>1. PICK k \in 1..n : \E i \in 1..Len(c[k]) : c[k][i] = x
      BY <1>1, <2>2 DEF CutsUp
    <3>2. m + k \in 1..(m + n) /\ bs[m + k] = c[k]
      BY <1>3
    <3> QED
      BY <3>1, <3>2
  <2> QED
    BY <2>1, <2>2
<1>7. ASSUME NEW k \in 1..(m + n), NEW l \in 1..(m + n), NEW i \in 1..Len(bs[k]), NEW j \in 1..Len(bs[l]),
             bs[k][i] = bs[l][j]
      PROVE  k = l /\ i = j
  <2>1. CASE k \in 1..m /\ bs[k] = b[k] /\ l \in 1..m /\ bs[l] = b[l]
    BY <1>1, <1>7, <2>1 DEF CutsUp
  <2>2. CASE (\E p \in 1..n : k = m + p /\ bs[k] = c[p]) /\ \E q \in 1..n : l = m + q /\ bs[l] = c[q]
    <3>1. PICK p \in 1..n, q \in 1..n : k = m + p /\ bs[k] = c[p] /\ l = m + q /\ bs[l] = c[q]
      BY <2>2
    <3>2. p = q /\ i = j
      BY <1>1, <1>7, <3>1 DEF CutsUp
    <3> QED
      BY <3>1, <3>2
  <2>3. CASE k \in 1..m /\ bs[k] = b[k] /\ \E q \in 1..n : l = m + q /\ bs[l] = c[q]
    <3>1. bs[k][i] \in M /\ bs[l][j] \in N
      BY <1>1, <2>3 DEF CutsUp
    <3> QED
      BY <1>7, <3>1
  <2>4. CASE l \in 1..m /\ bs[l] = b[l] /\ \E p \in 1..n : k = m + p /\ bs[k] = c[p]
    <3>1. bs[k][i] \in N /\ bs[l][j] \in M
      BY <1>1, <2>4 DEF CutsUp
    <3> QED
      BY <1>7, <3>1
  <2> QED
    BY <1>4, <2>1, <2>2, <2>3, <2>4
<1>8. CutsUp(bs, M \cup N)
  BY <1>3, <1>5, <1>6, <1>7 DEF CutsUp
<1> QED
  BY <1>2, <1>8

(* The groups that have batches of their own.                              *)
AllOf(part, n) == UNION {part[k] : k \in 1..n}
LEMMA FlattenCuts ==
    ASSUME NEW A, NEW seqs \in Seq(Seq(A)), NEW n \in Nat, n = Len(seqs), NEW part,
           \A k \in 1..n : CutsUp(seqs[k], part[k]),
           \A k, l \in 1..n : k # l => part[k] \cap part[l] = {}
    PROVE  CutsUp(FlattenSeq(seqs), AllOf(part, n))
<1>1. CASE n = 0
  <2>1. FlattenSeq(seqs) = seqs /\ Len(seqs) = 0
    BY <1>1 DEF FlattenSeq
  <2>2. AllOf(part, n) = {}
    BY <1>1 DEF AllOf
  <2> QED
    BY <2>1, <2>2, NothingIsCut
<1>2. CASE n # 0
  <2>1. PICK h : Joined(h, seqs, n, Seq(A))
    BY <1>2, FlattenGoesOn
  <2>2. PICK B : B = Seq(A)
    OBVIOUS
  <2>3. \A i \in 1..n : seqs[i] \in B /\ h[i] \in B /\ h[i] = IF i = 1 THEN seqs[i] ELSE h[i - 1] \o seqs[i]
    BY <2>1, <2>2, ElementOfSeq DEF Joined
  <2> DEFINE all(i) == UNION {part[k] : k \in 1..i}
             I == {i \in 0..n : i # 0 => CutsUp(h[i], all(i))}
  <2>4. 0 \in I
    OBVIOUS
  <2>5. \A i \in 1..n : i - 1 \in I => i \in I
    <3>0. ASSUME NEW i \in 1..n
          PROVE  /\ i - 1 \in I => i = 1 \/ CutsUp(h[i - 1], all(i - 1))
                 /\ CutsUp(h[i], all(i)) => i \in I
      <4> HIDE DEF all
      <4> QED
        OBVIOUS
    <3> SUFFICES ASSUME NEW i \in 1..n, i = 1 \/ CutsUp(h[i - 1], all(i - 1)) PROVE CutsUp(h[i], all(i))
      <4> HIDE DEF all, I
      <4> QED
        BY <3>0
    <3>1. CASE i = 1
      <4>1. all(i) = part[i]
        BY <3>1
      <4>2. CutsUp(seqs[i], part[i])
        OBVIOUS
      <4>3. h[i] = seqs[i]
        BY <2>3, <3>1
      <4> HIDE DEF all
      <4> QED
        BY <4>1, <4>2, <4>3
    <3>2. CASE i # 1
      <4>1. PICK j \in 1..n : j = i - 1
        BY <3>2
      <4>2. CutsUp(h[j], all(j))
        <5> HIDE DEF all
        <5> QED
          BY <3>2, <4>1
      <4>3. PICK M, N : M = all(j) /\ N = part[i]
        OBVIOUS
      <4>4. M \cup N = all(i)
        <5>1. 1..i = (1..j) \cup {i}
          BY <4>1
        <5>2. \A x : x \in all(i) <=> x \in all(j) \/ x \in part[i]
          BY ONLY <5>1
        <5> HIDE DEF all
        <5> QED
          BY <4>3, <5>2
      <4>5. M \cap N = {}
        <5>1. \A k \in 1..j : k \in 1..n /\ k # i
          BY <4>1
        <5>2. \A k \in 1..j : part[k] \cap N = {}
          BY <4>3, <5>1
        <5> QED
          BY <4>3, <5>2
      <4>6. PICK b \in Seq(A), c \in Seq(A) : b = h[j] /\ c = seqs[i] /\ h[i] = b \o c
        <5>1. h[j] \in B /\ seqs[i] \in B /\ h[i] = h[j] \o seqs[i]
          BY <2>3, <3>2, <4>1
        <5>2. PICK b \in B, c \in B : b = h[j] /\ c = seqs[i]
          BY <5>1
        <5> QED
          BY <2>2, <5>1, <5>2
      <4> HIDE DEF all
      <4>7. CutsUp(b, M) /\ CutsUp(c, N)
        BY <4>2, <4>3, <4>6
      <4>8. CutsUp(b \o c, M \cup N)
        BY <4>5, <4>7, CutsJoin
      <4> QED
        BY <4>4, <4>6, <4>8
    <3> QED
      BY <3>1, <3>2
  <2>6. n \in I
    <3>1. \A i \in 0..n : i \in I
      <4> HIDE DEF I
      <4> QED
        BY <2>4, <2>5, UpTo
    <3> HIDE DEF I
    <3> QED
      BY <3>1
  <2>7. CutsUp(h[n], all(n))
    <3> HIDE DEF all
    <3> QED
      BY <1>2, <2>6
  <2> QED
    BY <2>1, <2>7 DEF Joined, AllOf
<1> QED
  BY <1>1, <1>2

-----------------------------------------------------------------------------
(* The batches of a run, however their size is asked for.                  *)
LEMMA SizesFit ==
    /\ \A n \in Int : ClampBatchSize(n) \in 1..MaxBatchSize
    /\ \A n \in Nat, W \in Nat \ {0} : AutoSize(n, W) \in 1..MaxBatchSize
<1>1. MaxBatchSize \in Nat \ {0}
  BY LimitsAssumption
<1>2. ASSUME NEW n \in Int PROVE ClampBatchSize(n) \in 1..MaxBatchSize
  <2>1. PICK a \in Int : a = Min({n, MaxBatchSize}) /\ a <= MaxBatchSize
    BY <1>1, SmallerOfTwo
  <2>2. Max({1, a}) \in 1..MaxBatchSize
    BY <1>1, <2>1, LargerOfTwo
  <2> QED
    BY <2>1, <2>2 DEF ClampBatchSize
<1>3. ASSUME NEW n \in Nat, NEW W \in Nat \ {0} PROVE AutoSize(n, W) \in 1..MaxBatchSize
  <2>1. AutoSize(n, W) \in Nat \ {0}
    BY SizesAreAtLeastOne
  <2>2. CASE ~(n > W)
    BY <1>1, <2>2 DEF AutoSize
  <2>3. CASE n > W
    <3>1. PICK q \in Nat : q = (n + W - 1) \div W
      <4>1. n + W - 1 \in Nat
        BY <1>1
      <4> QED
        BY <1>1, <4>1, Division
    <3>2. Min({q, MaxBatchSize}) <= MaxBatchSize
      BY <1>1, SmallerOfTwo
    <3>3. AutoSize(n, W) = Min({q, MaxBatchSize})
      BY <2>3, <3>1 DEF AutoSize
    <3> QED
      BY <1>1, <2>1, <3>2, <3>3
  <2> QED
    BY <2>2, <2>3
<1> QED
  BY <1>2, <1>3

(* Left to itself, the size is large enough for the workers there may be.  *)
LEMMA AutoSizeSuffices ==
    ASSUME NEW n \in Nat, NEW W \in Nat \ {0}, n <= W * MaxBatchSize, NEW size \in Nat, size = AutoSize(n, W)
    PROVE  n <= W * size
<1>1. MaxBatchSize \in Nat \ {0}
  BY LimitsAssumption
<1>2. CASE ~(n > W)
  <2>1. size = 1
    BY <1>2 DEF AutoSize
  <2> QED
    BY <1>1, <1>2, <2>1
<1>3. CASE n > W
  <2>1. PICK q : q = (n + W - 1) \div W
    OBVIOUS
  <2>2. Enough(q, n, W)
    BY <1>1, <2>1, EnoughBatches, Zenon
  <2>3. q \in Nat /\ n <= q * W
    BY <2>2 DEF Enough
  <2>4. q * W = W * q
    <3>1. \A a \in Nat, b \in Nat : a * b = b * a
      BY Z3
    <3> QED
      BY <1>1, <2>3, <3>1
  <2>5. size = Min({q, MaxBatchSize})
    BY <1>3, <2>1 DEF AutoSize
  <2>6. size = q \/ size = MaxBatchSize
    BY <1>1, <2>3, <2>5, SmallerOfTwo
  <2> QED
    BY <2>3, <2>4, <2>6
<1> QED
  BY <1>2, <1>3

LEMMA AutoCut ==
    ASSUME NEW M \in SUBSET Rows, NEW rows, Lists(rows, M), NEW how, how.kind = "auto",
           NEW W \in Nat \ {0}
    PROVE  /\ CutsUp(ResolveBatchGroups(rows, W, how), M)
           /\ Len(rows) <= W * MaxBatchSize =>
                Len(ResolveBatchGroups(rows, W, how)) <= W
<1>1. PICK n \in Nat : n = Len(rows)
  BY ListedNumber
<1>2. PICK size \in 1..MaxBatchSize : size = AutoSize(n, W)
  BY SizesFit
<1>3. ResolveBatchGroups(rows, W, how) = CreateBatches(rows, size)
  BY <1>1, <1>2 DEF ResolveBatchGroups
<1>4. CutsUp(CreateBatches(rows, size), M) /\ Len(CreateBatches(rows, size)) = (Len(rows) + size - 1) \div size
  BY ChunksCut
<1>5. ASSUME n <= W * MaxBatchSize PROVE Len(CreateBatches(rows, size)) <= W
  <2>1. size \in Nat \ {0} /\ W \in Nat
    BY LimitsAssumption
  <2>2. n <= W * size
    BY <1>2, <1>5, <2>1, AutoSizeSuffices
  <2>3. PICK m : m = (n + size - 1) \div size
    OBVIOUS
  <2>4. Enough(m, n, size)
    BY <2>1, <2>3, EnoughBatches, Zenon
  <2>5. m <= W
    BY <2>1, <2>2, <2>4 DEF Enough
  <2> QED
    BY <1>1, <1>4, <2>3, <2>5
<1> QED
  BY <1>1, <1>3, <1>4, <1>5

LEMMA UniformCut ==
    ASSUME NEW M \in SUBSET Rows, NEW rows, Lists(rows, M), NEW how, how.kind = "uniform", how.size \in Int,
           NEW W \in Nat \ {0}
    PROVE  CutsUp(ResolveBatchGroups(rows, W, how), M)
<1>1. PICK size \in 1..MaxBatchSize : size = ClampBatchSize(how.size)
  BY SizesFit
<1>2. ResolveBatchGroups(rows, W, how) = CreateBatches(rows, size)
  BY <1>1 DEF ResolveBatchGroups
<1>3. CutsUp(CreateBatches(rows, size), M)
  BY ChunksCut
<1> QED
  BY <1>2, <1>3

AskedFor(how, want) == how.kind = "per row" /\ how.size = want

LEMMA PerRowCut ==
    ASSUME NEW M \in SUBSET Rows, NEW rows, Lists(rows, M),
           NEW want \in [Rows -> Int], NEW how, AskedFor(how, want),
           NEW W \in Nat \ {0}
    PROVE  CutsUp(ResolveBatchGroups(rows, W, how), M)
<1> DEFINE size(i) == ClampBatchSize(want[rows[i]])
           first == Within([i \in 1..Len(rows) |-> i],
                           {i \in 1..Len(rows) : \A j \in 1..(i - 1) : size(j) # size(i)})
           group(i) == Within(rows, {x \in ToSet(rows) : ClampBatchSize(want[x]) = size(i)})
           pieces == [k \in 1..Len(first) |-> CreateBatches(group(first[k]), size(first[k]))]
<1>1. PICK n \in Nat : n = Len(rows)
  BY ListedNumber
<1>2. /\ rows \in Seq(M) /\ \A x \in M : \E i \in 1..n : rows[i] = x
      /\ \A i \in 1..n : rows[i] \in M /\ rows[i] \in Rows
  <2>1. rows \in Seq(M) /\ \A x \in M : \E i \in 1..n : rows[i] = x
    BY <1>1 DEF Lists
  <2>2. \A i \in 1..n : rows[i] \in M
    BY <1>1, <2>1, ElementOfSeq
  <2> QED
    BY <2>1, <2>2
<1>3. ASSUME NEW i \in 1..n PROVE size(i) \in 1..MaxBatchSize
  <2>1. want[rows[i]] \in Int
    BY <1>2
  <2> QED
    BY <2>1, SizesFit
<1>4. PICK T : T = {i \in 1..n : \A j \in 1..(i - 1) : size(j) # size(i)}
  OBVIOUS
<1>5. Lists(first, T)
  <2>1. PICK p : p = [i \in 1..n |-> i]
    OBVIOUS
  <2>2. PICK N : N = 1..n
    OBVIOUS
  <2>3. p \in Seq(N) /\ Len(p) = n
    <3>1. p \in [1..n -> N]
      BY <2>1, <2>2
    <3> QED
      <4>1. p \in Seq(N)
        BY <3>1, FunctionIsASeq
      <4>2. Len(p) = n
        BY <3>1, LengthOfFunction
      <4> QED
        BY <4>1, <4>2
  <2>4. Lists(p, N)
    BY <2>1, <2>2, <2>3 DEF Lists
  <2>5. Lists(Within(p, T), N \cap T)
    BY <2>4, WithinListed
  <2>6. N \cap T = T
    BY <1>4, <2>2
  <2>7. first = Within(p, T)
    BY <1>1, <1>4, <2>1
  <2> HIDE DEF first
  <2> QED
    BY <2>5, <2>6, <2>7
<1>6. PICK m \in Nat : m = Len(first)
  <2> HIDE DEF first
  <2> QED
    BY <1>5, ListedNumber
<1>7. /\ \A k \in 1..m : first[k] \in T /\ first[k] \in 1..n
      /\ \A k, l \in 1..m : first[k] = first[l] => k = l
      /\ \A i \in T : \E k \in 1..m : first[k] = i
  <2>1. PICK f : f = first
    OBVIOUS
  <2>2. f \in Seq(T) /\ Lists(f, T) /\ m = Len(f)
    <3> HIDE DEF first
    <3> QED
      BY <1>5, <1>6, <2>1 DEF Lists
  <2>3. \A k \in 1..m : f[k] \in T
    BY <2>2, ElementOfSeq
  <2>4. \A i \in T : i \in 1..n
    BY <1>4
  <2> HIDE DEF first
  <2> QED
    BY <2>1, <2>2, <2>3, <2>4 DEF Lists
(* The rows of one size.                                                   *)
<1> DEFINE sized(i) == {x \in M : ClampBatchSize(want[x]) = size(i)}
<1>8. ASSUME NEW i \in 1..n PROVE Lists(group(i), sized(i))
  <2>1. ToSet(rows) = M
    <3>1. DOMAIN rows = 1..n
      BY <1>1, <1>2, LenProperties
    <3> QED
      BY <1>2, <3>1 DEF ToSet
  <2>2. PICK G : G = {x \in ToSet(rows) : ClampBatchSize(want[x]) = size(i)}
    OBVIOUS
  <2>3. Lists(Within(rows, G), M \cap G)
    BY WithinListed
  <2>4. M \cap G = sized(i)
    BY <2>1, <2>2
  <2>5. group(i) = Within(rows, G)
    BY <2>2
  <2> HIDE DEF group, sized, size
  <2> QED
    BY <2>3, <2>4, <2>5
<1>9. ASSUME NEW i \in 1..n
      PROVE  CutsUp(CreateBatches(group(i), size(i)), sized(i)) /\ CreateBatches(group(i), size(i)) \in Seq(Seq(M))
  <2>1. PICK s, g, N : s \in 1..MaxBatchSize /\ s = size(i) /\ g = group(i) /\ N = sized(i) /\ Lists(g, N)
    <3> HIDE DEF group, sized, size
    <3> QED
      BY <1>3, <1>8
  <2>2. CutsUp(CreateBatches(g, s), N)
    BY <2>1, ChunksCut
  <2>3. s \in Nat \ {0} /\ g \in Seq(M)
    <3>1. N \subseteq M
      BY <2>1
    <3>2. M \cap N = N
      BY <3>1
    <3>3. g \in Seq(M \cap N)
      BY <2>1, <3>2 DEF Lists
    <3>4. g \in Seq(M)
      BY <3>3, PartIsASeq
    <3>5. s \in 1..MaxBatchSize
      BY <2>1
    <3>6. s \in Nat \ {0}
      BY <3>5, LimitsAssumption
    <3> QED
      BY <3>4, <3>6
  <2>4. CreateBatches(g, s) \in Seq(Seq(M))
    BY <2>3, BatchesAreTyped
  <2> HIDE DEF group, sized, size
  <2> QED
    BY <2>1, <2>2, <2>4
<1>10. PICK part : part = [k \in 1..m |-> sized(first[k])]
  OBVIOUS
<1>11. PICK A : A = Seq(M)
  OBVIOUS
<1>12. PICK ps \in Seq(Seq(A)) : ps = pieces /\ m = Len(ps) /\ \A k \in 1..m : CutsUp(ps[k], part[k])
  <2>1. PICK B : B = Seq(A)
    OBVIOUS
  <2>2. ASSUME NEW k \in 1..m
        PROVE  /\ CreateBatches(group(first[k]), size(first[k])) \in B
               /\ CutsUp(CreateBatches(group(first[k]), size(first[k])), sized(first[k]))
    <3>1. PICK i \in 1..n : i = first[k]
      <4> HIDE DEF first
      <4> QED
        BY <1>7
    <3> HIDE DEF group, size, first, sized
    <3> QED
      BY <1>9, <1>11, <2>1, <3>1
  <2>3. PICK ps : ps = pieces
    OBVIOUS
  <2>4. ps = [k \in 1..m |-> CreateBatches(group(first[k]), size(first[k]))]
    <3> HIDE DEF first, group, size
    <3> QED
      BY <1>6, <2>3
  <2>5. ps \in [1..m -> B]
    <3> HIDE DEF first, group, size, pieces, sized
    <3> QED
      BY <2>2, <2>4
  <2>6. ps \in Seq(B) /\ Len(ps) = m
    <3>1. ps \in Seq(B)
      BY <2>5, FunctionIsASeq
    <3>2. Len(ps) = m
      BY <2>5, LengthOfFunction
    <3> QED
      BY <3>1, <3>2
  <2>7. \A k \in 1..m : CutsUp(ps[k], part[k])
    <3> HIDE DEF first, group, size, pieces, sized
    <3> QED
      BY <1>10, <2>2, <2>4
  <2> HIDE DEF pieces
  <2> QED
    BY <2>1, <2>3, <2>6, <2>7
<1>13. ASSUME NEW k \in 1..m, NEW l \in 1..m, k # l PROVE part[k] \cap part[l] = {}
  <2>1. PICK i \in T, j \in T : i = first[k] /\ j = first[l] /\ i # j /\ i \in 1..n /\ j \in 1..n
    <3> HIDE DEF first
    <3> QED
      BY <1>7, <1>13
  <2>2. size(i) # size(j)
    <3>1. \A a, b \in T : a < b => size(a) # size(b)
      <4>1. \A b \in T : b \in 1..n /\ \A j_1 \in 1..(b - 1) : size(j_1) # size(b)
        BY <1>4
      <4> HIDE DEF size
      <4>2. \A a, b \in T : a < b => a \in 1..(b - 1)
        BY <4>1
      <4> QED
        BY <4>1, <4>2
    <3> HIDE DEF size
    <3>2. i < j \/ j < i
      BY <2>1
    <3> QED
      BY <3>1, <3>2
  <2>3. part[k] = sized(i) /\ part[l] = sized(j)
    <3> HIDE DEF first, sized
    <3> QED
      BY <1>10, <2>1
  <2>4. sized(i) \cap sized(j) = {}
    <3> HIDE DEF size
    <3> QED
      BY <2>2
  <2> HIDE DEF sized
  <2> QED
    BY <2>3, <2>4
<1>14. AllOf(part, m) = M
  <2>1. ASSUME NEW k \in 1..m PROVE part[k] \subseteq M
    <3> HIDE DEF first, size
    <3> QED
      BY <1>10
  <2>2. ASSUME NEW x \in M PROVE \E k \in 1..m : x \in part[k]
    <3>1. PICK i \in 1..n : rows[i] = x
      BY <1>2
    <3>2. PICK S : S = {j \in 1..n : size(j) = size(i)}
      OBVIOUS
    <3>3. S \in SUBSET Nat /\ S # {}
      <4>1. i \in S
        BY <3>2
      <4>2. \A j \in S : j \in Nat
        <5> HIDE DEF size
        <5> QED
          BY <3>2
      <4> QED
        BY <4>1, <4>2
    <3>4. PICK j \in S : \A h \in S : ~(h < j)
      <4>1. PICK among : among = S
        OBVIOUS
      <4>2. \E j \in among : \A h \in among : j <= h
        BY <3>3, <4>1, LeastOf
      <4>3. \A h, k \in among : h <= k => ~(k < h)
        BY <3>3, <4>1
      <4> QED
        BY <4>1, <4>2, <4>3
    <3>5. j \in 1..n /\ size(j) = size(i)
      BY <3>2
    <3>6. ASSUME NEW h \in 1..(j - 1) PROVE size(h) # size(j)
      <4>1. h \in 1..n /\ h < j
        <5> HIDE DEF size
        <5> QED
          BY <3>5
      <4>2. h \notin S
        BY <3>4, <4>1
      <4> HIDE DEF size
      <4> QED
        BY <3>2, <3>5, <4>1, <4>2
    <3>7. j \in T
      <4> HIDE DEF size
      <4> QED
        BY <1>4, <3>5, <3>6
    <3>8. PICK k \in 1..m : first[k] = j
      <4> HIDE DEF first
      <4> QED
        BY <1>7, <3>7
    <3>9. part[k] = sized(j)
      <4> HIDE DEF first, sized
      <4> QED
        BY <1>10, <3>8
    <3>10. x \in sized(j)
      BY <3>1, <3>5
    <3> HIDE DEF sized
    <3> QED
      BY <3>9, <3>10
  <2> QED
    BY <2>1, <2>2 DEF AllOf
<1>15. CutsUp(FlattenSeq(ps), AllOf(part, m))
  <2>1. /\ \A k \in 1..m : CutsUp(ps[k], part[k])
        /\ \A k, l \in 1..m : k # l => part[k] \cap part[l] = {}
    BY <1>12, <1>13
  <2> QED
    BY <1>12, <2>1, FlattenCuts
<1>16. ResolveBatchGroups(rows, W, how) = FlattenSeq(pieces)
  BY DEF ResolveBatchGroups, AskedFor
<1> HIDE DEF pieces
<1> QED
  BY <1>12, <1>14, <1>15, <1>16

LEMMA BatchesCut ==
    ASSUME NEW M \in SUBSET Rows, NEW rows, Lists(rows, M), NEW how \in Sizes \cup {NoSize},
           NEW W \in Nat \ {0}
    PROVE  /\ CutsUp(ResolveBatchGroups(rows, W, how), M)
           /\ how = NoSize /\ Len(rows) <= W * MaxBatchSize =>
                Len(ResolveBatchGroups(rows, W, how)) <= W
<1>1. NoSize.kind = "auto"
  BY DEF NoSize
<1>2. CASE how = NoSize
  <2>1. how.kind = "auto"
    BY <1>1, <1>2
  <2> QED
    BY <2>1, AutoCut
<1>3. CASE how # NoSize /\ how.kind = "uniform" /\ how.size \in Int
  BY <1>3, UniformCut
<1>4. CASE how # NoSize /\ how.kind = "per row" /\ how.size \in [Rows -> Int]
  <2>1. PICK want \in [Rows -> Int] : AskedFor(how, want)
    BY <1>4 DEF AskedFor
  <2>2. CutsUp(ResolveBatchGroups(rows, W, how), M)
    BY <2>1, PerRowCut
  <2> QED
    BY <1>4, <2>2
<1> QED
  BY <1>2, <1>3, <1>4, SwarmAssumption DEF Rows

(* The rows that go out in calls.                                          *)
LEMMA AskedAre ==
    ASSUME NEW M, NEW units \in Seq(Seq(M))
    PROVE  \A x : x \in Asked(units) <=> \E k \in 1..Len(units) : \E i \in 1..Len(units[k]) : units[k][i] = x
<1>1. PICK A : A = Seq(M)
  OBVIOUS
<1>2. ASSUME NEW k \in 1..Len(units)
      PROVE  \A x : x \in ToSet(units[k]) <=> \E i \in 1..Len(units[k]) : units[k][i] = x
  <2>1. units[k] \in A
    BY <1>1, ElementOfSeq
  <2>2. PICK s \in Seq(M) : s = units[k]
    BY <1>1, <2>1
  <2>3. DOMAIN s = 1..Len(s)
    BY LenProperties
  <2> QED
    BY <2>2, <2>3 DEF ToSet
<1> QED
  BY <1>2 DEF Asked

(* Every row of a run is asked for once, or is an error at once.           *)
Dispatched(units, m, lacks, failed) ==
    /\ CutsUp(units, Asked(units)) /\ Asked(units) \subseteq m /\ m \ Asked(units) \subseteq lacks
    /\ Cardinality(Asked(units)) + failed = Cardinality(m)

LEMMA UnitsDispatched ==
    ASSUME NEW M, IsFiniteSet(M), NEW bs \in Seq(Seq(M)), CutsUp(bs, M), NEW lacks,
           NEW units \in Seq(Seq(M)), units = BuildDispatchUnits(bs, lacks)
    PROVE  /\ Dispatched(units, M, lacks, Len(bs) - Len(units))
           /\ Len(units) <= Len(bs)
<1>1. PICK A : A = Seq(M)
  OBVIOUS
<1>2. PICK n \in Nat, m \in Nat : n = Len(bs) /\ m = Len(units)
  BY LenProperties
<1>3. PICK T : T = {b \in ToSet(bs) : ~Uncallable(b, lacks)}
  OBVIOUS
<1>4. PICK p \in [1..m -> 1..n] :
        /\ \A j \in 1..m : units[j] = bs[p[j]] /\ bs[p[j]] \in T
        /\ \A i, j \in 1..m : p[i] = p[j] => i = j
        /\ \A i \in 1..n : bs[i] \in T => \E j \in 1..m : p[j] = i
  <2>1. units = Within(bs, T)
    BY <1>3 DEF BuildDispatchUnits
  <2>2. bs \in Seq(A)
    BY <1>1
  <2>3. \E p : TakenFrom(p, Within(bs, T), bs, T, Len(bs))
    BY <2>2, WithinPlaces
  <2>4. PICK p : TakenFrom(p, units, bs, T, n)
    BY <1>2, <2>1, <2>3
  <2>5. p \in [1..m -> 1..n]
    BY <1>2, <2>4 DEF TakenFrom
  <2>6. \A j \in 1..m : units[j] = bs[p[j]] /\ bs[p[j]] \in T
    BY <1>2, <2>4 DEF TakenFrom
  <2>7. \A i, j \in 1..m : p[i] = p[j] => i = j
    BY <1>2, <2>4 DEF TakenFrom
  <2>8. \A i \in 1..n : bs[i] \in T => \E j \in 1..m : p[j] = i
    BY <1>2, <2>4 DEF TakenFrom
  <2> QED
    BY <2>5, <2>6, <2>7, <2>8
<1>5. ASSUME NEW k \in 1..n PROVE bs[k] \in T <=> ~(Len(bs[k]) = 1 /\ bs[k][1] \in lacks)
  <2>1. bs \in Seq(A) /\ DOMAIN bs = 1..n
    BY <1>1, <1>2, LenProperties
  <2>2. bs[k] \in ToSet(bs)
    BY <2>1 DEF ToSet
  <2> QED
    BY <1>3, <2>2 DEF Uncallable
<1>6. /\ \A k \in 1..n : Len(bs[k]) \in 1..MaxBatchSize /\ \A i \in 1..Len(bs[k]) : bs[k][i] \in M
      /\ \A x \in M : \E k \in 1..n : \E i \in 1..Len(bs[k]) : bs[k][i] = x
      /\ \A k, l \in 1..n : \A i \in 1..Len(bs[k]), j \in 1..Len(bs[l]) :
           bs[k][i] = bs[l][j] => k = l /\ i = j
  BY <1>2 DEF CutsUp
<1>7. PICK G : G = Asked(units)
  OBVIOUS
<1>8. \A x : x \in G <=> \E k \in 1..m : \E i \in 1..Len(units[k]) : units[k][i] = x
  <2>1. \A x : x \in Asked(units) <=> \E k \in 1..Len(units) : \E i \in 1..Len(units[k]) : units[k][i] = x
    BY <1>2, AskedAre, ZenonT(30)
  <2> QED
    BY <1>2, <1>7, <2>1
<1>9. G \subseteq M
  <2>1. ASSUME NEW x \in G PROVE x \in M
    <3>1. PICK k \in 1..m : \E i \in 1..Len(units[k]) : units[k][i] = x
      BY <1>8
    <3>2. p[k] \in 1..n /\ units[k] = bs[p[k]]
      BY <1>4
    <3> QED
      BY <1>6, <3>1, <3>2
  <2> QED
    BY <2>1
<1>10. CutsUp(units, G)
  <2>1. ASSUME NEW k \in 1..m
        PROVE  Len(units[k]) \in 1..MaxBatchSize /\ \A i \in 1..Len(units[k]) : units[k][i] \in G
    <3>1. p[k] \in 1..n /\ units[k] = bs[p[k]]
      BY <1>4
    <3>2. Len(units[k]) \in 1..MaxBatchSize
      BY <1>6, <3>1
    <3> QED
      BY <1>8, <3>2
  <2>2. ASSUME NEW k \in 1..m, NEW l \in 1..m, NEW i \in 1..Len(units[k]), NEW j \in 1..Len(units[l]),
               units[k][i] = units[l][j]
        PROVE  k = l /\ i = j
    <3>1. PICK q \in 1..n : q = p[k] /\ units[k] = bs[q]
      BY <1>4
    <3>2. PICK z \in 1..n : z = p[l] /\ units[l] = bs[z]
      BY <1>4
    <3>3. i \in 1..Len(bs[q]) /\ j \in 1..Len(bs[z]) /\ bs[q][i] = bs[z][j]
      BY <2>2, <3>1, <3>2
    <3>4. q = z /\ i = j
      BY <1>6, <3>3, SMTT(30)
    <3>5. k = l
      <4>1. p[k] = p[l]
        BY <3>1, <3>2, <3>4
      <4> QED
        BY <1>4, <4>1, Zenon
    <3> QED
      BY <3>4, <3>5
  <2> QED
    BY <1>2, <1>8, <2>1, <2>2 DEF CutsUp
(* What is left out.                                                       *)
<1>11. PICK K, D : K = {k \in 1..n : bs[k] \in T} /\ D = (1..n) \ K
  OBVIOUS
<1>12. IsFiniteSet(1..n) /\ Cardinality(1..n) = n /\ IsFiniteSet(1..m) /\ Cardinality(1..m) = m
  <2>1. \A a \in Nat : IsFiniteSet(1..a) /\ Cardinality(1..a) = a
    <3>1. ASSUME NEW a \in Nat PROVE IsFiniteSet(1..a) /\ Cardinality(1..a) = a
      <4>1. a = 0 \/ a # 0
        OBVIOUS
      <4> QED
        BY <4>1, FS_Interval
    <3> QED
      BY <3>1
  <2> QED
    BY <2>1
<1>13. Cardinality(K) = m
  <2>1. PICK N : N = 1..m
    OBVIOUS
  <2>2. p \in [N -> K]
    BY <1>4, <1>11, <2>1
  <2>3. /\ IsFiniteSet(N) /\ \A x, y \in N : p[x] = p[y] => x = y
        /\ \A z \in K : \E x \in N : p[x] = z
    BY <1>4, <1>11, <1>12, <2>1
  <2>4. Cardinality(K) = Cardinality(N)
    BY <2>2, <2>3, AsManyAs
  <2> QED
    BY <1>12, <2>1, <2>4
<1>14. IsFiniteSet(D) /\ Cardinality(D) = n - m
  <2>1. PICK N : N = 1..n /\ IsFiniteSet(N) /\ Cardinality(N) = n
    BY <1>12
  <2>2. IsFiniteSet(N \ K) /\ Cardinality(N \ K) = Cardinality(N) - Cardinality(N \cap K)
    BY <2>1, FS_Difference
  <2>3. N \cap K = K /\ D = N \ K
    BY <1>11, <2>1
  <2> QED
    BY <1>13, <2>1, <2>2, <2>3
<1>15. PICK L : L = M \ G
  OBVIOUS
<1>16. ASSUME NEW k \in D PROVE k \in 1..n /\ Len(bs[k]) = 1 /\ bs[k][1] \in lacks /\ bs[k][1] \in L
  <2>1. k \in 1..n /\ bs[k] \notin T
    BY <1>11
  <2>2. Len(bs[k]) = 1 /\ bs[k][1] \in lacks
    BY <1>5, <2>1
  <2>3. bs[k][1] \in M /\ 1 \in 1..Len(bs[k])
    BY <1>6, <2>1, <2>2
  <2>4. bs[k][1] \notin G
    <3> SUFFICES ASSUME bs[k][1] \in G PROVE FALSE
      OBVIOUS
    <3>1. PICK j \in 1..m : \E i \in 1..Len(units[j]) : units[j][i] = bs[k][1]
      BY <1>8
    <3>2. PICK q \in 1..n : units[j] = bs[q] /\ bs[q] \in T
      BY <1>4
    <3>3. PICK i \in 1..Len(bs[q]) : bs[q][i] = bs[k][1]
      BY <3>1, <3>2
    <3>4. q = k
      BY <1>6, <2>1, <2>3, <3>3
    <3> QED
      BY <2>1, <3>2, <3>4
  <2> QED
    BY <1>15, <2>1, <2>2, <2>3, <2>4
<1>17. ASSUME NEW z \in L PROVE \E k \in D : bs[k][1] = z
  <2>1. PICK k \in 1..n : \E i \in 1..Len(bs[k]) : bs[k][i] = z
    BY <1>6, <1>15
  <2>2. bs[k] \notin T
    <3> SUFFICES ASSUME bs[k] \in T PROVE FALSE
      OBVIOUS
    <3>1. PICK j \in 1..m : p[j] = k
      BY <1>4
    <3>2. units[j] = bs[k]
      BY <1>4, <3>1
    <3>3. z \in G
      BY <1>8, <2>1, <3>2
    <3> QED
      BY <1>15, <3>3
  <2>3. k \in D
    BY <1>11, <2>2
  <2>4. Len(bs[k]) = 1
    BY <1>16, <2>3
  <2>5. bs[k][1] = z
    BY <2>1, <2>4
  <2> QED
    BY <2>3, <2>5
<1>18. Cardinality(L) = n - m
  <2>1. PICK f \in [D -> L] : \A k \in D : f[k] = bs[k][1]
    <3>1. [k \in D |-> bs[k][1]] \in [D -> L]
      BY <1>16
    <3> QED
      BY <3>1
  <2>2. ASSUME NEW x \in D, NEW y \in D, f[x] = f[y] PROVE x = y
    <3>1. bs[x][1] = bs[y][1] /\ x \in 1..n /\ y \in 1..n /\ 1 \in 1..Len(bs[x]) /\ 1 \in 1..Len(bs[y])
      BY <1>16, <2>1, <2>2
    <3> QED
      BY <1>6, <3>1
  <2>3. \A z \in L : \E x \in D : f[x] = z
    BY <1>17, <2>1
  <2>4. Cardinality(L) = Cardinality(D)
    BY <1>14, <2>2, <2>3, AsManyAs
  <2> QED
    BY <1>14, <2>4
<1>19. L \subseteq lacks
  BY <1>16, <1>17
<1>20. Cardinality(G) + (n - m) = Cardinality(M)
  <2>1. Cardinality(M \ G) = Cardinality(M) - Cardinality(M \cap G)
    BY FS_Difference
  <2>2. M \cap G = G
    BY <1>9
  <2>3. Cardinality(G) \in Nat /\ Cardinality(M) \in Nat
    BY <1>9, FS_Subset, FS_CardinalityType
  <2>4. PICK a \in Nat, b \in Nat : a = Cardinality(G) /\ b = Cardinality(M)
    BY <2>3
  <2>5. n - m = b - a
    BY <1>15, <1>18, <2>1, <2>2, <2>4
  <2>6. a + (n - m) = b
    BY <2>5
  <2> QED
    BY <2>4, <2>6
<1>21. m <= n
  <2>1. Cardinality(D) \in Nat
    BY <1>14, FS_CardinalityType
  <2> QED
    BY <1>14, <2>1
<1> QED
  BY <1>2, <1>7, <1>9, <1>10, <1>15, <1>19, <1>20, <1>21 DEF Dispatched

-----------------------------------------------------------------------------
(* What the variables of the swarm skill hold.                             *)
SwarmFiles == {NoFile, Emptied} \cup {Holding(c) : c \in Content}
CreateRecords == [at : CreateSteps, evict : Seq(Tables), prev : SwarmFiles]
Units == Seq(Seq(Rows))
RunRecords ==
    [at : RunSteps, table : Tables, width : 1..MaxSubagents,
     how : Sizes \cup {NoSize}, missing : BOOLEAN, lacks : SUBSET Rows,
     read : Content, of : Owners \cup {Nobody}, matched : SUBSET Rows, units : Units,
     next : Nat, calls : SUBSET Nat, got : SUBSET Rows, into : Owners \cup {Nobody},
     content : Content, prev : Content, merged : SUBSET Rows, failed : Int]

TablesTyped ==
    /\ file \in [Tables -> SwarmFiles]
    /\ seq \in [Tables -> Nat] /\ born \in Seq(Tables) /\ counter \in Nat
    /\ cache \in [Tables -> Owners \cup {Nobody}]
    /\ array \in [Owners -> Content]
    /\ entry \in [Owners -> [rows : Owners, last : Content]]
    /\ create \in [Tables -> CreateRecords]
    /\ session \in Nat /\ overlapped \subseteq Tables
RunsTyped == run \in [Runs -> RunRecords]

(* The workers of a run and what it has of its answers.                    *)
FewCalls(units, width, how, m) ==
    how = NoSize /\ Cardinality(m) <= width * MaxBatchSize => Len(units) <= width
Accounted(g, d, m) == Cardinality(g) + d = Cardinality(m)

AtWork(u) ==
    /\ u.of \in Owners
    /\ u.next \in 1..(Len(u.units) + 1) /\ u.calls \subseteq 1..(u.next - 1)
    /\ Cardinality(u.calls) <= u.width
    /\ u.next = Len(u.units) + 1 \/ Cardinality(u.calls) = u.width
    /\ u.units \in Seq(Seq(u.matched)) /\ u.got \subseteq u.matched
    /\ Dispatched(u.units, u.matched, u.lacks, u.failed) /\ u.got \subseteq Asked(u.units)
    /\ FewCalls(u.units, u.width, u.how, u.matched)
RunsSound(u) ==
    /\ u.at = "dispatch" => AtWork(u)
    /\ u.at # "dispatch" => u.calls = {} /\ u.units = <<>>
    /\ u.at \in {"read", "populate"} => u.got = {} /\ u.merged = {}
    /\ u.at \in {"edit", "written"} => u.into \in Owners
    /\ u.merged \subseteq u.matched
    /\ u.at \in {"edit", "written", "done"} => Accounted(u.merged, u.failed, u.matched)
WorkInv ==
    /\ TablesTyped /\ RunsTyped /\ \A r \in Runs : RunsSound(run[r])
    /\ \A t \in Tables : create[t].at \in {"evict", "empty"} => create[t].evict # <<>>

SwarmState == <<file, seq, born, counter, cache, array, entry, create, session, overlapped>>

LEMMA FreshIsContent == Fresh \in Content
  BY DEF Fresh, Content

LEMMA NamesApart == Nobody \notin Owners
  BY SwarmAssumption DEF Nobody, Owners

LEMMA NoUnits == <<>> \in Units
<1>1. PICK A : A = Seq(Rows)
  OBVIOUS
<1>2. <<>> \in Seq(A)
  BY NothingIsASeq
<1> QED
  BY <1>1, <1>2, Zenon DEF Units

(* The record of a run that is only told its step and its table.           *)
Bare(v, t, a) == v = [NoRun EXCEPT !.at = a, !.table = t]

LEMMA BareIsTyped ==
    ASSUME NEW t \in Tables, NEW a \in RunSteps, NEW v, Bare(v, t, a)
    PROVE  /\ v \in RunRecords
           /\ v.at = a /\ v.table = t /\ v.merged = {} /\ v.matched = {} /\ v.got = {} /\ v.calls = {}
           /\ v.units = <<>> /\ v.failed = 0
           /\ a \notin {"dispatch", "edit", "written"} => RunsSound(v)
<1>1. PICK s \in Tables : s = CHOOSE x \in Tables : TRUE
  BY SwarmAssumption
<1>2. PICK f \in Content : f = Fresh
  BY FreshIsContent
<1>3. PICK n \in Units : n = <<>>
  BY NoUnits
<1>4. NoRun = [at |-> "idle", table |-> s, width |-> 1, how |-> NoSize, missing |-> FALSE,
               lacks |-> {}, read |-> f, of |-> Nobody, matched |-> {}, units |-> n,
               next |-> 1, calls |-> {}, got |-> {}, into |-> Nobody, content |-> f,
               prev |-> f, merged |-> {}, failed |-> 0]
  BY <1>1, <1>2, <1>3 DEF NoRun
<1>8. v = [at |-> a, table |-> t, width |-> 1, how |-> NoSize, missing |-> FALSE,
           lacks |-> {}, read |-> f, of |-> Nobody, matched |-> {}, units |-> n,
           next |-> 1, calls |-> {}, got |-> {}, into |-> Nobody, content |-> f,
           prev |-> f, merged |-> {}, failed |-> 0]
  BY <1>4 DEF Bare
<1>9. v \in RunRecords
  BY <1>8, LimitsAssumption DEF RunRecords
<1>10. /\ v.at = a /\ v.table = t /\ v.merged = {} /\ v.matched = {} /\ v.got = {} /\ v.calls = {}
       /\ v.units = <<>> /\ v.failed = 0
  BY <1>3, <1>8
<1>11. a \notin {"dispatch", "edit", "written"} => RunsSound(v)
  <2>1. Accounted({}, 0, {})
    BY FS_EmptySet DEF Accounted
  <2> QED
    BY <1>10, <2>1 DEF RunsSound
<1> QED
  BY <1>9, <1>10, <1>11

LEMMA GoesOut ==
    ASSUME NEW u \in RunRecords, NEW w \in RunSteps, NEW o \in Owners, NEW m \in SUBSET Rows,
           NEW units \in Units, NEW k \in Nat, NEW c \in SUBSET Nat, NEW d \in Int, NEW f \in Content
    PROVE  [u EXCEPT !.at = w, !.of = o, !.matched = m, !.units = units, !.next = k, !.calls = c,
                     !.failed = d, !.read = f] \in RunRecords
BY DEF RunRecords

(* What a run is, with the rows it has loaded.                             *)
LEMMA SelectedIs ==
    ASSUME NEW u \in RunRecords, u.got = {}, u.merged = {}, u.calls = {}, u.units = <<>>,
           NEW o \in Owners, NEW a \in Content,
           NEW v, v = Selected(u, o, a)
    PROVE  /\ v \in RunRecords /\ RunsSound(v) /\ v.table = u.table /\ v.merged = {}
           /\ v.at \in {"done", "thrown", "dispatch"}
           /\ v.at = "dispatch" => v.of = o /\ (v.missing => \A x \in v.matched : a[x] = {})
<1>0. u.width \in Nat \ {0} /\ u.width <= MaxSubagents
  BY LimitsAssumption DEF RunRecords
<1>1. PICK m \in SUBSET Rows : m = Matched(u, a)
  BY DEF Matched
<1>2. u.missing => \A x \in m : a[x] = {}
  BY <1>1 DEF Matched
<1>3. PICK rows \in Seq(m) : rows = Within([x \in Rows |-> x], m) /\ Lists(rows, m)
  BY RowsListed DEF Lists
<1>4. PICK A : A = Seq(m)
  OBVIOUS
<1>5. PICK batches \in Seq(A) :
        /\ batches = ResolveBatchGroups(rows, u.width, u.how) /\ CutsUp(batches, m)
        /\ u.how = NoSize /\ Len(rows) <= u.width * MaxBatchSize => Len(batches) <= u.width
  <2>1. u.how \in Sizes \cup {NoSize}
    BY DEF RunRecords
  <2>2. ResolveBatchGroups(rows, u.width, u.how) \in Seq(Seq(m))
    BY <1>0, <2>1, GroupsAreTyped
  <2>3. /\ CutsUp(ResolveBatchGroups(rows, u.width, u.how), m)
        /\ u.how = NoSize /\ Len(rows) <= u.width * MaxBatchSize =>
             Len(ResolveBatchGroups(rows, u.width, u.how)) <= u.width
    BY <1>0, <1>3, <2>1, BatchesCut
  <2> QED
    BY <1>4, <2>2, <2>3
<1>6. PICK units \in Seq(A) : units = BuildDispatchUnits(batches, u.lacks)
  BY UnitsAreTyped
<1>7. units \in Seq(Seq(m)) /\ Len(units) \in Nat /\ Len(batches) \in Nat
  BY <1>4, LenProperties
<1>15. IsFiniteSet(m) /\ Cardinality(m) = Len(rows)
  BY <1>3, ListedNumber
<1>16. Dispatched(units, m, u.lacks, Len(batches) - Len(units)) /\ Len(units) <= Len(batches)
  <2>1. batches \in Seq(Seq(m))
    BY <1>4
  <2> QED
    BY <1>5, <1>6, <1>7, <1>15, <2>1, UnitsDispatched
<1>17. FewCalls(units, u.width, u.how, m)
  BY <1>0, <1>5, <1>7, <1>15, <1>16 DEF FewCalls
<1>8. units \in Units
  <2>1. Seq(m) \subseteq Seq(Rows)
    OBVIOUS
  <2>2. A \cap Seq(Rows) = A
    BY <1>4, <2>1
  <2>3. units \in Seq(Seq(Rows) \cap A)
    BY <2>2
  <2> QED
    BY <2>3, PartIsASeq DEF Units
<1>9. PICK n \in Nat : n = WorkerCount(Len(units), u.width) /\ n <= u.width /\ n <= Len(units)
                       /\ (n = Len(units) \/ n = u.width)
  <2>1. PICK k \in Nat : k = Len(units)
    BY <1>7
  <2>2. PICK w \in Nat : w = u.width
    BY <1>0
  <2>3. Min({w, k}) = IF w <= k THEN w ELSE k
    BY SmallerOfTwo
  <2>4. WorkerCount(k, w) = IF w <= k THEN w ELSE k
    BY <2>3 DEF WorkerCount
  <2> QED
    BY <2>1, <2>2, <2>4
<1>10. v = CASE m = {} -> [NoRun EXCEPT !.at = "done", !.table = u.table]
             [] m # {} /\ m \subseteq u.lacks -> [NoRun EXCEPT !.at = "thrown", !.table = u.table]
             [] OTHER -> [u EXCEPT !.at = "dispatch", !.of = o, !.matched = m, !.units = units,
                                   !.next = n + 1, !.calls = 1..n,
                                   !.failed = Len(batches) - Len(units), !.read = Fresh]
  BY <1>1, <1>3, <1>5, <1>6, <1>9 DEF Selected
<1>11. "done" \in RunSteps /\ "thrown" \in RunSteps /\ "dispatch" \in RunSteps /\ u.table \in Tables
  BY DEF RunSteps, RunRecords
<1>12. CASE m = {}
  <2>1. v = [NoRun EXCEPT !.at = "done", !.table = u.table]
    BY <1>10, <1>12
  <2>2. PICK t \in Tables, s \in RunSteps : t = u.table /\ s = "done"
    BY <1>11
  <2>3. Bare(v, t, s)
    BY <2>1, <2>2 DEF Bare
  <2>4. v \in RunRecords /\ RunsSound(v) /\ v.table = t /\ v.merged = {} /\ v.at = s
    BY <2>2, <2>3, BareIsTyped
  <2> QED
    BY <2>2, <2>4
<1>13. CASE m # {} /\ m \subseteq u.lacks
  <2>1. v = [NoRun EXCEPT !.at = "thrown", !.table = u.table]
    BY <1>10, <1>13
  <2>2. PICK t \in Tables, s \in RunSteps : t = u.table /\ s = "thrown"
    BY <1>11
  <2>3. Bare(v, t, s)
    BY <2>1, <2>2 DEF Bare
  <2>4. v \in RunRecords /\ RunsSound(v) /\ v.table = t /\ v.merged = {} /\ v.at = s
    BY <2>2, <2>3, BareIsTyped
  <2> QED
    BY <2>2, <2>4
<1>14. CASE ~(m = {}) /\ ~(m \subseteq u.lacks)
  <2>1. PICK f \in Content : f = Fresh
    BY FreshIsContent
  <2>2. PICK d \in Int : d = Len(batches) - Len(units)
    <3>1. PICK k \in Nat, l \in Nat : k = Len(batches) /\ l = Len(units)
      BY <1>7
    <3>2. k - l \in Int
      OBVIOUS
    <3> QED
      BY <3>1, <3>2
  <2>3. PICK c \in SUBSET Nat : c = 1..n
    OBVIOUS
  <2>4. v = [u EXCEPT !.at = "dispatch", !.of = o, !.matched = m, !.units = units,
                      !.next = n + 1, !.calls = c, !.failed = d, !.read = f]
    BY <1>10, <1>14, <2>1, <2>2, <2>3
  <2>5. v \in RunRecords
    <3>1. PICK w \in RunSteps : w = "dispatch"
      BY <1>11
    <3>2. PICK k \in Nat : k = n + 1
      OBVIOUS
    <3>3. v = [u EXCEPT !.at = w, !.of = o, !.matched = m, !.units = units, !.next = k, !.calls = c,
                        !.failed = d, !.read = f]
      BY <2>4, <3>1, <3>2
    <3>4. [u EXCEPT !.at = w, !.of = o, !.matched = m, !.units = units, !.next = k, !.calls = c,
                    !.failed = d, !.read = f] \in RunRecords
      BY <1>8, GoesOut
    <3> QED
      BY <3>3, <3>4, Zenon
  <2>6. v.at = "dispatch" /\ v.of = o /\ v.matched = m /\ v.units = units /\ v.next = n + 1 /\ v.calls = c
        /\ v.got = {} /\ v.merged = {} /\ v.table = u.table /\ v.missing = u.missing
        /\ v.failed = d /\ v.lacks = u.lacks /\ v.how = u.how /\ v.width = u.width
    BY <2>4 DEF RunRecords
  <2>7. Cardinality(c) = n
    <3>1. n = 0 \/ n # 0
      OBVIOUS
    <3> QED
      BY <2>3, FS_Interval
  <2>8. AtWork(v)
    <3>1. Dispatched(v.units, v.matched, v.lacks, v.failed) /\ FewCalls(v.units, v.width, v.how, v.matched)
      BY <1>16, <1>17, <2>2, <2>6
    <3> QED
      BY <1>0, <1>7, <1>9, <2>3, <2>6, <2>7, <3>1 DEF AtWork
  <2>9. RunsSound(v)
    BY <2>6, <2>8 DEF RunsSound
  <2> QED
    BY <1>2, <2>5, <2>6, <2>9
<1> QED
  BY <1>12, <1>13, <1>14

(* A step of a run, and what it makes of its record.                       *)
RunGoes(r, v) == run' = [run EXCEPT ![r] = v]

LEMMA OneRunGoes ==
    ASSUME WorkInv, NEW r \in Runs, NEW v \in RunRecords, RunsSound(v), RunGoes(r, v)
    PROVE  /\ run' \in [Runs -> RunRecords] /\ run'[r] = v /\ \A q \in Runs : q # r => run'[q] = run[q]
           /\ \A q \in Runs : RunsSound(run'[q])
<1>1. run \in [Runs -> RunRecords] /\ \A q \in Runs : RunsSound(run[q])
  BY DEF WorkInv, RunsTyped
<1>2. run' \in [Runs -> RunRecords] /\ run'[r] = v /\ \A q \in Runs : q # r => run'[q] = run[q]
  BY <1>1 DEF RunGoes
<1> QED
  BY <1>1, <1>2

(* What NoRun says of the fields that a step does not give.                *)
LEMMA Saves ==
    ASSUME NEW w \in RunRecords, NEW e \in Owners, NEW c \in Content, NEW p \in Content,
           NEW m \in SUBSET Rows, NEW g \in SUBSET Rows, NEW d \in Int
    PROVE  [w EXCEPT !.into = e, !.content = c, !.prev = p, !.matched = m, !.merged = g, !.failed = d]
             \in RunRecords
BY DEF RunRecords

SaveOf(v, t, e, c, p, m, g, d) ==
    v = [NoRun EXCEPT !.at = "edit", !.table = t, !.into = e, !.content = c, !.prev = p,
           !.matched = m, !.merged = g, !.failed = d]

LEMMA SavesAsIs ==
    ASSUME NEW t \in Tables, NEW e \in Owners, NEW c \in Content, NEW p \in Content,
           NEW m \in SUBSET Rows, NEW g \in SUBSET Rows, NEW d \in Int, g \subseteq m, Accounted(g, d, m),
           NEW v, SaveOf(v, t, e, c, p, m, g, d)
    PROVE  /\ v \in RunRecords /\ RunsSound(v)
           /\ v.at = "edit" /\ v.table = t /\ v.into = e /\ v.content = c /\ v.prev = p
           /\ v.matched = m /\ v.merged = g
<1>2. PICK s \in RunSteps : s = "edit"
  BY DEF RunSteps
<1>1. PICK w \in RunRecords : Bare(w, t, "edit")
  <2>1. PICK w : Bare(w, t, s)
    BY DEF Bare
  <2> QED
    BY <1>2, <2>1, BareIsTyped
<1>3. w.at = "edit" /\ w.table = t /\ w.calls = {} /\ w.units = <<>>
  BY <1>1, <1>2, BareIsTyped
<1>4. v = [w EXCEPT !.into = e, !.content = c, !.prev = p, !.matched = m, !.merged = g, !.failed = d]
  BY <1>1 DEF Bare, SaveOf
<1>5. v \in RunRecords
  <2>1. [w EXCEPT !.into = e, !.content = c, !.prev = p, !.matched = m, !.merged = g, !.failed = d]
          \in RunRecords
    BY Saves
  <2> QED
    BY <1>4, <2>1, Zenon
<1>6. /\ v.at = "edit" /\ v.table = t /\ v.into = e /\ v.content = c /\ v.prev = p
      /\ v.matched = m /\ v.merged = g /\ v.calls = {} /\ v.units = <<>> /\ v.failed = d
  BY <1>3, <1>4 DEF RunRecords
<1>7. RunsSound(v)
  BY <1>6 DEF RunsSound
<1> QED
  BY <1>5, <1>6, <1>7

DoneWith(v, t, m, g, d) ==
    v = [NoRun EXCEPT !.at = "done", !.table = t, !.matched = m, !.merged = g, !.failed = d]

LEMMA DoneAsIs ==
    ASSUME NEW t \in Tables, NEW m \in SUBSET Rows, NEW g \in SUBSET Rows, NEW d \in Int, g \subseteq m,
           Accounted(g, d, m), NEW v, DoneWith(v, t, m, g, d)
    PROVE  v \in RunRecords /\ RunsSound(v) /\ v.at = "done" /\ v.table = t /\ v.matched = m /\ v.merged = g
<1>1. PICK w : Bare(w, t, "done")
  BY DEF Bare
<1>2. PICK s \in RunSteps : s = "done"
  BY DEF RunSteps
<1>3. w \in RunRecords /\ w.at = "done" /\ w.table = t /\ w.calls = {} /\ w.units = <<>>
  BY <1>1, <1>2, BareIsTyped
<1>4. v = [w EXCEPT !.matched = m, !.merged = g, !.failed = d]
  BY <1>1 DEF Bare, DoneWith
<1>5. v \in RunRecords
  BY <1>3, <1>4 DEF RunRecords
<1>6. /\ v.at = "done" /\ v.table = t /\ v.matched = m /\ v.merged = g /\ v.calls = {} /\ v.units = <<>>
      /\ v.failed = d
  BY <1>3, <1>4 DEF RunRecords
<1>7. RunsSound(v)
  BY <1>6 DEF RunsSound
<1> QED
  BY <1>5, <1>6, <1>7

(* What a run asks for is cut to what it gets.                             *)
LEMMA AtMostMaxSubagents ==
    ASSUME NEW asked \in Int
    PROVE  EffectiveConcurrency(asked) \in 1..MaxSubagents
<1>1. PICK m \in Int : m = Min({asked, MaxSubagents}) /\ m <= MaxSubagents
  BY LimitsAssumption, SmallerOfTwo
<1>2. Max({1, m}) \in 1..MaxSubagents
  BY <1>1, LimitsAssumption, LargerOfTwo
<1> QED
  BY <1>1, <1>2 DEF EffectiveConcurrency

(* The record a run begins with.                                           *)
Begins(u, t) ==
    \E width \in 1..MaxSubagents, how \in Sizes, missing \in BOOLEAN, lacks \in SUBSET Lackable :
        u = [NoRun EXCEPT !.table = t, !.width = width, !.how = how, !.missing = missing, !.lacks = lacks]

LEMMA BeginsAsIs ==
    ASSUME NEW t \in Tables, NEW u, Begins(u, t)
    PROVE  u \in RunRecords /\ u.got = {} /\ u.merged = {} /\ u.calls = {} /\ u.units = <<>> /\ u.table = t
<1>0. PICK width \in 1..MaxSubagents, how \in Sizes, missing \in BOOLEAN, lacks \in SUBSET Lackable :
           u = [NoRun EXCEPT !.table = t, !.width = width, !.how = how, !.missing = missing, !.lacks = lacks]
  BY Zenon DEF Begins
<1>1. PICK s \in Tables : s = CHOOSE x \in Tables : TRUE
  BY SwarmAssumption
<1>2. PICK f \in Content : f = Fresh
  BY FreshIsContent
<1>3. PICK n \in Units : n = <<>>
  BY NoUnits
<1>4. NoRun = [at |-> "idle", table |-> s, width |-> 1, how |-> NoSize, missing |-> FALSE,
               lacks |-> {}, read |-> f, of |-> Nobody, matched |-> {}, units |-> n,
               next |-> 1, calls |-> {}, got |-> {}, into |-> Nobody, content |-> f,
               prev |-> f, merged |-> {}, failed |-> 0]
  BY <1>1, <1>2, <1>3 DEF NoRun
<1>5. PICK l \in SUBSET Rows, h \in Sizes \cup {NoSize} : l = lacks /\ h = how
  BY <1>0, SwarmAssumption DEF Rows
<1>6. u = [at |-> "idle", table |-> t, width |-> width, how |-> h, missing |-> missing,
           lacks |-> l, read |-> f, of |-> Nobody, matched |-> {}, units |-> n,
           next |-> 1, calls |-> {}, got |-> {}, into |-> Nobody, content |-> f,
           prev |-> f, merged |-> {}, failed |-> 0]
  BY <1>0, <1>4, <1>5
<1>7. "idle" \in RunSteps /\ missing \in BOOLEAN /\ width \in 1..MaxSubagents
  BY DEF RunSteps
<1>8. u \in RunRecords
  BY <1>6, <1>7 DEF RunRecords
<1>9. u.got = {} /\ u.merged = {} /\ u.calls = {} /\ u.units = <<>> /\ u.table = t
  BY <1>3, <1>6
<1> QED
  BY <1>8, <1>9

-----------------------------------------------------------------------------
(* What each step of a run does to its record.                             *)
(* run() is called on a table that is there.                               *)
RunBegins(r, t) ==
    \E how \in Sizes, missing \in BOOLEAN, lacks \in SUBSET Lackable :
        file[t] # NoFile /\ BeginRun(r, t, how, missing, lacks)

LEMMA BeginEffect ==
    ASSUME WorkInv, NEW r \in Runs, NEW t \in Tables, RunBegins(r, t)
    PROVE  \E v \in RunRecords :
             /\ run[r].at = "idle" /\ create[t].at = "done"
             /\ RunGoes(r, v) /\ RunsSound(v) /\ v.table = t /\ v.merged = {}
             /\ \/ cache[t] = Nobody /\ v.at = "read"
                \/ /\ cache[t] # Nobody /\ v.at \in {"done", "thrown", "dispatch"}
                   /\ v.at = "dispatch" =>
                        /\ v.of = entry[cache[t]].rows
                        /\ v.missing => \A x \in v.matched : array[v.of][x] = {}
<1>0. PICK how, missing, lacks :
           /\ how \in Sizes /\ missing \in BOOLEAN /\ lacks \in SUBSET Lackable
           /\ BeginRun(r, t, how, missing, lacks)
  BY DEF RunBegins
<1>1. PICK u : u = [NoRun EXCEPT !.table = t, !.width = EffectiveConcurrency(Concurrency[r]),
                                 !.how = how, !.missing = missing, !.lacks = lacks]
  OBVIOUS
<1>2. /\ u \in RunRecords /\ u.got = {} /\ u.merged = {} /\ u.calls = {} /\ u.units = <<>> /\ u.table = t
  <2>1. EffectiveConcurrency(Concurrency[r]) \in 1..MaxSubagents
    BY SwarmAssumption, AtMostMaxSubagents
  <2>2. Begins(u, t)
    BY <1>0, <1>1, <2>1 DEF Begins
  <2> QED
    BY <2>2, BeginsAsIs
<1>3. run \in [Runs -> RunRecords] /\ cache[t] \in Owners \cup {Nobody}
      /\ entry \in [Owners -> [rows : Owners, last : Content]] /\ array \in [Owners -> Content]
  BY DEF WorkInv, TablesTyped, RunsTyped
<1>6. run[r].at = "idle" /\ create[t].at = "done"
  BY <1>0 DEF BeginRun
<1>4. CASE cache[t] = Nobody
  <2>1. PICK v : v = [u EXCEPT !.at = "read"]
    OBVIOUS
  <2>2. run' = [run EXCEPT ![r] = v]
    BY <1>0, <1>1, <1>4, <2>1 DEF BeginRun
  <2>3. PICK s \in RunSteps : s = "read"
    BY DEF RunSteps
  <2>4. v \in RunRecords
    BY <1>2, <2>1, <2>3 DEF RunRecords
  <2>5. v.at = "read" /\ v.got = {} /\ v.merged = {} /\ v.calls = {} /\ v.units = <<>> /\ v.table = t
    BY <1>2, <2>1 DEF RunRecords
  <2>6. RunsSound(v)
    BY <2>5 DEF RunsSound
  <2> QED
    BY <1>4, <1>6, <2>2, <2>4, <2>5, <2>6 DEF RunGoes
<1>5. CASE cache[t] # Nobody
  <2>1. PICK o \in Owners : o = entry[cache[t]].rows
    BY <1>3, <1>5
  <2>2. o # Nobody
    BY NamesApart
  <2>3. PICK a \in Content : a = array[o]
    BY <1>3
  <2>4. PICK v : v = Selected(u, o, a)
    OBVIOUS
  <2>5. run' = [run EXCEPT ![r] = v]
    BY <1>0, <1>1, <1>5, <2>1, <2>2, <2>3, <2>4 DEF BeginRun
  <2>6. /\ v \in RunRecords /\ RunsSound(v) /\ v.table = u.table /\ v.merged = {}
        /\ v.at \in {"done", "thrown", "dispatch"}
        /\ v.at = "dispatch" => v.of = o /\ (v.missing => \A x \in v.matched : a[x] = {})
    BY <1>2, <2>4, SelectedIs
  <2>7. RunGoes(r, v) /\ v.table = t
    BY <1>2, <2>5, <2>6 DEF RunGoes
  <2>8. v.at = "dispatch" => v.of = entry[cache[t]].rows /\ (v.missing => \A x \in v.matched : array[v.of][x] = {})
    BY <2>1, <2>3, <2>6
  <2> QED
    BY <1>5, <1>6, <2>6, <2>7, <2>8
<1> QED
  BY <1>4, <1>5

LEMMA RowsOfFiles == ASSUME NEW f \in SwarmFiles PROVE f.rows \in Content
  BY FreshIsContent DEF SwarmFiles, NoFile, Emptied, Holding

LEMMA ReadEffect ==
    ASSUME WorkInv, NEW r \in Runs, ReadTable(r)
    PROVE  \E v \in RunRecords :
             /\ RunGoes(r, v) /\ RunsSound(v) /\ v.table = run[r].table /\ v.merged = {}
             /\ \/ v.at = "thrown"
                \/ v.at = "populate" /\ file[v.table] # Emptied /\ v.read = file[v.table].rows
<1>1. PICK u \in RunRecords : u = run[r] /\ RunsSound(u)
  BY DEF WorkInv, RunsTyped
<1>2. u.at = "read" /\ u.table \in Tables
  BY <1>1 DEF ReadTable, RunRecords
<1>3. PICK f \in SwarmFiles : f = file[u.table]
  BY <1>2 DEF WorkInv, TablesTyped
<1>4. CASE f = Emptied
  <2>1. PICK v : v = [NoRun EXCEPT !.at = "thrown", !.table = u.table]
    OBVIOUS
  <2>2. run' = [run EXCEPT ![r] = v]
    BY <1>1, <1>3, <1>4, <2>1 DEF ReadTable
  <2>3. PICK s \in RunSteps, t \in Tables : s = "thrown" /\ t = u.table
    BY <1>2 DEF RunSteps
  <2>4. Bare(v, t, s)
    BY <2>1, <2>3 DEF Bare
  <2>5. v \in RunRecords /\ RunsSound(v) /\ v.table = t /\ v.at = s /\ v.merged = {}
    BY <2>3, <2>4, BareIsTyped
  <2> QED
    BY <1>1, <2>2, <2>3, <2>5 DEF RunGoes
<1>5. CASE f # Emptied
  <2>1. PICK c \in Content : c = f.rows
    BY RowsOfFiles
  <2>2. PICK s \in RunSteps : s = "populate"
    BY DEF RunSteps
  <2>3. PICK v : v = [u EXCEPT !.at = s, !.read = c]
    OBVIOUS
  <2>4. run' = [run EXCEPT ![r] = v]
    BY <1>1, <1>3, <1>5, <2>1, <2>2, <2>3 DEF ReadTable
  <2>5. v \in RunRecords
    BY <2>3 DEF RunRecords
  <2>6. v.at = s /\ v.read = c /\ v.table = u.table /\ v.merged = u.merged /\ v.got = u.got
        /\ v.calls = u.calls /\ v.units = u.units
    BY <2>3 DEF RunRecords
  <2>7. RunsSound(v) /\ v.merged = {}
    BY <1>1, <1>2, <2>2, <2>6 DEF RunsSound
  <2> QED
    BY <1>1, <1>3, <1>5, <2>1, <2>2, <2>4, <2>5, <2>6, <2>7 DEF RunGoes
<1> QED
  BY <1>4, <1>5

LEMMA PopulateEffect ==
    ASSUME WorkInv, NEW r \in Runs, Populate(r)
    PROVE  \E v \in RunRecords :
             /\ RunGoes(r, v) /\ RunsSound(v) /\ v.table = run[r].table /\ v.merged = {}
             /\ v.at \in {"done", "thrown", "dispatch"}
             /\ v.at = "dispatch" => v.of = r /\ (v.missing => \A x \in v.matched : run[r].read[x] = {})
<1>1. PICK u \in RunRecords : u = run[r] /\ RunsSound(u)
  BY DEF WorkInv, RunsTyped
<1>2. u.at = "populate"
  BY <1>1 DEF Populate
<1>3. u.got = {} /\ u.merged = {} /\ u.calls = {} /\ u.units = <<>>
  BY <1>1, <1>2 DEF RunsSound
<1>4. PICK c \in Content : c = u.read
  BY DEF RunRecords
<1>5. PICK v : v = Selected(u, r, c)
  OBVIOUS
<1>6. run' = [run EXCEPT ![r] = v]
  BY <1>1, <1>4, <1>5 DEF Populate
<1>7. r \in Owners
  BY DEF Owners
<1>8. /\ v \in RunRecords /\ RunsSound(v) /\ v.table = u.table /\ v.merged = {}
      /\ v.at \in {"done", "thrown", "dispatch"}
      /\ v.at = "dispatch" => v.of = r /\ (v.missing => \A x \in v.matched : c[x] = {})
  BY <1>3, <1>5, <1>7, SelectedIs
<1> QED
  BY <1>1, <1>4, <1>6, <1>8 DEF RunGoes

LEMMA AnswerEffect ==
    ASSUME WorkInv, NEW r \in Runs, NEW k \in run[r].calls,
           NEW ans \in AnswersTo(run[r].units[k], Rows), Answer(r, k, ans)
    PROVE  \E v \in RunRecords :
             /\ RunGoes(r, v) /\ RunsSound(v) /\ run[r].at = "dispatch" /\ v.at = "dispatch"
             /\ v.table = run[r].table /\ v.of = run[r].of /\ v.matched = run[r].matched
             /\ v.missing = run[r].missing /\ v.merged = run[r].merged
<1>1. PICK u \in RunRecords : u = run[r] /\ RunsSound(u)
  BY DEF WorkInv, RunsTyped
<1>2. u.at = "dispatch" /\ AtWork(u)
  BY <1>1 DEF Answer, RunsSound
<1>3. PICK n \in Nat : n = Len(u.units)
  BY <1>2, LenProperties DEF AtWork
<1>4. u.next \in 1..(n + 1) /\ u.calls \subseteq 1..(u.next - 1) /\ k \in u.calls /\ k \in 1..n
  BY <1>1, <1>2, <1>3 DEF AtWork
<1>5. PICK g \in SUBSET u.matched : g = u.got \cup Unpack(u.units[k], ans) /\ g \subseteq Asked(u.units)
  <2>1. PICK A : A = Seq(u.matched)
    OBVIOUS
  <2>2. u.units[k] \in A
    BY <1>2, <1>3, <1>4, <2>1, ElementOfSeq DEF AtWork
  <2>3. ToSet(u.units[k]) \subseteq u.matched
    <3>1. PICK s \in Seq(u.matched) : s = u.units[k]
      BY <2>1, <2>2
    <3>2. ASSUME NEW i \in DOMAIN s PROVE s[i] \in u.matched
      BY ElementOfSeq
    <3> QED
      BY <3>1, <3>2 DEF ToSet
  <2>4. ToSet(u.units[k]) \subseteq Asked(u.units)
    BY <1>3, <1>4 DEF Asked
  <2> QED
    BY <1>2, <2>3, <2>4 DEF AtWork, Unpack
<1> DEFINE more == u.next <= n
<1>6. PICK c \in SUBSET Nat : c = (u.calls \ {k}) \cup (IF more THEN {u.next} ELSE {})
  <2>1. \A y \in u.calls : y \in Nat
    BY DEF RunRecords
  <2>2. u.next \in Nat
    BY <1>4
  <2> QED
    BY <2>1, <2>2
<1>7. PICK x \in Nat : x = IF more THEN u.next + 1 ELSE u.next
  BY <1>4
<1>8. PICK v : v = [u EXCEPT !.got = g, !.calls = c, !.next = x]
  OBVIOUS
<1>9. run' = [run EXCEPT ![r] = v]
  <2>1. run' = [run EXCEPT ![r].got = g, ![r].calls = c, ![r].next = x]
    BY <1>1, <1>3, <1>5, <1>6, <1>7 DEF Answer
  <2>2. run \in [Runs -> RunRecords]
    BY DEF WorkInv, RunsTyped
  <2> QED
    BY <1>1, <1>8, <2>1, <2>2
<1>10. g \in SUBSET Rows
  BY DEF RunRecords
<1>11. v \in RunRecords
  BY <1>8, <1>10 DEF RunRecords
<1>12. /\ v.got = g /\ v.calls = c /\ v.next = x /\ v.at = u.at /\ v.table = u.table /\ v.of = u.of
       /\ v.matched = u.matched /\ v.missing = u.missing /\ v.merged = u.merged /\ v.units = u.units
       /\ v.lacks = u.lacks /\ v.failed = u.failed /\ v.how = u.how /\ v.width = u.width
  BY <1>8, <1>10 DEF RunRecords
<1>13. IsFiniteSet(u.calls) /\ Cardinality(u.calls) \in Nat
  <2>1. PICK m \in Int : m = u.next - 1
    BY <1>4
  <2>2. IsFiniteSet(1..m)
    BY FS_Interval
  <2>3. IsFiniteSet(u.calls)
    BY <1>4, <2>1, <2>2, FS_Subset
  <2> QED
    BY <2>3, FS_CardinalityType
<1>14. Cardinality(u.calls \ {k}) = Cardinality(u.calls) - 1 /\ IsFiniteSet(u.calls \ {k})
  BY <1>4, <1>13, FS_RemoveElement
<1>15. CASE more
  <2>1. c = (u.calls \ {k}) \cup {u.next} /\ x = u.next + 1
    BY <1>6, <1>7, <1>15
  <2>2. u.next \notin u.calls \ {k}
    BY <1>4
  <2>3. Cardinality(c) = Cardinality(u.calls)
    <3>1. PICK T : T = u.calls \ {k}
      OBVIOUS
    <3>2. PICK y : y = u.next
      OBVIOUS
    <3>3. Cardinality(T \cup {y}) = Cardinality(T) + 1
      BY <1>14, <2>2, <3>1, <3>2, FS_AddElement
    <3> QED
      BY <1>13, <1>14, <2>1, <3>1, <3>2, <3>3
  <2>4. x \in 1..(n + 1) /\ c \subseteq 1..(x - 1)
    BY <1>4, <1>15, <2>1
  <2>5. Cardinality(u.calls) = u.width
    BY <1>2, <1>3, <1>15 DEF AtWork
  <2>6. AtWork(v)
    BY <1>2, <1>3, <1>5, <1>12, <2>3, <2>4, <2>5, LimitsAssumption DEF AtWork
  <2>7. RunsSound(v)
    BY <1>1, <1>2, <1>12, <2>6 DEF RunsSound
  <2> QED
    BY <1>1, <1>2, <1>9, <1>11, <1>12, <2>7 DEF RunGoes
<1>16. CASE ~more
  <2>1. c = u.calls \ {k} /\ x = u.next
    BY <1>6, <1>7, <1>16
  <2>2. x = n + 1 /\ c \subseteq 1..(x - 1)
    BY <1>4, <1>16, <2>1
  <2>3. Cardinality(c) <= u.width
    <3>1. u.width \in Nat
      BY DEF RunRecords
    <3> QED
      BY <1>2, <1>13, <1>14, <2>1, <3>1 DEF AtWork
  <2>4. AtWork(v)
    BY <1>2, <1>3, <1>5, <1>12, <2>2, <2>3 DEF AtWork
  <2>5. RunsSound(v)
    BY <1>1, <1>2, <1>12, <2>4 DEF RunsSound
  <2> QED
    BY <1>1, <1>2, <1>9, <1>11, <1>12, <2>5 DEF RunGoes
<1> QED
  BY <1>15, <1>16

(* Rows that were asked for and got no result, in number.                  *)
LEMMA FailedIsANumber ==
    ASSUME NEW M \in SUBSET Rows, NEW units \in Seq(Seq(M)), NEW g
    PROVE  CountFailed(units, g) \in Nat
<1>1. PICK T : T = Asked(units) \ g
  OBVIOUS
<1>2. PICK A : A = Seq(M)
  OBVIOUS
<1>3. ASSUME NEW k \in 1..Len(units) PROVE ToSet(units[k]) \subseteq M
  <2>1. units[k] \in A
    BY <1>2, ElementOfSeq
  <2>2. PICK s \in Seq(M) : s = units[k]
    BY <1>2, <2>1
  <2>3. ASSUME NEW i \in DOMAIN s PROVE s[i] \in M
    BY ElementOfSeq
  <2> QED
    BY <2>2, <2>3 DEF ToSet
<1>4. T \subseteq Rows
  BY <1>1, <1>3 DEF Asked
<1>5. IsFiniteSet(Rows)
  <2>1. NumRows \in Nat
    BY SwarmAssumption
  <2>2. IsFiniteSet(1..NumRows)
    BY <2>1, FS_Interval
  <2> QED
    BY <2>2 DEF Rows
<1>6. Cardinality(T) \in Nat
  BY <1>4, <1>5, FS_Subset, FS_CardinalityType
<1> QED
  BY <1>1, <1>6 DEF CountFailed

LEMMA AnswersAccountFor ==
    ASSUME NEW M \in SUBSET Rows, NEW units, NEW g, g \subseteq Asked(units), NEW lacks, NEW f \in Int,
           Dispatched(units, M, lacks, f), NEW d, d = f + CountFailed(units, g)
    PROVE  Accounted(g, d, M)
<1>1. PICK G : G = Asked(units)
  OBVIOUS
<1>2. G \subseteq M /\ Cardinality(G) + f = Cardinality(M) /\ g \subseteq G
  BY <1>1 DEF Dispatched
<1>3. IsFiniteSet(Rows)
  <2>1. NumRows \in Nat
    BY SwarmAssumption
  <2>2. IsFiniteSet(1..NumRows)
    BY <2>1, FS_Interval
  <2> QED
    BY <2>2 DEF Rows
<1>4. IsFiniteSet(G) /\ IsFiniteSet(g) /\ IsFiniteSet(G \ g)
  <2>1. G \subseteq Rows /\ g \subseteq Rows /\ G \ g \subseteq Rows
    BY <1>2
  <2> QED
    BY <1>3, <2>1, FS_Subset
<1>5. PICK a \in Nat, b \in Nat, c \in Nat :
        a = Cardinality(G) /\ b = Cardinality(g) /\ c = Cardinality(G \ g)
  BY <1>4, FS_CardinalityType
<1>6. c = a - b
  <2>1. Cardinality(G \ g) = Cardinality(G) - Cardinality(G \cap g)
    BY <1>4, FS_Difference
  <2>2. G \cap g = g
    BY <1>2
  <2> QED
    BY <1>5, <2>1, <2>2
<1>7. CountFailed(units, g) = c
  <2>1. CountFailed(units, g) = Cardinality(Asked(units) \ g)
    BY DEF CountFailed
  <2> QED
    BY <1>1, <1>5, <2>1
<1>8. b + (f + c) = a + f
  BY <1>5, <1>6
<1> QED
  BY <1>2, <1>5, <1>7, <1>8 DEF Accounted

(* The content that the answers of r make of what its array holds.         *)
MergedInto(c, a, g, r) == c = [x \in Rows |-> IF x \in g THEN a[x] \cup {r} ELSE a[x]]

LEMMA MergeEffect ==
    ASSUME WorkInv, NEW r \in Runs, MergeAndSave(r)
    PROVE  /\ run[r].at = "dispatch" /\ run[r].of \in Owners
           /\ \E c \in Content, v \in RunRecords :
                /\ MergedInto(c, array[run[r].of], run[r].got, r) /\ array' = [array EXCEPT ![run[r].of] = c]
                /\ RunGoes(r, v) /\ RunsSound(v) /\ v.table = run[r].table
                /\ \/ v.at = "thrown" /\ v.merged = {} /\ cache[v.table] = Nobody /\ entry' = entry
                   \/ /\ v.at = "edit" /\ v.into = cache[v.table] /\ v.into \in Owners /\ v.content = c
                      /\ v.prev = entry[v.into].last /\ v.merged = run[r].got /\ v.matched = run[r].matched
                      /\ entry' = [entry EXCEPT ![v.into].rows = run[r].of]
<1>1. PICK u \in RunRecords : u = run[r] /\ RunsSound(u)
  BY DEF WorkInv, RunsTyped
<1>2. u.at = "dispatch" /\ AtWork(u)
  BY <1>1 DEF MergeAndSave, RunsSound
<1>3. PICK o \in Owners, t \in Tables, m \in SUBSET Rows : o = u.of /\ t = u.table /\ m = u.matched
  BY <1>2 DEF RunRecords, AtWork
<1>4. PICK g \in SUBSET Rows : g = u.got /\ g \subseteq m
  BY <1>2, <1>3 DEF AtWork
<1>5. array \in [Owners -> Content] /\ entry \in [Owners -> [rows : Owners, last : Content]]
      /\ cache \in [Tables -> Owners \cup {Nobody}]
  BY DEF WorkInv, TablesTyped
<1>6. PICK c \in Content : MergedInto(c, array[o], g, r)
  <2>1. PICK a \in Content : a = array[o]
    BY <1>5
  <2>2. [x \in Rows |-> IF x \in g THEN a[x] \cup {r} ELSE a[x]] \in Content
    BY DEF Content
  <2> QED
    BY <2>1, <2>2 DEF MergedInto
<1>7. array' = [array EXCEPT ![o] = c]
  BY <1>1, <1>3, <1>4, <1>6 DEF MergeAndSave, MergedInto
<1>8. CASE cache[t] = Nobody
  <2>1. PICK v : v = [NoRun EXCEPT !.at = "thrown", !.table = t]
    OBVIOUS
  <2>2. run' = [run EXCEPT ![r] = v] /\ entry' = entry
    BY <1>1, <1>3, <1>8, <2>1 DEF MergeAndSave
  <2>3. PICK s \in RunSteps : s = "thrown"
    BY DEF RunSteps
  <2>4. Bare(v, t, s)
    BY <2>1, <2>3 DEF Bare
  <2>5. v \in RunRecords /\ RunsSound(v) /\ v.table = t /\ v.at = s /\ v.merged = {}
    BY <2>3, <2>4, BareIsTyped
  <2> QED
    BY <1>1, <1>2, <1>3, <1>4, <1>6, <1>7, <1>8, <2>2, <2>3, <2>5 DEF RunGoes
<1>9. CASE cache[t] # Nobody
  <2>1. PICK e \in Owners : e = cache[t]
    BY <1>5, <1>9
  <2>2. PICK p \in Content : p = entry[e].last
    BY <1>5
  <2>3. PICK d \in Int : d = u.failed + CountFailed(u.units, u.got)
    <3>1. u.units \in Seq(Seq(m))
      BY <1>2, <1>3 DEF AtWork
    <3>2. PICK k \in Nat : k = CountFailed(u.units, u.got)
      BY <3>1, FailedIsANumber
    <3>3. u.failed \in Int
      BY DEF RunRecords
    <3> QED
      BY <3>2, <3>3
  <2>4. PICK v : v = [NoRun EXCEPT !.at = "edit", !.table = t, !.into = e, !.content = c, !.prev = p,
                        !.matched = m, !.merged = g, !.failed = d]
    OBVIOUS
  <2>5. run' = [run EXCEPT ![r] = v] /\ entry' = [entry EXCEPT ![e].rows = o]
    <3>1. e # Nobody
      BY NamesApart
    <3> QED
      <4>1. /\ entry' = [entry EXCEPT ![cache[u.table]].rows = u.of]
            /\ run' = [run EXCEPT ![r] = [NoRun EXCEPT !.at = "edit", !.table = u.table, !.into = cache[u.table],
                         !.content = [x \in Rows |-> IF x \in u.got THEN array[u.of][x] \cup {r} ELSE array[u.of][x]],
                         !.prev = entry[cache[u.table]].last, !.matched = u.matched,
                         !.merged = u.got, !.failed = u.failed + CountFailed(u.units, u.got)]]
        BY <1>1, <1>3, <2>1, <3>1, ZenonT(30) DEF MergeAndSave
      <4>2. c = [x \in Rows |-> IF x \in u.got THEN array[u.of][x] \cup {r} ELSE array[u.of][x]]
        BY <1>3, <1>4, <1>6, Zenon DEF MergedInto
      <4> QED
        BY ONLY <1>3, <1>4, <2>1, <2>2, <2>3, <2>4, <4>1, <4>2, Zenon
  <2>6. /\ v \in RunRecords /\ RunsSound(v)
        /\ v.at = "edit" /\ v.table = t /\ v.into = e /\ v.content = c /\ v.prev = p
        /\ v.matched = m /\ v.merged = g
    <3>1. SaveOf(v, t, e, c, p, m, g, d)
      BY <2>4 DEF SaveOf
    <3>2. Accounted(g, d, m)
      <4>1. /\ u.units \in Seq(Seq(m)) /\ g \subseteq Asked(u.units)
            /\ Dispatched(u.units, m, u.lacks, u.failed)
        BY <1>2, <1>3, <1>4 DEF AtWork
      <4>2. u.failed \in Int /\ d = u.failed + CountFailed(u.units, g)
        BY <1>4, <2>3 DEF RunRecords
      <4> QED
        BY <4>1, <4>2, AnswersAccountFor
    <3> QED
      BY <1>4, <3>1, <3>2, SavesAsIs
  <2> QED
    BY <1>1, <1>2, <1>3, <1>4, <1>6, <1>7, <2>1, <2>2, <2>5, <2>6 DEF RunGoes
<1> QED
  BY <1>8, <1>9

LEMMA EditEffect ==
    ASSUME WorkInv, NEW r \in Runs, EditFile(r)
    PROVE  \E v \in RunRecords :
             /\ RunGoes(r, v) /\ RunsSound(v) /\ run[r].at = "edit" /\ v.at = "written"
             /\ v.table = run[r].table /\ v.into = run[r].into /\ v.content = run[r].content
             /\ v.merged = run[r].merged
<1>1. PICK u \in RunRecords : u = run[r] /\ RunsSound(u) /\ u.at = "edit"
  BY DEF WorkInv, RunsTyped, EditFile
<1>2. PICK s \in RunSteps : s = "written"
  BY DEF RunSteps
<1>3. PICK v : v = [u EXCEPT !.at = s]
  OBVIOUS
<1>4. run \in [Runs -> RunRecords]
  BY DEF WorkInv, RunsTyped
<1>5. run' = [run EXCEPT ![r] = v]
  BY <1>1, <1>2, <1>3, <1>4 DEF EditFile
<1>6. v \in RunRecords
  BY <1>3 DEF RunRecords
<1>7. /\ v.at = s /\ v.table = u.table /\ v.into = u.into /\ v.content = u.content /\ v.merged = u.merged
      /\ v.matched = u.matched /\ v.calls = u.calls /\ v.units = u.units /\ v.failed = u.failed
  BY <1>3 DEF RunRecords
<1>8. RunsSound(v)
  BY <1>1, <1>2, <1>7 DEF RunsSound
<1> QED
  BY <1>1, <1>2, <1>5, <1>6, <1>7, <1>8 DEF RunGoes

LEMMA RememberEffect ==
    ASSUME WorkInv, NEW r \in Runs, RememberSave(r)
    PROVE  \E v \in RunRecords :
             /\ RunGoes(r, v) /\ RunsSound(v) /\ run[r].at = "written" /\ v.at = "done"
             /\ run[r].into \in Owners /\ run[r].content \in Content
             /\ v.table = run[r].table /\ v.merged = run[r].merged
             /\ entry' = [entry EXCEPT ![run[r].into].last = run[r].content]
<1>1. PICK u \in RunRecords : u = run[r] /\ RunsSound(u) /\ u.at = "written"
  BY DEF WorkInv, RunsTyped, RememberSave
<1>2. u.into \in Owners /\ u.content \in Content /\ u.merged \subseteq u.matched
  BY <1>1 DEF RunsSound, RunRecords
<1>3. PICK t \in Tables, m \in SUBSET Rows, g \in SUBSET Rows, d \in Int :
        t = u.table /\ m = u.matched /\ g = u.merged /\ d = u.failed
  BY DEF RunRecords
<1>4. PICK v : v = [NoRun EXCEPT !.at = "done", !.table = t, !.matched = m, !.merged = g, !.failed = d]
  OBVIOUS
<1>5. run' = [run EXCEPT ![r] = v] /\ entry' = [entry EXCEPT ![u.into].last = u.content]
  BY <1>1, <1>3, <1>4 DEF RememberSave
<1>6. v \in RunRecords /\ RunsSound(v) /\ v.at = "done" /\ v.table = t /\ v.matched = m /\ v.merged = g
  <2>1. DoneWith(v, t, m, g, d) /\ g \subseteq m /\ Accounted(g, d, m)
    BY <1>1, <1>2, <1>3, <1>4 DEF DoneWith, RunsSound
  <2> QED
    BY <2>1, DoneAsIs
<1> QED
  BY <1>1, <1>2, <1>3, <1>5, <1>6 DEF RunGoes

LEMMA SessionEffect ==
    ASSUME WorkInv, NewSession, NEW r \in Runs
    PROVE  /\ run'[r] \in RunRecords /\ RunsSound(run'[r])
           /\ run[r].at \in {"idle", "done", "thrown"} => run'[r] = run[r]
           /\ run[r].at \notin {"idle", "done", "thrown"} =>
                run'[r].at = "thrown" /\ run'[r].table = run[r].table /\ run'[r].merged = {}
<1>1. PICK u \in RunRecords : u = run[r] /\ RunsSound(u)
  BY DEF WorkInv, RunsTyped
<1>2. CASE u.at \in {"idle", "done", "thrown"}
  BY <1>1, <1>2 DEF NewSession, Running
<1>3. CASE u.at \notin {"idle", "done", "thrown"}
  <2>1. PICK v : v = [NoRun EXCEPT !.at = "thrown", !.table = u.table]
    OBVIOUS
  <2>2. run'[r] = v
    BY <1>1, <1>3, <2>1 DEF NewSession, Running
  <2>3. PICK s \in RunSteps, t \in Tables : s = "thrown" /\ t = u.table
    BY DEF RunSteps, RunRecords
  <2>4. Bare(v, t, s)
    BY <2>1, <2>3 DEF Bare
  <2>5. v \in RunRecords /\ RunsSound(v) /\ v.table = t /\ v.at = s /\ v.merged = {}
    BY <2>3, <2>4, BareIsTyped
  <2> QED
    BY <1>1, <1>3, <2>2, <2>3, <2>5
<1> QED
  BY <1>1, <1>2, <1>3

-----------------------------------------------------------------------------
(* The steps of create() keep what the variables hold.                     *)
LEMMA OneCreateGoes ==
    ASSUME WorkInv, NEW t \in Tables, NEW c \in CreateRecords, CreateTo(t, c)
    PROVE  create' \in [Tables -> CreateRecords] /\ create'[t] = c /\ \A x \in Tables : x # t => create'[x] = create[x]
BY DEF WorkInv, TablesTyped, CreateTo

LEMMA NoCreateIsTyped == NoCreate \in CreateRecords /\ NoCreate.evict = <<>> /\ NoCreate.at = "idle"
<1>1. PICK e \in Seq(Tables) : e = <<>>
  BY NothingIsASeq, Zenon
<1>2. PICK f \in SwarmFiles : f = NoFile
  BY DEF SwarmFiles
<1>3. "idle" \in CreateSteps
  BY DEF CreateSteps
<1>4. PICK n : n = [at |-> "idle", evict |-> e, prev |-> f]
  OBVIOUS
<1>5. n \in CreateRecords /\ n.evict = e /\ n.at = "idle"
  BY <1>3, <1>4 DEF CreateRecords
<1>6. n = NoCreate
  BY <1>1, <1>2, <1>4 DEF NoCreate
<1> QED
  BY <1>1, <1>5, <1>6, Zenon

(* A create() at a step, with nothing or some tables to evict.             *)
At(c, a) == c = [NoCreate EXCEPT !.at = a]
AtWith(c, a, s) == c = [NoCreate EXCEPT !.at = a, !.evict = s]

LEMMA AtIs ==
    ASSUME NEW a \in CreateSteps, NEW c, At(c, a)
    PROVE  c \in CreateRecords /\ c.at = a /\ c.evict = <<>>
<1>1. PICK n \in CreateRecords : n = NoCreate
  BY NoCreateIsTyped
<1>2. c = [n EXCEPT !.at = a]
  BY <1>1 DEF At
<1>3. c \in CreateRecords /\ c.at = a /\ c.evict = n.evict
  BY <1>2 DEF CreateRecords
<1>4. n.evict = <<>>
  BY <1>1, NoCreateIsTyped, Zenon
<1> QED
  BY <1>3, <1>4, Zenon

LEMMA AtWithIs ==
    ASSUME NEW a \in CreateSteps, NEW s \in Seq(Tables), NEW c, AtWith(c, a, s)
    PROVE  c \in CreateRecords /\ c.at = a /\ c.evict = s
<1>1. PICK n \in CreateRecords : n = NoCreate
  BY NoCreateIsTyped
<1>2. c = [n EXCEPT !.at = a, !.evict = s]
  BY <1>1 DEF AtWith
<1> QED
  BY <1>2 DEF CreateRecords

(* The files sorted by number.                                             *)
LEMMA ListingsAre ==
    ASSUME WorkInv, NEW s \in Listings
    PROVE  \E n \in Nat :
             /\ n = Cardinality(Existing) /\ s \in [1..n -> Existing] /\ s \in Seq(Tables) /\ Len(s) = n
             /\ \A i, j \in 1..n : i # j => s[i] # s[j]
             /\ \A i, j \in 1..n : i < j => seq[s[i]] <= seq[s[j]]
<1>1. PICK E : E = Existing
  OBVIOUS
<1>2. E \subseteq Tables /\ IsFiniteSet(E) /\ Cardinality(E) \in Nat
  BY <1>1, SwarmAssumption, FS_Subset, FS_CardinalityType DEF Existing
<1>3. PICK n \in Nat : n = Cardinality(E)
  BY <1>2
<1>4. s \in [1..n -> E] /\ \A i, j \in 1..n : i # j => s[i] # s[j]
  BY <1>1, <1>3 DEF Listings, SetToSeqs
<1>5. Len(s) = n
  BY <1>4
<1>6. s \in [1..n -> Tables]
  BY <1>2, <1>4
<1>7. s \in Seq(Tables)
  BY <1>6, FunctionIsASeq
<1>8. \A i, j \in 1..n : i < j => seq[s[i]] <= seq[s[j]]
  BY <1>5 DEF Listings
<1> QED
  BY <1>1, <1>3, <1>4, <1>5, <1>7, <1>8

(* The number of a new file.                                               *)
LEMMA NextNumber ==
    ASSUME WorkInv, NEW n, n = Max({counter} \cup {seq[x] + 1 : x \in Existing})
    PROVE  n \in Nat /\ counter <= n /\ \A x \in Existing : seq[x] < n
<1>1. seq \in [Tables -> Nat] /\ counter \in Nat
  BY DEF WorkInv, TablesTyped
<1>2. PICK S : S = {seq[x] + 1 : x \in Existing}
  OBVIOUS
<1>3. Existing \subseteq Tables
  BY DEF Existing
<1>4. IsFiniteSet(S)
  <2>1. PICK E : E = Existing
    OBVIOUS
  <2>2. IsFiniteSet(E)
    BY <1>3, <2>1, SwarmAssumption, FS_Subset
  <2>3. PICK f : f = [x \in E |-> seq[x] + 1]
    OBVIOUS
  <2>4. f \in [E -> S] /\ \A y \in S : \E x \in E : f[x] = y
    BY <1>2, <2>1, <2>3
  <2>5. f \in Surjection(E, S)
    BY <2>4 DEF Surjection
  <2> QED
    BY <2>2, <2>5, FS_Surjection
<1>5. PICK T : T = {counter} \cup S
  OBVIOUS
<1>6. IsFiniteSet(T) /\ T # {} /\ T \subseteq Nat
  <2>1. IsFiniteSet(S \cup {counter})
    BY <1>4, FS_AddElement
  <2>2. T = S \cup {counter}
    BY <1>5
  <2> QED
    BY <1>1, <1>2, <1>3, <1>5, <2>1, <2>2
<1>7. n = Max(T)
  BY <1>2, <1>5
<1>8. Max(T) \in T /\ \A y \in T : Max(T) >= y
  <2>1. T \subseteq Int
    BY <1>6
  <2> QED
    BY <1>6, <2>1, Greatest
<1> QED
  BY <1>1, <1>2, <1>3, <1>5, <1>6, <1>7, <1>8

(* What each step of create() does to its record.                          *)
LEMMA BeginCreateEffect ==
    ASSUME NEW t, BeginCreate(t)
    PROVE  \E c \in CreateRecords :
             CreateTo(t, c) /\ c.at = "list" /\ c.evict = <<>> /\ create[t].at = "idle"
<1>1. PICK c : At(c, "list") /\ CreateTo(t, c)
  BY DEF BeginCreate, At
<1>2. PICK a \in CreateSteps : a = "list"
  BY DEF CreateSteps
<1>3. c \in CreateRecords /\ c.at = a /\ c.evict = <<>>
  BY <1>1, <1>2, AtIs
<1> QED
  BY <1>1, <1>2, <1>3 DEF BeginCreate

LEMMA ListEffect ==
    ASSUME WorkInv, NEW t \in Tables, ListForEviction(t)
    PROVE  /\ create[t].at = "list"
           /\ \E s \in Listings, c \in CreateRecords :
                /\ CreateTo(t, c) /\ c.evict = SubSeq(s, 1, Len(s) - MaxTables + 1)
                /\ c.at = IF c.evict = <<>> THEN "number" ELSE "evict"
<1>1. PICK s \in Listings :
         /\ create[t].at = "list"
         /\ CreateTo(t, [NoCreate EXCEPT !.at = IF SubSeq(s, 1, Len(s) - MaxTables + 1) = <<>>
                                            THEN "number" ELSE "evict",
                                         !.evict = SubSeq(s, 1, Len(s) - MaxTables + 1)])
  BY DEF ListForEviction
<1>2. PICK n \in Nat : s \in Seq(Tables) /\ Len(s) = n
  BY ListingsAre
<1>3. PICK k \in Int : k = n - MaxTables + 1 /\ k <= n
  <2>1. MaxTables \in Nat \ {0}
    BY SwarmAssumption, Zenon
  <2> QED
    BY <2>1
<1>4. PICK old \in Seq(Tables) : old = SubSeq(s, 1, k)
  <2>1. \A i \in 1..k : i \in 1..Len(s)
    BY <1>2, <1>3
  <2>2. PICK x \in Seq(Tables) : x = s
    BY <1>2
  <2>3. SubSeq(x, 1, k) \in Seq(Tables)
    BY <1>3, <2>1, <2>2, SubSeqProperties
  <2> QED
    BY <2>2, <2>3
<1>5. PICK a \in CreateSteps : a = IF old = <<>> THEN "number" ELSE "evict"
  BY DEF CreateSteps
<1>6. PICK c : c = [NoCreate EXCEPT !.at = a, !.evict = old]
  OBVIOUS
<1>7. CreateTo(t, c)
  BY <1>1, <1>2, <1>3, <1>4, <1>5, <1>6
<1>8. c \in CreateRecords /\ c.at = a /\ c.evict = old
  <2>1. AtWith(c, a, old)
    BY <1>6 DEF AtWith
  <2> QED
    BY <2>1, AtWithIs
<1> QED
  BY <1>1, <1>2, <1>3, <1>4, <1>5, <1>7, <1>8

LEMMA ForgetEffect ==
    ASSUME WorkInv, NEW t \in Tables, ForgetTable(t)
    PROVE  \E e \in Tables, c \in CreateRecords :
             /\ e = Head(create[t].evict) /\ create[t].at = "evict"
             /\ CreateTo(t, c) /\ c.at = "empty" /\ c.evict = create[t].evict
             /\ c.prev = NoFile \/ cache[e] # Nobody
             /\ cache' = [cache EXCEPT ![e] = Nobody]
             /\ overlapped' = IF \E r \in Runs : Running(r) /\ run[r].table = e THEN overlapped \cup {e} ELSE overlapped
<1>1. create \in [Tables -> CreateRecords] /\ cache \in [Tables -> Owners \cup {Nobody}]
      /\ entry \in [Owners -> [rows : Owners, last : Content]]
  BY DEF WorkInv, TablesTyped
<1>2. PICK d \in CreateRecords : d = create[t]
  BY <1>1
<1>3. PICK e \in Tables : e = Head(d.evict)
  <2>1. d.evict \in Seq(Tables) /\ d.evict # <<>>
    BY <1>2 DEF CreateRecords, WorkInv, ForgetTable
  <2> QED
    BY <2>1, HeadTailProperties
<1>4. PICK p \in SwarmFiles : p = (IF cache[e] = Nobody THEN NoFile ELSE Holding(entry[cache[e]].last))
  <2>1. CASE cache[e] = Nobody
    BY <2>1 DEF SwarmFiles
  <2>2. CASE cache[e] # Nobody
    <3>1. PICK o \in Owners : o = cache[e]
      BY <1>1, <2>2
    <3>2. entry[o].last \in Content
      BY <1>1
    <3> QED
      BY <2>2, <3>1, <3>2 DEF SwarmFiles
  <2> QED
    BY <2>1, <2>2
<1>5. PICK a \in CreateSteps : a = "empty"
  BY DEF CreateSteps
<1>6. PICK c : c = [d EXCEPT !.at = a, !.prev = p]
  OBVIOUS
<1>7. CreateTo(t, c)
  BY <1>2, <1>3, <1>4, <1>5, <1>6 DEF ForgetTable
<1>8. c \in CreateRecords /\ c.at = a /\ c.evict = d.evict /\ c.prev = p
  BY <1>6 DEF CreateRecords
<1>9. /\ create[t].at = "evict" /\ cache' = [cache EXCEPT ![e] = Nobody]
      /\ overlapped' = IF \E r \in Runs : Running(r) /\ run[r].table = e THEN overlapped \cup {e} ELSE overlapped
  BY <1>2, <1>3 DEF ForgetTable
<1> QED
  BY <1>2, <1>3, <1>4, <1>5, <1>7, <1>8, <1>9

LEMMA EmptyEffect ==
    ASSUME WorkInv, NEW t \in Tables, EmptyFile(t)
    PROVE  \E e \in Tables, c \in CreateRecords :
             /\ e = Head(create[t].evict) /\ create[t].at = "empty"
             /\ CreateTo(t, c) /\ c.evict = Tail(create[t].evict)
             /\ c.at = IF c.evict = <<>> THEN "number" ELSE "evict"
             /\ file' = IF file[e] = create[t].prev THEN [file EXCEPT ![e] = Emptied] ELSE file
<1>1. PICK d \in CreateRecords : d = create[t]
  BY DEF WorkInv, TablesTyped
<1>2. d.evict \in Seq(Tables) /\ d.evict # <<>>
  BY <1>1 DEF CreateRecords, WorkInv, EmptyFile
<1>3. PICK e \in Tables, s \in Seq(Tables) : e = Head(d.evict) /\ s = Tail(d.evict)
  BY <1>2, HeadTailProperties
<1>4. PICK a \in CreateSteps : a = IF s = <<>> THEN "number" ELSE "evict"
  BY DEF CreateSteps
<1>5. PICK c : c = [NoCreate EXCEPT !.at = a, !.evict = s]
  OBVIOUS
<1>6. /\ CreateTo(t, c) /\ create[t].at = "empty"
      /\ file' = IF file[e] = d.prev THEN [file EXCEPT ![e] = Emptied] ELSE file
  BY <1>1, <1>3, <1>4, <1>5 DEF EmptyFile
<1>7. c \in CreateRecords /\ c.at = a /\ c.evict = s
  <2>1. AtWith(c, a, s)
    BY <1>5 DEF AtWith
  <2> QED
    BY <2>1, AtWithIs
<1> QED
  BY <1>1, <1>3, <1>4, <1>6, <1>7

LEMMA NumberEffect ==
    ASSUME WorkInv, NEW t \in Tables, Number(t)
    PROVE  \E n \in Nat, c \in CreateRecords :
             /\ create[t].at = "number" /\ CreateTo(t, c) /\ c.at = "write" /\ c.evict = <<>>
             /\ counter <= n /\ (\A x \in Existing : seq[x] < n)
             /\ seq' = [seq EXCEPT ![t] = n] /\ counter' = n + 1 /\ born' = Append(born, t)
<1>1. PICK n : n = Max({counter} \cup {seq[x] + 1 : x \in Existing})
  OBVIOUS
<1>2. n \in Nat /\ counter <= n /\ \A x \in Existing : seq[x] < n
  BY <1>1, NextNumber
<1>3. PICK a \in CreateSteps : a = "write"
  BY DEF CreateSteps
<1>4. PICK c : At(c, a) /\ CreateTo(t, c)
  BY <1>3 DEF Number, At
<1>5. c \in CreateRecords /\ c.at = a /\ c.evict = <<>>
  BY <1>4, AtIs
<1> QED
  BY <1>1, <1>2, <1>3, <1>4, <1>5 DEF Number

LEMMA WriteEffect ==
    ASSUME NEW t, WriteFile(t)
    PROVE  \E c \in CreateRecords :
             /\ create[t].at = "write" /\ CreateTo(t, c) /\ c.at = "remember" /\ c.evict = <<>>
             /\ file' = [file EXCEPT ![t] = Holding(Fresh)]
<1>1. PICK a \in CreateSteps : a = "remember"
  BY DEF CreateSteps
<1>2. PICK c : At(c, a) /\ CreateTo(t, c)
  BY <1>1 DEF WriteFile, At
<1>3. c \in CreateRecords /\ c.at = a /\ c.evict = <<>>
  BY <1>2, AtIs
<1> QED
  BY <1>1, <1>2, <1>3 DEF WriteFile

LEMMA TableRememberedEffect ==
    ASSUME NEW t, Remember(t)
    PROVE  \E c \in CreateRecords :
             /\ create[t].at = "remember" /\ CreateTo(t, c) /\ c.at = "done" /\ c.evict = <<>>
             /\ cache' = [cache EXCEPT ![t] = t]
<1>1. PICK a \in CreateSteps : a = "done"
  BY DEF CreateSteps
<1>2. PICK c : At(c, a) /\ CreateTo(t, c)
  BY <1>1 DEF Remember, At
<1>3. c \in CreateRecords /\ c.at = a /\ c.evict = <<>>
  BY <1>2, AtIs
<1> QED
  BY <1>1, <1>2, <1>3 DEF Remember

LEMMA WorkInit == Init => WorkInv
<1> SUFFICES ASSUME Init PROVE WorkInv
  OBVIOUS
<1>1. PICK f \in SwarmFiles : f = NoFile
  BY DEF SwarmFiles
<1>2. PICK a \in Content : a = Fresh
  BY FreshIsContent
<1>3. PICK c \in CreateRecords : c = NoCreate /\ c.at = "idle"
  BY NoCreateIsTyped
<1>4. file \in [Tables -> SwarmFiles] /\ create = [t \in Tables |-> c]
  BY <1>1, <1>3 DEF Init
<1>5. array \in [Owners -> Content] /\ entry \in [Owners -> [rows : Owners, last : Content]]
  BY <1>2 DEF Init
<1>6. born \in Seq(Tables)
  <2>1. PICK s \in Seq(Tables) : s = <<>>
    BY NothingIsASeq, Zenon
  <2> QED
    BY <2>1 DEF Init
<1>7. TablesTyped
  BY <1>4, <1>5, <1>6 DEF Init, TablesTyped
<1>8. PICK v \in RunRecords : v = NoRun /\ RunsSound(v)
  <2>1. PICK t \in Tables : t = CHOOSE x \in Tables : TRUE
    BY SwarmAssumption
  <2>2. PICK s \in RunSteps : s = "idle"
    BY DEF RunSteps
  <2>3. NoRun.at = "idle" /\ NoRun.table = t
    BY <2>1 DEF NoRun
  <2>4. NoRun = [NoRun EXCEPT !.at = s, !.table = t]
    BY <2>2, <2>3 DEF NoRun
  <2>5. PICK v : v = NoRun
    OBVIOUS
  <2>6. Bare(v, t, s)
    BY <2>4, <2>5 DEF Bare
  <2>7. v \in RunRecords /\ RunsSound(v)
    BY <2>2, <2>6, BareIsTyped
  <2> QED
    BY <2>5, <2>7
<1>9. run = [r \in Runs |-> v]
  BY <1>8 DEF Init
<1>10. RunsTyped /\ \A r \in Runs : RunsSound(run[r])
  BY <1>8, <1>9 DEF RunsTyped
<1> QED
  BY <1>3, <1>4, <1>7, <1>10 DEF WorkInv

-----------------------------------------------------------------------------
(* What the steps of create() and of run() leave alone.                    *)
LEMMA CreatesKeep ==
    ASSUME WorkInv, NEW c \in CreateRecords, NEW t \in Tables, CreateTo(t, c), KeepRuns,
           c.at \in {"evict", "empty"} => c.evict # <<>>,
           file' \in [Tables -> SwarmFiles], seq' \in [Tables -> Nat], born' \in Seq(Tables),
           counter' \in Nat, cache' \in [Tables -> Owners \cup {Nobody}], entry' = entry,
           overlapped' \subseteq Tables
    PROVE  WorkInv'
<1>1. create' \in [Tables -> CreateRecords] /\ create'[t] = c /\ \A x \in Tables : x # t => create'[x] = create[x]
  BY OneCreateGoes
<1>2. run' = run /\ array' = array /\ session' = session
  BY DEF KeepRuns
<1>3. TablesTyped'
  BY <1>1, <1>2 DEF TablesTyped, WorkInv
<1>4. RunsTyped' /\ \A r \in Runs : RunsSound(run'[r])
  BY <1>2 DEF RunsTyped, WorkInv
<1>5. \A x \in Tables : create'[x].at \in {"evict", "empty"} => create'[x].evict # <<>>
  BY <1>1 DEF WorkInv
<1> QED
  BY <1>3, <1>4, <1>5 DEF WorkInv

LEMMA RunsKeep ==
    ASSUME WorkInv, NEW r \in Runs, NEW v \in RunRecords, RunsSound(v), RunGoes(r, v),
           UNCHANGED <<seq, born, counter, create, session>>,
           file' \in [Tables -> SwarmFiles], cache' \in [Tables -> Owners \cup {Nobody}],
           array' \in [Owners -> Content], entry' \in [Owners -> [rows : Owners, last : Content]],
           overlapped' \subseteq Tables
    PROVE  WorkInv'
<1>1. run' \in [Runs -> RunRecords] /\ \A q \in Runs : RunsSound(run'[q])
  BY OneRunGoes
<1>2. TablesTyped'
  BY DEF TablesTyped, WorkInv
<1> QED
  BY <1>1, <1>2 DEF RunsTyped, WorkInv

LEMMA WorkCreates ==
    ASSUME WorkInv, NEW t \in Tables, BeginCreate(t) \/ CreateStep(t)
    PROVE  WorkInv'
<1>1. /\ file \in [Tables -> SwarmFiles] /\ seq \in [Tables -> Nat] /\ born \in Seq(Tables) /\ counter \in Nat
      /\ cache \in [Tables -> Owners \cup {Nobody}] /\ create \in [Tables -> CreateRecords]
      /\ overlapped \subseteq Tables
  BY DEF WorkInv, TablesTyped
<1>2. CASE BeginCreate(t)
  <2>1. PICK c \in CreateRecords : CreateTo(t, c) /\ c.at = "list"
    BY <1>2, BeginCreateEffect
  <2> QED
    BY <1>1, <1>2, <2>1, CreatesKeep DEF BeginCreate
<1>3. CASE ListForEviction(t)
  <2>1. PICK s, c \in CreateRecords : CreateTo(t, c) /\ c.at = IF c.evict = <<>> THEN "number" ELSE "evict"
    BY <1>3, ListEffect
  <2> QED
    BY <1>1, <1>3, <2>1, CreatesKeep DEF ListForEviction
<1>4. CASE ForgetTable(t)
  <2>1. PICK e \in Tables, c \in CreateRecords :
           /\ CreateTo(t, c) /\ create[t].at = "evict" /\ c.evict = create[t].evict
           /\ cache' = [cache EXCEPT ![e] = Nobody]
           /\ overlapped' \subseteq overlapped \cup {e}
    BY <1>4, ForgetEffect
  <2>2. c.evict # <<>>
    BY <2>1 DEF WorkInv
  <2> QED
    <3>1. /\ file' = file /\ seq' = seq /\ born' = born /\ counter' = counter /\ entry' = entry
          /\ KeepRuns
      BY <1>4 DEF ForgetTable
    <3>2. cache' \in [Tables -> Owners \cup {Nobody}] /\ overlapped' \subseteq Tables
      BY <1>1, <2>1
    <3> QED
      BY <1>1, <2>1, <2>2, <3>1, <3>2, CreatesKeep
<1>5. CASE EmptyFile(t)
  <2>1. PICK e \in Tables, c \in CreateRecords :
           /\ CreateTo(t, c) /\ c.at = (IF c.evict = <<>> THEN "number" ELSE "evict")
           /\ file' = file \/ file' = [file EXCEPT ![e] = Emptied]
    BY <1>5, EmptyEffect
  <2>2. file' \in [Tables -> SwarmFiles]
    BY <1>1, <2>1 DEF SwarmFiles
  <2> QED
    BY <1>1, <1>5, <2>1, <2>2, CreatesKeep DEF EmptyFile
<1>6. CASE Number(t)
  <2>1. PICK n \in Nat, c \in CreateRecords :
           /\ CreateTo(t, c) /\ c.at = "write"
           /\ seq' = [seq EXCEPT ![t] = n] /\ counter' = n + 1 /\ born' = Append(born, t)
    BY <1>6, NumberEffect
  <2>2. born' \in Seq(Tables)
    BY <1>1, <2>1, AppendProperties
  <2> QED
    <3>1. UNCHANGED <<file, cache, entry, overlapped>> /\ KeepRuns
      BY <1>6 DEF Number
    <3>2. counter' \in Nat /\ seq' \in [Tables -> Nat]
      BY <1>1, <2>1
    <3> QED
      BY <1>1, <2>1, <2>2, <3>1, <3>2, CreatesKeep
<1>7. CASE WriteFile(t)
  <2>1. PICK c \in CreateRecords :
           CreateTo(t, c) /\ c.at = "remember" /\ file' = [file EXCEPT ![t] = Holding(Fresh)]
    BY <1>7, WriteEffect
  <2>2. Holding(Fresh) \in SwarmFiles
    BY FreshIsContent DEF SwarmFiles
  <2>3. file' \in [Tables -> SwarmFiles]
    BY <1>1, <2>1, <2>2
  <2> QED
    BY <1>1, <1>7, <2>1, <2>3, CreatesKeep DEF WriteFile
<1>8. CASE Remember(t)
  <2>1. PICK c \in CreateRecords : CreateTo(t, c) /\ c.at = "done" /\ cache' = [cache EXCEPT ![t] = t]
    BY <1>8, TableRememberedEffect
  <2>2. t \in Owners
    BY DEF Owners
  <2>3. cache' \in [Tables -> Owners \cup {Nobody}]
    BY <1>1, <2>1, <2>2
  <2> QED
    BY <1>1, <1>8, <2>1, <2>3, CreatesKeep DEF Remember
<1> QED
  BY <1>2, <1>3, <1>4, <1>5, <1>6, <1>7, <1>8 DEF CreateStep

LEMMA WorkRuns ==
    ASSUME WorkInv, NEW r \in Runs,
           \/ RunStep(r)
           \/ \E t \in Tables : RunBegins(r, t)
    PROVE  WorkInv'
<1>1. /\ file \in [Tables -> SwarmFiles] /\ cache \in [Tables -> Owners \cup {Nobody}]
      /\ array \in [Owners -> Content] /\ entry \in [Owners -> [rows : Owners, last : Content]]
      /\ overlapped \subseteq Tables
  BY DEF WorkInv, TablesTyped
<1>2. PICK u \in RunRecords : u = run[r]
  BY DEF WorkInv, RunsTyped
<1>3. u.table \in Tables /\ u.read \in Content /\ r \in Owners
  BY DEF RunRecords, Owners
<1>4. CASE \E t \in Tables : RunBegins(r, t)
  <2>1. PICK t \in Tables : RunBegins(r, t)
    BY <1>4
  <2>2. PICK v \in RunRecords : RunGoes(r, v) /\ RunsSound(v)
    BY <2>1, BeginEffect
  <2>3. UNCHANGED <<file, seq, born, counter, create, session, cache, array, entry>>
        /\ overlapped' \subseteq overlapped \cup {t}
    BY <2>1 DEF RunBegins, BeginRun, KeepTables
  <2> QED
    BY <1>1, <2>2, <2>3, RunsKeep
<1>5. CASE ReadTable(r)
  <2>1. PICK v \in RunRecords : RunGoes(r, v) /\ RunsSound(v)
    BY <1>5, ReadEffect
  <2>2. UNCHANGED <<file, seq, born, counter, create, session, cache, array, entry, overlapped>>
    BY <1>5 DEF ReadTable, KeepTables
  <2> QED
    BY <1>1, <2>1, <2>2, RunsKeep
<1>6. CASE Populate(r)
  <2>1. PICK v \in RunRecords : RunGoes(r, v) /\ RunsSound(v)
    BY <1>6, PopulateEffect
  <2>2. /\ UNCHANGED <<file, seq, born, counter, create, session, overlapped>>
        /\ array' = [array EXCEPT ![r] = u.read] /\ entry' = [entry EXCEPT ![r] = [rows |-> r, last |-> u.read]]
        /\ cache' = [cache EXCEPT ![u.table] = r]
    BY <1>2, <1>6 DEF Populate, KeepTables
  <2>3. /\ array' \in [Owners -> Content] /\ entry' \in [Owners -> [rows : Owners, last : Content]]
        /\ cache' \in [Tables -> Owners \cup {Nobody}]
    BY <1>1, <1>3, <2>2
  <2> QED
    BY <1>1, <2>1, <2>2, <2>3, RunsKeep
<1>7. CASE MergeAndSave(r)
  <2>1. PICK c \in Content, v \in RunRecords, o \in Owners :
          /\ RunGoes(r, v) /\ RunsSound(v) /\ array' = [array EXCEPT ![o] = c]
          /\ entry' = entry \/ entry' = [entry EXCEPT ![v.into].rows = o]
    <3>1. PICK o \in Owners : o = run[r].of
      BY <1>7, MergeEffect
    <3>2. PICK c \in Content, v \in RunRecords :
            /\ RunGoes(r, v) /\ RunsSound(v) /\ array' = [array EXCEPT ![run[r].of] = c]
            /\ entry' = entry \/ entry' = [entry EXCEPT ![v.into].rows = run[r].of]
      BY <1>7, MergeEffect
    <3> QED
      BY <3>1, <3>2
  <2>2. array' \in [Owners -> Content] /\ entry' \in [Owners -> [rows : Owners, last : Content]]
    BY <1>1, <2>1
  <2>3. UNCHANGED <<file, seq, born, counter, create, session, cache, overlapped>>
    BY <1>7 DEF MergeAndSave, KeepTables
  <2> QED
    BY <1>1, <2>1, <2>2, <2>3, RunsKeep
<1>8. CASE EditFile(r)
  <2>1. PICK v \in RunRecords : RunGoes(r, v) /\ RunsSound(v)
    BY <1>8, EditEffect
  <2>2. UNCHANGED <<seq, born, counter, create, session, cache, array, entry, overlapped>>
        /\ file' = IF file[u.table] = Holding(u.prev) THEN [file EXCEPT ![u.table] = Holding(u.content)] ELSE file
    BY <1>2, <1>8 DEF EditFile
  <2>3. Holding(u.content) \in SwarmFiles
    BY DEF RunRecords, SwarmFiles
  <2>4. file' \in [Tables -> SwarmFiles]
    BY <1>1, <2>2, <2>3
  <2> QED
    BY <1>1, <2>1, <2>2, <2>4, RunsKeep
<1>9. CASE RememberSave(r)
  <2>1. PICK v \in RunRecords :
          /\ RunGoes(r, v) /\ RunsSound(v) /\ u.into \in Owners /\ u.content \in Content
          /\ entry' = [entry EXCEPT ![u.into].last = u.content]
    BY <1>2, <1>9, RememberEffect
  <2>2. entry' \in [Owners -> [rows : Owners, last : Content]]
    BY <1>1, <2>1
  <2>3. UNCHANGED <<file, seq, born, counter, create, session, cache, array, overlapped>>
    BY <1>9 DEF RememberSave, KeepTables
  <2> QED
    BY <1>1, <2>1, <2>2, <2>3, RunsKeep
<1>10. CASE \E k \in run[r].calls : \E ans \in AnswersTo(run[r].units[k], Rows) : Answer(r, k, ans)
  <2>1. PICK k \in run[r].calls : \E ans \in AnswersTo(run[r].units[k], Rows) : Answer(r, k, ans)
    BY <1>10
  <2>4. PICK ans \in AnswersTo(run[r].units[k], Rows) : Answer(r, k, ans)
    BY <2>1
  <2>2. PICK v \in RunRecords : RunGoes(r, v) /\ RunsSound(v)
    BY <2>4, AnswerEffect
  <2>3. UNCHANGED <<file, seq, born, counter, create, session, cache, array, entry, overlapped>>
    BY <2>4 DEF Answer, KeepTables
  <2> QED
    BY <1>1, <2>2, <2>3, RunsKeep
<1> QED
  BY <1>4, <1>5, <1>6, <1>7, <1>8, <1>9, <1>10 DEF RunStep

LEMMA WorkSession ==
    ASSUME WorkInv, NewSession
    PROVE  WorkInv'
<1>1. /\ file' = file /\ seq' = seq /\ born' = born /\ overlapped' = overlapped
      /\ session' = session + 1 /\ counter' = 0 /\ cache' = [t \in Tables |-> Nobody]
      /\ array' = [o \in Owners |-> Fresh] /\ entry' = [o \in Owners |-> [rows |-> o, last |-> Fresh]]
  BY DEF NewSession
<1>2. PICK c : At(c, "lost")
  BY DEF At
<1>3. PICK a \in CreateSteps : a = "lost"
  BY DEF CreateSteps
<1>4. c \in CreateRecords /\ c.at = "lost"
  BY <1>2, <1>3, AtIs
<1>5. create' = [t \in Tables |-> IF create[t].at \in {"idle", "done"} THEN create[t] ELSE c]
  BY <1>2 DEF NewSession, At
<1>6. create \in [Tables -> CreateRecords]
  BY DEF WorkInv, TablesTyped
<1>7. /\ create' \in [Tables -> CreateRecords]
      /\ \A t \in Tables : create'[t].at \notin {"evict", "empty"}
  BY <1>4, <1>5, <1>6
<1>8. PICK f \in Content : f = Fresh
  BY FreshIsContent
<1>9. array' \in [Owners -> Content] /\ entry' \in [Owners -> [rows : Owners, last : Content]]
      /\ cache' \in [Tables -> Owners \cup {Nobody}]
  BY <1>1, <1>8
<1>10. TablesTyped'
  BY <1>1, <1>7, <1>9 DEF WorkInv, TablesTyped
<1>11. \A r \in Runs : run'[r] \in RunRecords /\ RunsSound(run'[r])
  BY SessionEffect
<1>12. RunsTyped'
  <2>1. PICK g : g = run'
    OBVIOUS
  <2>2. g = [r \in Runs |-> g[r]]
    BY <2>1 DEF NewSession
  <2> QED
    BY <1>11, <2>1, <2>2 DEF RunsTyped
<1> QED
  BY <1>7, <1>10, <1>11, <1>12 DEF WorkInv

LEMMA WorkStays == WorkInv /\ [Next]_vars => WorkInv'
<1> SUFFICES ASSUME WorkInv, [Next]_vars PROVE WorkInv'
  OBVIOUS
<1>1. CASE UNCHANGED vars
  BY <1>1 DEF vars, WorkInv, TablesTyped, RunsTyped
<1>2. CASE \E t \in Tables : BeginCreate(t) \/ CreateStep(t)
  BY <1>2, WorkCreates
<1>3. CASE \E r \in Runs : RunStep(r) \/ \E t \in Tables : RunBegins(r, t)
  BY <1>3, WorkRuns
<1>4. CASE NewSession
  BY <1>4, WorkSession
<1> QED
  BY <1>1, <1>2, <1>3, <1>4, Zenon DEF Next, RunBegins

-----------------------------------------------------------------------------
(* The order of the tables.                                                *)
BeforeNumber == {"idle", "list", "evict", "empty", "number"}
TableLive(t) == file[t] # NoFile \/ create[t].at = "write"
YoungerThan(k) == {i \in (k + 1)..Len(born) : file[born[i]] # NoFile}
OldTable(e) == \E k \in 1..Len(born) : born[k] = e /\ Cardinality(YoungerThan(k)) >= MaxTables - 1

InLine(c, e) == \E k \in 1..Len(create[c].evict) : create[c].evict[k] = e

TablesNumbered ==
    /\ \A i, j \in 1..Len(born) : i # j => born[i] # born[j]
    /\ \A i \in 1..Len(born) : create[born[i]].at \notin BeforeNumber
    /\ \A t \in Tables : TableLive(t) => \E i \in 1..Len(born) : born[i] = t
    /\ \A i, j \in 1..Len(born) : i < j /\ TableLive(born[i]) /\ TableLive(born[j]) => seq[born[i]] < seq[born[j]]
    /\ \A t \in Tables : create[t].at = "write" => seq[t] < counter
TablesWritten ==
    \A t \in Tables :
      /\ create[t].at \in BeforeNumber \cup {"write"} => file[t] = NoFile
      /\ create[t].at \in {"remember", "done"} => file[t] # NoFile
TablesEvicted ==
    \A c, e \in Tables : InLine(c, e) => file[e] # NoFile /\ OldTable(e)
TablesInv == WorkInv /\ TablesNumbered /\ TablesWritten /\ TablesEvicted

FilesStay == \A x \in Tables : file[x] # NoFile => file'[x] # NoFile

LEMMA OldStays ==
    ASSUME WorkInv, FilesStay, born' = born \/ \E t \in Tables : born' = Append(born, t), NEW e, OldTable(e)
    PROVE  OldTable(e)'
<1>1. PICK n \in Nat, m \in Nat :
         /\ n = Len(born) /\ m = Len(born') /\ n <= m
         /\ \A i \in 1..n : born'[i] = born[i] /\ born[i] \in Tables
  <2>1. born \in Seq(Tables)
    BY DEF WorkInv, TablesTyped
  <2>2. PICK n \in Nat : n = Len(born) /\ \A i \in 1..n : born[i] \in Tables
    <3>1. PICK n \in Nat : n = Len(born)
      BY <2>1, LenProperties
    <3>2. \A i \in 1..n : born[i] \in Tables
      BY <2>1, <3>1, ElementOfSeq
    <3> QED
      BY <3>1, <3>2
  <2>3. CASE born' = born
    BY ONLY <2>2, <2>3
  <2>4. CASE \E t \in Tables : born' = Append(born, t)
    <3>1. PICK t \in Tables : born' = Append(born, t)
      BY <2>4
    <3>2. Len(born') = n + 1 /\ \A i \in 1..n : born'[i] = born[i]
      BY <2>1, <2>2, <3>1, AppendProperties
    <3> QED
      BY <2>2, <3>2
  <2> QED
    BY <2>3, <2>4
<1>2. PICK k \in 1..n : born[k] = e /\ Cardinality(YoungerThan(k)) >= MaxTables - 1
  BY <1>1 DEF OldTable
<1>3. PICK S, T : /\ S = {i \in (k + 1)..n : file[born[i]] # NoFile}
                  /\ T = {i \in (k + 1)..m : file'[born'[i]] # NoFile}
  OBVIOUS
<1>4. S \subseteq T
  BY <1>1, <1>3 DEF FilesStay
<1>5. IsFiniteSet(T)
  <2>1. IsFiniteSet((k + 1)..m)
    BY FS_Interval
  <2> QED
    BY <1>3, <2>1, FS_Subset
<1>6. Cardinality(S) <= Cardinality(T) /\ Cardinality(S) \in Nat /\ Cardinality(T) \in Nat
  BY <1>4, <1>5, FS_Subset, FS_CardinalityType
<1>7. Cardinality(S) >= MaxTables - 1 /\ MaxTables \in Nat
  BY <1>1, <1>2, <1>3, SwarmAssumption DEF YoungerThan
<1>8. Cardinality(T) >= MaxTables - 1
  BY <1>6, <1>7
<1>9. T = YoungerThan(k)'
  BY <1>1, <1>3 DEF YoungerThan
<1>10. k \in 1..Len(born') /\ born'[k] = e
  BY <1>1, <1>2
<1> QED
  BY <1>8, <1>9, <1>10 DEF OldTable

(* A step that gives no number.                                            *)
LEMMA NumbersStay ==
    ASSUME TablesInv, UNCHANGED <<seq, born>>, \A t \in Tables : TableLive(t)' => TableLive(t),
           \A t \in Tables : create'[t].at \in BeforeNumber => create[t].at \in BeforeNumber,
           \A t \in Tables : create'[t].at = "write" => create[t].at = "write" /\ counter' = counter
    PROVE  TablesNumbered'
<1>2. PICK n \in Nat : n = Len(born) /\ \A i \in 1..n : born[i] \in Tables
  <2>1. born \in Seq(Tables)
    BY DEF TablesInv, WorkInv, TablesTyped
  <2> QED
    BY <2>1, LenProperties, ElementOfSeq
<1> QED
  BY <1>2 DEF TablesInv, TablesNumbered

(* The tables in line for eviction are old, and get older.                 *)
LEMMA EvictedStay ==
    ASSUME TablesInv, FilesStay, born' = born \/ \E t \in Tables : born' = Append(born, t),
           \A c, e \in Tables : InLine(c, e)' => InLine(c, e) \/ (file[e] # NoFile /\ OldTable(e))
    PROVE  TablesEvicted'
<1> SUFFICES ASSUME NEW c \in Tables, NEW e \in Tables, InLine(c, e)'
             PROVE  file'[e] # NoFile /\ OldTable(e)'
  BY DEF TablesEvicted
<1>1. file[e] # NoFile /\ OldTable(e)
  BY DEF TablesInv, TablesEvicted
<1>2. OldTable(e)'
  BY <1>1, OldStays DEF TablesInv
<1> QED
  BY <1>1, <1>2 DEF FilesStay

(* A step that changes no number and makes no file.                        *)
LEMMA OrderOfOthers ==
    ASSUME TablesInv, UNCHANGED <<seq, born, counter, create>>, WorkInv',
           \A t \in Tables : file'[t] # NoFile <=> file[t] # NoFile
    PROVE  TablesInv'
<1>1. FilesStay
  BY DEF FilesStay
<1>2. TablesNumbered'
  BY NumbersStay DEF TableLive
<1>3. TablesWritten'
  BY DEF TablesInv, TablesWritten
<1>4. TablesEvicted'
  BY <1>1, EvictedStay DEF InLine
<1> QED
  BY <1>2, <1>3, <1>4 DEF TablesInv

(* The oldest of the files in the order of their numbers are old.          *)
LEMMA TheOldestAreOld ==
    ASSUME TablesInv, NEW s \in Listings, NEW k \in 1..Len(s), k <= Len(s) - MaxTables + 1
    PROVE  file[s[k]] # NoFile /\ OldTable(s[k])
<1>1. PICK n \in Nat :
         /\ s \in [1..n -> Existing] /\ Len(s) = n
         /\ \A i, j \in 1..n : i # j => s[i] # s[j]
         /\ \A i, j \in 1..n : i < j => seq[s[i]] <= seq[s[j]]
  BY ListingsAre DEF TablesInv
<1>2. PICK m \in Nat : m = Len(born) /\ \A i \in 1..m : born[i] \in Tables
  <2>1. born \in Seq(Tables)
    BY DEF TablesInv, WorkInv, TablesTyped
  <2> QED
    BY <2>1, LenProperties, ElementOfSeq
<1>3. \A i \in 1..n : s[i] \in Tables /\ file[s[i]] # NoFile
  BY <1>1 DEF Existing
<1>4. \A i \in 1..n : \E b \in 1..m : born[b] = s[i]
  BY <1>2, <1>3 DEF TablesInv, TablesNumbered, TableLive
<1>5. PICK place \in [1..n -> 1..m] : \A i \in 1..n : born[place[i]] = s[i]
  <2>1. PICK p : p = [i \in 1..n |-> CHOOSE b \in 1..m : born[b] = s[i]]
    OBVIOUS
  <2>2. \A i \in 1..n : p[i] \in 1..m /\ born[p[i]] = s[i]
    BY <1>4, <2>1
  <2>3. p \in [1..n -> 1..m]
    BY <2>1, <2>2
  <2> QED
    BY <2>2, <2>3
<1>6. seq \in [Tables -> Nat]
  BY DEF TablesInv, WorkInv, TablesTyped
<1>7. ASSUME NEW i \in 1..n, NEW j \in 1..n, i < j PROVE place[i] < place[j]
  <2>1. PICK a \in 1..m, b \in 1..m : a = place[i] /\ b = place[j] /\ born[a] = s[i] /\ born[b] = s[j]
    BY <1>5
  <2>2. a # b
    BY <1>1, <1>7, <2>1
  <2>3. TableLive(born[a]) /\ TableLive(born[b])
    BY <1>3, <2>1 DEF TableLive
  <2>4. b < a => seq[born[b]] < seq[born[a]]
    BY <1>2, <2>3 DEF TablesInv, TablesNumbered
  <2>5. seq[s[i]] <= seq[s[j]] /\ seq[s[i]] \in Nat /\ seq[s[j]] \in Nat
    BY <1>1, <1>3, <1>6, <1>7
  <2>6. seq[born[b]] = seq[s[j]] /\ seq[born[a]] = seq[s[i]]
    BY <2>1, Zenon
  <2>7. ~(b < a)
    BY <2>4, <2>5, <2>6, SMTT(30)
  <2> QED
    BY <2>1, <2>2, <2>7
<1>8. PICK Y : Y = YoungerThan(place[k])
  OBVIOUS
<1>9. k \in 1..n
  BY <1>1
<1>10. IsFiniteSet(Y)
  <2>1. PICK a \in Nat : a = place[k] + 1
    BY <1>5, <1>9
  <2>2. IsFiniteSet(a..m)
    BY <1>2, FS_Interval
  <2>3. Y \subseteq a..m
    BY <1>2, <1>8, <2>1 DEF YoungerThan
  <2> QED
    BY <2>2, <2>3, FS_Subset
<1>11. \A i \in (k + 1)..n : place[i] \in Y
  <2> TAKE i \in (k + 1)..n
  <2>1. i \in 1..n /\ k < i
    BY <1>9
  <2>2. place[k] < place[i] /\ place[i] \in 1..m /\ place[k] \in 1..m
    BY <1>5, <1>7, <1>9, <2>1
  <2>3. file[born[place[i]]] # NoFile
    BY <1>3, <1>5, <2>1
  <2> QED
    BY <1>2, <1>8, <2>2, <2>3 DEF YoungerThan
<1>12. PICK f : f = [i \in (k + 1)..n |-> place[i]]
  OBVIOUS
<1>13. f \in Injection((k + 1)..n, Y)
  <2>1. f \in [(k + 1)..n -> Y]
    BY <1>11, <1>12
  <2>2. ASSUME NEW i \in (k + 1)..n, NEW j \in (k + 1)..n, f[i] = f[j] PROVE i = j
    <3>1. i \in 1..n /\ j \in 1..n /\ place[i] = place[j]
      BY <1>9, <1>12, <2>2
    <3>2. place[i] \in Nat /\ place[j] \in Nat
      BY <1>5, <3>1
    <3> QED
      BY <1>7, <3>1, <3>2
  <2> QED
    BY <2>1, <2>2 DEF Injection, IsInjective
<1>14. Cardinality((k + 1)..n) = n - k
  <2>1. PICK a \in Nat : a = k + 1
    BY <1>9
  <2>2. Cardinality(a..n) = IF a > n THEN 0 ELSE n - a + 1
    BY FS_Interval
  <2> QED
    BY <1>9, <2>1, <2>2
<1>15. Cardinality(Y) >= n - k
  <2>1. PICK A : A = (k + 1)..n
    OBVIOUS
  <2>2. f \in Injection(A, Y)
    BY <1>13, <2>1
  <2>3. Cardinality(A) <= Cardinality(Y)
    BY <1>10, <2>2, FS_Injection
  <2>4. Cardinality(A) = n - k /\ Cardinality(Y) \in Nat
    BY <1>10, <1>14, <2>1, FS_CardinalityType
  <2> QED
    BY <1>9, <2>3, <2>4
<1>16. Cardinality(Y) >= MaxTables - 1
  <2>1. MaxTables \in Nat /\ Cardinality(Y) \in Nat
    BY <1>10, SwarmAssumption, FS_CardinalityType
  <2> QED
    BY <1>1, <1>9, <1>15, <2>1
<1>17. place[k] \in 1..Len(born) /\ born[place[k]] = s[k]
  BY <1>2, <1>5, <1>9
<1> QED
  BY <1>3, <1>8, <1>9, <1>16, <1>17 DEF OldTable

LEMMA TablesCreates ==
    ASSUME TablesInv, WorkInv', NEW t \in Tables, BeginCreate(t) \/ CreateStep(t)
    PROVE  TablesInv'
<1>1. WorkInv
  BY DEF TablesInv
<1>2. CASE BeginCreate(t)
  <2>1. PICK c \in CreateRecords : CreateTo(t, c) /\ c.at = "list" /\ c.evict = <<>> /\ create[t].at = "idle"
    BY <1>2, BeginCreateEffect
  <2>2. create'[t] = c /\ \A x \in Tables : x # t => create'[x] = create[x]
    BY <1>1, <2>1, OneCreateGoes
  <2>3. UNCHANGED <<file, seq, born, counter>>
    BY <1>2 DEF BeginCreate
  <2>4. TablesNumbered'
    BY <2>1, <2>2, <2>3, NumbersStay DEF TableLive, BeforeNumber
  <2>5. TablesWritten'
    BY <2>1, <2>2, <2>3 DEF TablesInv, TablesWritten, BeforeNumber
  <2>6. TablesEvicted'
    BY <2>1, <2>2, <2>3, EvictedStay DEF InLine, FilesStay
  <2> QED
    BY <2>4, <2>5, <2>6 DEF TablesInv
<1>3. CASE ListForEviction(t)
  <2>1. PICK s \in Listings, c \in CreateRecords :
           /\ create[t].at = "list"
           /\ CreateTo(t, c) /\ c.evict = SubSeq(s, 1, Len(s) - MaxTables + 1)
           /\ c.at = IF c.evict = <<>> THEN "number" ELSE "evict"
    BY <1>1, <1>3, ListEffect
  <2>2. create'[t] = c /\ \A x \in Tables : x # t => create'[x] = create[x]
    BY <1>1, <2>1, OneCreateGoes
  <2>3. UNCHANGED <<file, seq, born, counter>>
    BY <1>3 DEF ListForEviction
  <2>4. TablesNumbered'
    BY <2>1, <2>2, <2>3, NumbersStay DEF TableLive, BeforeNumber
  <2>5. TablesWritten'
    BY <2>1, <2>2, <2>3 DEF TablesInv, TablesWritten, BeforeNumber
  <2>6. ASSUME NEW k \in 1..Len(c.evict) PROVE file[c.evict[k]] # NoFile /\ OldTable(c.evict[k])
    <3>1. PICK n \in Nat : n = Len(s) /\ s \in Seq(Tables)
      BY <1>1, ListingsAre
    <3>2. PICK m \in Int : m = n - MaxTables + 1 /\ m <= n
      <4>1. MaxTables \in Nat \ {0}
        BY SwarmAssumption, Zenon
      <4> QED
        BY <4>1
    <3>3. PICK z \in Seq(Tables) : z = s /\ \A i \in 1..m : i \in 1..Len(z)
      BY <3>1, <3>2
    <3>4. /\ Len(SubSeq(z, 1, m)) = (IF 1 <= m THEN m - 1 + 1 ELSE 0)
          /\ \A i \in 1..m - 1 + 1 : SubSeq(z, 1, m)[i] = z[1 + i - 1]
      BY <3>2, <3>3, SubSeqProperties
    <3>5. c.evict = SubSeq(z, 1, m)
      BY <2>1, <3>1, <3>2, <3>3
    <3>6. k \in 1..n /\ k <= m /\ c.evict[k] = s[k]
      BY <3>2, <3>3, <3>4, <3>5
    <3>7. k \in 1..Len(s) /\ k <= Len(s) - MaxTables + 1
      BY <3>1, <3>2, <3>6
    <3> QED
      BY <3>6, <3>7, TheOldestAreOld
  <2>7. TablesEvicted'
    <3>1. \A x, e \in Tables : InLine(x, e)' => InLine(x, e) \/ (file[e] # NoFile /\ OldTable(e))
      BY <2>2, <2>6 DEF InLine
    <3> QED
      BY <2>3, <3>1, EvictedStay DEF FilesStay
  <2> QED
    BY <2>4, <2>5, <2>7 DEF TablesInv
<1>4. CASE ForgetTable(t)
  <2>1. PICK c \in CreateRecords :
           CreateTo(t, c) /\ create[t].at = "evict" /\ c.at = "empty" /\ c.evict = create[t].evict
    BY <1>1, <1>4, ForgetEffect
  <2>2. create'[t] = c /\ \A x \in Tables : x # t => create'[x] = create[x]
    BY <1>1, <2>1, OneCreateGoes
  <2>3. UNCHANGED <<file, seq, born, counter>>
    BY <1>4 DEF ForgetTable
  <2>4. TablesNumbered'
    BY <2>1, <2>2, <2>3, NumbersStay DEF TableLive, BeforeNumber
  <2>5. TablesWritten'
    BY <2>1, <2>2, <2>3 DEF TablesInv, TablesWritten, BeforeNumber
  <2>6. TablesEvicted'
    BY <2>1, <2>2, <2>3, EvictedStay DEF InLine, FilesStay
  <2> QED
    BY <2>4, <2>5, <2>6 DEF TablesInv
<1>5. CASE EmptyFile(t)
  <2>1. PICK e \in Tables, c \in CreateRecords :
           /\ e = Head(create[t].evict) /\ create[t].at = "empty"
           /\ CreateTo(t, c) /\ c.evict = Tail(create[t].evict)
           /\ c.at = IF c.evict = <<>> THEN "number" ELSE "evict"
           /\ file' = IF file[e] = create[t].prev THEN [file EXCEPT ![e] = Emptied] ELSE file
    BY <1>1, <1>5, EmptyEffect
  <2>2. create'[t] = c /\ \A x \in Tables : x # t => create'[x] = create[x]
    BY <1>1, <2>1, OneCreateGoes
  <2>3. UNCHANGED <<seq, born, counter>> /\ file \in [Tables -> SwarmFiles]
    BY <1>1, <1>5 DEF EmptyFile, WorkInv, TablesTyped
  <2>4. PICK l \in Seq(Tables) : l = create[t].evict /\ l # <<>>
    BY <1>1, <2>1 DEF WorkInv, TablesTyped, CreateRecords
  <2>5. PICK n \in Nat : /\ n = Len(l) /\ n > 0 /\ e = l[1] /\ Len(c.evict) = n - 1
                         /\ \A i \in 1..(n - 1) : c.evict[i] = l[i + 1]
    <3>1. PICK n \in Nat : n = Len(l)
      BY LenProperties
    <3>2. n > 0
      BY <2>4, <3>1, EmptySeq
    <3>3. PICK z \in Seq(Tables) : z = Tail(l) /\ Len(z) = n - 1 /\ \A i \in 1..Len(z) : z[i] = l[i + 1]
      BY <2>4, <3>1, HeadTailProperties
    <3>4. Head(l) = l[1] /\ c.evict = z
      BY <2>1, <2>4, <3>3
    <3> QED
      BY <2>1, <2>4, <3>1, <3>2, <3>3, <3>4
  <2>6. file[e] # NoFile /\ OldTable(e)
    <3>1. InLine(t, e)
      BY <2>4, <2>5 DEF InLine
    <3> QED
      BY <3>1 DEF TablesInv, TablesEvicted
  <2>7. \A x \in Tables : file'[x] # NoFile <=> file[x] # NoFile
    <3>1. Emptied # NoFile
      BY DEF Emptied, NoFile
    <3> QED
      BY <2>1, <2>3, <2>6, <3>1
  <2>8. TablesNumbered'
    BY <2>1, <2>2, <2>3, <2>7, NumbersStay DEF TableLive, BeforeNumber
  <2>9. TablesWritten'
    BY <2>1, <2>2, <2>7 DEF TablesInv, TablesWritten, BeforeNumber
  <2>10. TablesEvicted'
    <3>1. \A x, y \in Tables : InLine(x, y)' => InLine(x, y)
      <4>1. ASSUME NEW y \in Tables, InLine(t, y)' PROVE InLine(t, y)
        <5>1. PICK k \in 1..(n - 1) : c.evict[k] = y
          BY <2>2, <2>5, <4>1 DEF InLine
        <5>2. k + 1 \in 1..n /\ l[k + 1] = y
          BY <2>5, <5>1
        <5> QED
          BY <2>4, <2>5, <5>2 DEF InLine
      <4> QED
        BY <2>2, <4>1 DEF InLine
    <3> QED
      BY <2>3, <2>7, <3>1, EvictedStay DEF FilesStay
  <2> QED
    BY <2>8, <2>9, <2>10 DEF TablesInv
<1>6. CASE Number(t)
  <2>1. PICK n \in Nat, c \in CreateRecords :
           /\ create[t].at = "number" /\ CreateTo(t, c) /\ c.at = "write" /\ c.evict = <<>>
           /\ counter <= n /\ (\A x \in Existing : seq[x] < n)
           /\ seq' = [seq EXCEPT ![t] = n] /\ counter' = n + 1 /\ born' = Append(born, t)
    BY <1>1, <1>6, NumberEffect
  <2>2. create'[t] = c /\ \A x \in Tables : x # t => create'[x] = create[x]
    BY <1>1, <2>1, OneCreateGoes
  <2>3. file' = file /\ seq \in [Tables -> Nat] /\ counter \in Nat /\ born \in Seq(Tables)
    BY <1>1, <1>6 DEF Number, WorkInv, TablesTyped
  <2>4. PICK m \in Nat :
          /\ m = Len(born) /\ \A i \in 1..m : born[i] \in Tables
          /\ Len(born') = m + 1 /\ born'[m + 1] = t /\ \A i \in 1..m : born'[i] = born[i]
    <3>1. PICK m \in Nat : m = Len(born) /\ \A i \in 1..m : born[i] \in Tables
      BY <2>3, LenProperties, ElementOfSeq
    <3>2. Len(born') = m + 1 /\ born'[m + 1] = t /\ \A i \in 1..m : born'[i] = born[i]
      BY <2>1, <2>3, <3>1, AppendProperties
    <3> QED
      BY <3>1, <3>2
  <2>5. file[t] = NoFile /\ \A i \in 1..m : born[i] # t
    BY <2>1, <2>4 DEF TablesInv, TablesWritten, TablesNumbered, BeforeNumber
  <2>6. TablesNumbered'
    <3>1. \A i, j \in 1..(m + 1) : i # j => born'[i] # born'[j]
      BY <2>4, <2>5 DEF TablesInv, TablesNumbered
    <3>2. \A i \in 1..(m + 1) : create'[born'[i]].at \notin BeforeNumber
      BY <2>1, <2>2, <2>4, <2>5 DEF TablesInv, TablesNumbered, BeforeNumber
    <3>3. \A x \in Tables : x # t => (TableLive(x)' <=> TableLive(x))
      BY <2>2, <2>3 DEF TableLive
    <3>4. \A x \in Tables : TableLive(x)' => \E i \in 1..(m + 1) : born'[i] = x
      BY <2>4, <3>3 DEF TablesInv, TablesNumbered
    <3>5. \A x \in Tables : TableLive(x) => seq[x] < n
      BY <2>1, <2>3 DEF TableLive, Existing, TablesInv, TablesNumbered
    <3>6. ASSUME NEW i \in 1..(m + 1), NEW j \in 1..(m + 1), i < j, TableLive(born[i])', TableLive(born[j])'
          PROVE  seq'[born'[i]] < seq'[born'[j]]
      <4>1. i \in 1..m /\ born'[i] = born[i] /\ born[i] # t /\ born[i] \in Tables /\ TableLive(born[i])
        <5>1. i \in 1..m /\ born'[i] = born[i] /\ born[i] # t /\ born[i] \in Tables
          BY <2>4, <2>5, <3>6
        <5> QED
          BY <2>2, <2>3, <3>6, <5>1 DEF TableLive
      <4>2. CASE j = m + 1
        BY <2>1, <2>3, <2>4, <3>5, <4>1, <4>2
      <4>3. CASE j # m + 1
        <5>1. j \in 1..m /\ born'[j] = born[j] /\ born[j] # t /\ born[j] \in Tables
          BY <2>4, <2>5, <4>3
        <5>2. TableLive(born[j])
          BY <2>2, <2>3, <3>6, <5>1 DEF TableLive
        <5>3. seq[born[i]] < seq[born[j]]
          BY <2>4, <3>6, <4>1, <5>1, <5>2 DEF TablesInv, TablesNumbered
        <5> QED
          BY <2>1, <2>3, <4>1, <5>1, <5>3
      <4> QED
        BY <4>2, <4>3
    <3>7. \A x \in Tables : create'[x].at = "write" => seq'[x] < counter'
      BY <2>1, <2>2, <2>3 DEF TablesInv, TablesNumbered
    <3> QED
      BY <2>4, <3>1, <3>2, <3>4, <3>6, <3>7 DEF TablesNumbered
  <2>7. TablesWritten'
    BY <2>1, <2>2, <2>3, <2>5 DEF TablesInv, TablesWritten, BeforeNumber
  <2>8. TablesEvicted'
    <3>1. \A x, y \in Tables : InLine(x, y)' => InLine(x, y)
      BY <2>1, <2>2 DEF InLine
    <3>2. FilesStay /\ \E x \in Tables : born' = Append(born, x)
      BY <2>1, <2>3 DEF FilesStay
    <3> QED
      BY <3>1, <3>2, EvictedStay
  <2> QED
    BY <2>6, <2>7, <2>8 DEF TablesInv
<1>7. CASE WriteFile(t)
  <2>1. PICK c \in CreateRecords :
           /\ create[t].at = "write" /\ CreateTo(t, c) /\ c.at = "remember" /\ c.evict = <<>>
           /\ file' = [file EXCEPT ![t] = Holding(Fresh)]
    BY <1>7, WriteEffect
  <2>2. create'[t] = c /\ \A x \in Tables : x # t => create'[x] = create[x]
    BY <1>1, <2>1, OneCreateGoes
  <2>3. UNCHANGED <<seq, born, counter>> /\ file \in [Tables -> SwarmFiles]
    BY <1>1, <1>7 DEF WriteFile, WorkInv, TablesTyped
  <2>4. file'[t] # NoFile /\ \A x \in Tables : x # t => file'[x] = file[x]
    <3>1. Holding(Fresh) # NoFile
      BY DEF Holding, NoFile
    <3> QED
      BY <2>1, <2>3, <3>1
  <2>5. TablesNumbered'
    BY <2>1, <2>2, <2>3, <2>4, NumbersStay DEF TableLive, BeforeNumber
  <2>6. TablesWritten'
    BY <2>1, <2>2, <2>4 DEF TablesInv, TablesWritten, BeforeNumber
  <2>7. TablesEvicted'
    BY <2>1, <2>2, <2>3, <2>4, EvictedStay DEF InLine, FilesStay
  <2> QED
    BY <2>5, <2>6, <2>7 DEF TablesInv
<1>8. CASE Remember(t)
  <2>1. PICK c \in CreateRecords :
           create[t].at = "remember" /\ CreateTo(t, c) /\ c.at = "done" /\ c.evict = <<>>
    BY <1>8, TableRememberedEffect
  <2>2. create'[t] = c /\ \A x \in Tables : x # t => create'[x] = create[x]
    BY <1>1, <2>1, OneCreateGoes
  <2>3. UNCHANGED <<file, seq, born, counter>>
    BY <1>8 DEF Remember
  <2>4. TablesNumbered'
    BY <2>1, <2>2, <2>3, NumbersStay DEF TableLive, BeforeNumber
  <2>5. TablesWritten'
    BY <2>1, <2>2, <2>3 DEF TablesInv, TablesWritten, BeforeNumber
  <2>6. TablesEvicted'
    BY <2>1, <2>2, <2>3, EvictedStay DEF InLine, FilesStay
  <2> QED
    BY <2>4, <2>5, <2>6 DEF TablesInv
<1> QED
  BY <1>2, <1>3, <1>4, <1>5, <1>6, <1>7, <1>8 DEF CreateStep

LEMMA TablesRuns ==
    ASSUME TablesInv, WorkInv', NEW r \in Runs, RunStep(r) \/ \E t \in Tables : RunBegins(r, t)
    PROVE  TablesInv'
<1>1. UNCHANGED <<seq, born, counter, create>>
  BY DEF RunStep, RunBegins, BeginRun, ReadTable, Populate, MergeAndSave, EditFile, RememberSave, Answer, KeepTables
<1>2. file' = file \/ EditFile(r)
  BY DEF RunStep, RunBegins, BeginRun, ReadTable, Populate, MergeAndSave, RememberSave, Answer, KeepTables
<1>3. \A t \in Tables : file'[t] # NoFile <=> file[t] # NoFile
  <2>1. CASE file' = file
    BY <2>1
  <2>2. CASE EditFile(r)
    <3>1. \A c : Holding(c) # NoFile
      BY DEF Holding, NoFile
    <3>2. PICK t, p, c : file' = IF file[t] = Holding(p) THEN [file EXCEPT ![t] = Holding(c)] ELSE file
      BY <2>2 DEF EditFile
    <3>3. file \in [Tables -> SwarmFiles]
      BY DEF TablesInv, WorkInv, TablesTyped
    <3> QED
      BY <3>1, <3>2, <3>3
  <2> QED
    BY <1>2, <2>1, <2>2
<1> QED
  BY <1>1, <1>3, OrderOfOthers

LEMMA TablesSession ==
    ASSUME TablesInv, WorkInv', NewSession
    PROVE  TablesInv'
<1>1. UNCHANGED <<file, seq, born>>
  BY DEF NewSession
<1>2. PICK c \in CreateRecords : c.at = "lost" /\ c.evict = <<>>
         /\ create' = [t \in Tables |-> IF create[t].at \in {"idle", "done"} THEN create[t] ELSE c]
  <2>1. PICK c : At(c, "lost")
    BY DEF At
  <2>2. PICK a \in CreateSteps : a = "lost"
    BY DEF CreateSteps
  <2>3. c \in CreateRecords /\ c.at = a /\ c.evict = <<>>
    BY <2>1, <2>2, AtIs
  <2> QED
    BY <2>1, <2>2, <2>3 DEF NewSession, At
<1>3. \A t \in Tables : create'[t] = create[t] \/ create'[t] = c
  BY <1>2
<1>4. \A t \in Tables : create'[t].at # "write"
  BY <1>2
<1>5. TablesNumbered'
  BY <1>1, <1>2, <1>3, <1>4, NumbersStay DEF TableLive, BeforeNumber
<1>6. TablesWritten'
  BY <1>1, <1>2, <1>3 DEF TablesInv, TablesWritten, BeforeNumber
<1>7. TablesEvicted'
  <2>1. \A x, y \in Tables : InLine(x, y)' => InLine(x, y)
    BY <1>2, <1>3 DEF InLine
  <2>2. FilesStay /\ born' = born
    BY <1>1 DEF FilesStay
  <2> QED
    BY <2>1, <2>2, EvictedStay
<1> QED
  BY <1>5, <1>6, <1>7 DEF TablesInv

LEMMA TablesInit == Init => TablesInv
<1> SUFFICES ASSUME Init PROVE TablesInv
  OBVIOUS
<1>1. WorkInv
  BY WorkInit
<1>2. \A t \in Tables : create[t] = NoCreate /\ file[t] = NoFile
  BY DEF Init
<1>3. NoCreate.evict = <<>> /\ NoCreate.at = "idle"
  BY NoCreateIsTyped, Zenon
<1>4. Len(born) = 0
  BY DEF Init
<1>5. TablesNumbered
  BY <1>2, <1>3, <1>4 DEF TablesNumbered, TableLive
<1>6. TablesWritten
  BY <1>2, <1>3 DEF TablesWritten
<1>7. TablesEvicted
  BY <1>2, <1>3 DEF TablesEvicted, InLine
<1> QED
  BY <1>1, <1>5, <1>6, <1>7 DEF TablesInv

LEMMA TablesStay == TablesInv /\ [Next]_vars => TablesInv'
<1> SUFFICES ASSUME TablesInv, [Next]_vars PROVE TablesInv'
  OBVIOUS
<1>0. WorkInv'
  BY WorkStays DEF TablesInv
<1>1. CASE UNCHANGED vars
  <2>1. UNCHANGED <<file, seq, born, counter, create>>
    BY <1>1 DEF vars
  <2> QED
    BY <1>0, <2>1, OrderOfOthers
<1>2. CASE \E t \in Tables : BeginCreate(t) \/ CreateStep(t)
  BY <1>0, <1>2, TablesCreates
<1>3. CASE \E r \in Runs : RunStep(r) \/ \E t \in Tables : RunBegins(r, t)
  BY <1>0, <1>3, TablesRuns
<1>4. CASE NewSession
  BY <1>0, <1>4, TablesSession
<1> QED
  BY <1>1, <1>2, <1>3, <1>4, Zenon DEF Next, RunBegins

(* Eviction takes the oldest: when a table's file is emptied, MAX_TABLES   *)
(* - 1 younger ones are there, also when they were made in earlier         *)
(* sessions.                                                               *)
THEOREM TheYoungestSurvive == Spec => YoungestSurvive
<1>1. Init => TablesInv
  BY TablesInit
<1>2. TablesInv /\ [Next]_vars => TablesInv'
  BY TablesStay
<1> DEFINE Step == \A t \in Tables : file[t] # Emptied /\ file'[t] = Emptied =>
                     \E k \in 1..Len(born) : born[k] = t
                        /\ Cardinality({i \in (k + 1)..Len(born) : file[born[i]] # NoFile}) >= MaxTables - 1
<1>3. TablesInv /\ [Next]_vars => Step
  <2> SUFFICES ASSUME TablesInv, [Next]_vars, NEW t \in Tables, file[t] # Emptied, file'[t] = Emptied
               PROVE  OldTable(t)
    BY DEF OldTable, YoungerThan
  <2>0. file \in [Tables -> SwarmFiles] /\ (\A c : Holding(c) # Emptied) /\ file' # file
    BY DEF TablesInv, WorkInv, TablesTyped, Holding, Emptied
  <2>1. \E c \in Tables : EmptyFile(c)
    <3>1. CASE \E r \in Runs : EditFile(r)
      <4>1. PICK x, p, c : file' = IF file[x] = Holding(p) THEN [file EXCEPT ![x] = Holding(c)] ELSE file
        BY <3>1 DEF EditFile
      <4> QED
        BY <2>0, <4>1
    <3>2. CASE \E c \in Tables : WriteFile(c)
      <4>1. PICK c : file' = [file EXCEPT ![c] = Holding(Fresh)]
        BY <3>2 DEF WriteFile
      <4> QED
        BY <2>0, <4>1
    <3>3. CASE \E r \in Runs : RunStep(r) \/ \E x \in Tables : RunBegins(r, x)
      <4>1. PICK r \in Runs : RunStep(r) \/ \E x \in Tables : RunBegins(r, x)
        BY <3>3
      <4>2. file' = file \/ EditFile(r)
        BY <4>1 DEF RunStep, RunBegins, BeginRun, ReadTable, Populate, MergeAndSave, RememberSave, Answer, KeepTables
      <4> QED
        BY <2>0, <3>1, <4>2
    <3>4. CASE \E c \in Tables : BeginCreate(c) \/ CreateStep(c)
      BY <2>0, <3>2, <3>4 DEF BeginCreate, CreateStep, ListForEviction, ForgetTable, Number, Remember
    <3>5. CASE NewSession \/ UNCHANGED vars
      BY <2>0, <3>5 DEF NewSession, vars
    <3> QED
      BY <3>3, <3>4, <3>5, Zenon DEF Next, RunBegins
  <2>2. PICK c \in Tables : EmptyFile(c)
    BY <2>1
  <2>3. PICK e \in Tables :
           /\ e = Head(create[c].evict) /\ create[c].at = "empty"
           /\ file' = IF file[e] = create[c].prev THEN [file EXCEPT ![e] = Emptied] ELSE file
    BY <2>2, EmptyEffect DEF TablesInv
  <2>4. t = e
    BY <2>0, <2>3
  <2>5. InLine(c, e)
    <3>1. PICK l \in Seq(Tables) : l = create[c].evict /\ l # <<>>
      BY <2>3 DEF TablesInv, WorkInv, TablesTyped, CreateRecords
    <3>2. Len(l) \in Nat /\ Len(l) > 0
      BY <3>1, LenProperties, EmptySeq
    <3>3. Head(l) = l[1] /\ 1 \in 1..Len(l)
      BY <3>2
    <3> QED
      BY <2>3, <3>1, <3>3 DEF InLine
  <2> QED
    BY <2>4, <2>5 DEF TablesInv, TablesEvicted
<1> QED
  BY <1>1, <1>2, <1>3, PTL DEF Spec, YoungestSurvive

(* What the variables of the swarm skill hold.                             *)
THEOREM SwarmIsTyped == Spec => []TypeOK
<1>1. Init => WorkInv
  BY WorkInit
<1>2. WorkInv /\ [Next]_vars => WorkInv'
  BY WorkStays
<1>3. WorkInv => TypeOK
  <2> SUFFICES ASSUME WorkInv PROVE TypeOK
    OBVIOUS
  <2>1. /\ file \in [Tables -> SwarmFiles] /\ seq \in [Tables -> Nat] /\ counter \in Nat
        /\ cache \in [Tables -> Owners \cup {Nobody}] /\ array \in [Owners -> Content]
        /\ entry \in [Owners -> [rows : Owners, last : Content]]
        /\ \A t \in Tables : create[t].at \in CreateSteps
    BY DEF WorkInv, TablesTyped, CreateRecords
  <2>2. ASSUME NEW r \in Runs
        PROVE  LET u == run[r] IN
                 /\ u.at \in RunSteps /\ u.merged \subseteq u.matched /\ u.matched \subseteq Rows
                 /\ u.calls \subseteq 1..Len(u.units) /\ Cardinality(u.calls) <= u.width
                 /\ u.width <= MaxSubagents
    <3>1. PICK u \in RunRecords : u = run[r] /\ RunsSound(u)
      BY DEF WorkInv, RunsTyped
    <3>2. /\ u.at \in RunSteps /\ u.merged \subseteq u.matched /\ u.matched \subseteq Rows
          /\ u.width \in Nat /\ u.width <= MaxSubagents
      BY <3>1 DEF RunRecords, RunsSound
    <3>3. CASE u.at = "dispatch"
      <4>1. AtWork(u)
        BY <3>1, <3>3 DEF RunsSound
      <4>2. PICK n \in Nat : n = Len(u.units)
        BY <4>1, LenProperties DEF AtWork
      <4>3. u.calls \subseteq 1..n /\ Cardinality(u.calls) <= u.width
        BY <4>1, <4>2 DEF AtWork
      <4> QED
        BY <3>1, <3>2, <4>2, <4>3
    <3>4. CASE u.at # "dispatch"
      <4>1. u.calls = {} /\ Cardinality({}) = 0
        BY <3>1, <3>4, FS_EmptySet DEF RunsSound
      <4> QED
        BY <3>1, <3>2, <4>1
    <3> QED
      BY <3>3, <3>4
  <2> QED
    BY <2>1, <2>2 DEF TypeOK, SwarmFiles
<1> QED
  BY <1>1, <1>2, <1>3, PTL DEF Spec

(* No run waits for nothing: while a task is left its workers are all at   *)
(* work, and when the last answer is in there is none left.                *)
THEOREM WorkersAlwaysGoOn == Spec => []WorkersGoOn
<1>1. Init => WorkInv
  BY WorkInit
<1>2. WorkInv /\ [Next]_vars => WorkInv'
  BY WorkStays
<1>3. WorkInv => WorkersGoOn
  BY DEF WorkInv, RunsSound, AtWork, WorkersGoOn
<1> QED
  BY <1>1, <1>2, <1>3, PTL DEF Spec

-----------------------------------------------------------------------------
(* The arrays and entries of a session, whose they are, and what the files *)
(* hold of them.                                                           *)
Loaded(r) == run[r].at \notin {"idle", "read", "populate"}
BelongsTo(o, t) == (o \in Tables /\ o = t) \/ (o \in Runs /\ Loaded(o) /\ run[o].table = t)
Saving(t) == \E r \in Runs : run[r].table = t /\ run[r].at \in {"edit", "written"}
Grows(c, d) == \A x \in Rows : c[x] \subseteq d[x]

(* A run's table was made in this session or an earlier one.               *)
Begun == \A r \in Runs : run[r].at # "idle" => create[run[r].table].at = "done"

(* Entries and arrays are used for the table they were made for.           *)
Owning ==
    /\ \A t \in Tables, o \in Owners : cache[t] = o => create[t].at = "done" /\ BelongsTo(o, t)
    /\ \A o, p \in Owners : entry[o].rows = p => p = o \/ \E t \in Tables : BelongsTo(o, t) /\ BelongsTo(p, t)
    /\ \A r \in Runs, o \in Owners :
         /\ run[r].at = "dispatch" /\ run[r].of = o => BelongsTo(o, run[r].table)
         /\ run[r].at \in {"edit", "written"} /\ run[r].into = o => BelongsTo(o, run[r].table)

Untouched ==
    /\ \A t \in Tables : create[t].at # "done" =>
         array[t] = Fresh /\ entry[t].rows = t /\ entry[t].last = Fresh
    /\ \A t \in Tables : create[t].at = "remember" => file[t] = Holding(Fresh)
    /\ \A r \in Runs : ~Loaded(r) => array[r] = Fresh

(* Who meets on a table is noted.                                          *)
Alone ==
    /\ \A r, q \in Runs : r # q /\ Running(r) /\ Running(q) /\ run[r].table = run[q].table =>
         run[r].table \in overlapped
    /\ \A c \in Tables, r \in Runs :
         create[c].at = "empty" /\ Running(r) /\ Head(create[c].evict) = run[r].table => run[r].table \in overlapped
Pending ==
    \A c, e \in Tables : create[c].at = "empty" /\ create[c].prev # NoFile /\ Head(create[c].evict) = e =>
        create[e].at = "done" /\ (e \in overlapped \/ cache[e] = Nobody)

(* What the cache holds of a table is what its file holds.                 *)
InSync(t) ==
    \A o, p \in Owners : cache[t] = o /\ entry[o].rows = p =>
        file[t] = Holding(entry[o].last) /\ array[p] = entry[o].last
Synced == \A t \in Tables : t \notin overlapped /\ ~Saving(t) => InSync(t)

(* A run knows what the file holds and what it will hold.                  *)
OnItsWay(r) ==
    LET u == run[r] IN
    /\ u.at = "populate" => file[u.table] = Holding(u.read)
    /\ u.at = "dispatch" => \E o \in Owners : cache[u.table] = o /\ entry[o].rows = u.of
    /\ u.at \in {"edit", "written"} =>
         /\ cache[u.table] = u.into /\ array[entry[u.into].rows] = u.content
         /\ \A x \in u.merged : r \in u.content[x]
    /\ u.at = "edit" => entry[u.into].last = u.prev /\ file[u.table] = Holding(u.prev) /\ Grows(u.prev, u.content)
    /\ u.at = "written" => file[u.table] = Holding(u.content)
RunsSynced == \A r \in Runs : run[r].table \notin overlapped => OnItsWay(r)

MissingOnly ==
    \A r \in Runs : run[r].at = "dispatch" /\ run[r].missing /\ run[r].table \notin overlapped =>
        \A x \in run[r].matched : array[run[r].of][x] = {}

KeptInv ==
    /\ TablesInv /\ Begun /\ Owning /\ Untouched /\ Alone /\ Pending
    /\ Synced /\ RunsSynced /\ MissingOnly /\ CompletedIsKept

LEMMA BelongsToOne ==
    ASSUME NEW o, NEW t \in Tables, NEW x \in Tables, BelongsTo(o, t), BelongsTo(o, x)
    PROVE  t = x
<1>1. Tables \cap Runs = {}
  BY SwarmAssumption, Zenon
<1> QED
  BY <1>1 DEF BelongsTo

LEMMA RowsBelong ==
    ASSUME Owning, NEW t \in Tables, NEW o \in Owners, NEW p \in Owners, BelongsTo(o, t), entry[o].rows = p
    PROVE  BelongsTo(p, t)
BY BelongsToOne DEF Owning

(* Runs never give up a table.                                             *)
RunsGoOn == \A r \in Runs : Loaded(r) => Loaded(r)' /\ run'[r].table = run[r].table

LEMMA BelongingStays ==
    ASSUME RunsGoOn, NEW o, NEW t, BelongsTo(o, t)
    PROVE  BelongsTo(o, t)'
BY DEF BelongsTo, RunsGoOn

(* A step of create() that neither begins nor ends an eviction, and makes  *)
(* no table.                                                               *)
LEMMA KeptWithCreates ==
    ASSUME KeptInv, TablesInv', UNCHANGED <<file, cache, entry, array, run, overlapped>>,
           \A t \in Tables : /\ create'[t].at = "done" <=> create[t].at = "done"
                             /\ create'[t].at = "remember" => create[t].at = "remember"
                             /\ create'[t].at = "empty" => create'[t] = create[t]
    PROVE  KeptInv'
<1>1. /\ run \in [Runs -> RunRecords] /\ create \in [Tables -> CreateRecords]
      /\ \A r \in Runs : run[r].table \in Tables
  BY DEF KeptInv, TablesInv, WorkInv, RunsTyped, TablesTyped, RunRecords
<1>2. \A o : \A t : BelongsTo(o, t)' <=> BelongsTo(o, t)
  BY DEF BelongsTo, Loaded
<1>3. Begun'
  BY <1>1 DEF KeptInv, Begun
<1>4. Owning'
  BY <1>2 DEF KeptInv, Owning
<1>5. Untouched'
  BY DEF KeptInv, Untouched, Loaded
<1>6. Alone'
  BY DEF KeptInv, Alone, Running
<1>7. Pending'
  BY DEF KeptInv, Pending
<1>8. Synced' /\ RunsSynced'
  BY DEF KeptInv, Synced, Saving, InSync, RunsSynced, OnItsWay
<1>9. MissingOnly' /\ CompletedIsKept'
  BY DEF KeptInv, MissingOnly, CompletedIsKept
<1> QED
  BY <1>3, <1>4, <1>5, <1>6, <1>7, <1>8, <1>9 DEF KeptInv

(* The types that the proofs of the steps below rest on.                   *)
LEMMA KeptTypes ==
    ASSUME KeptInv
    PROVE  /\ file \in [Tables -> SwarmFiles] /\ cache \in [Tables -> Owners \cup {Nobody}]
           /\ array \in [Owners -> Content] /\ entry \in [Owners -> [rows : Owners, last : Content]]
           /\ create \in [Tables -> CreateRecords] /\ overlapped \subseteq Tables
           /\ run \in [Runs -> RunRecords] /\ \A r \in Runs : run[r].table \in Tables /\ RunsSound(run[r])
           /\ Tables \cap Runs = {} /\ Owners = Tables \cup Runs /\ Nobody \notin Owners
<1>1. Tables \cap Runs = {}
  BY SwarmAssumption, Zenon
<1> QED
  BY <1>1, NamesApart DEF KeptInv, TablesInv, WorkInv, RunsTyped, TablesTyped, RunRecords, Owners

LEMMA KeptWrite ==
    ASSUME KeptInv, TablesInv', NEW t \in Tables, WriteFile(t)
    PROVE  KeptInv'
<1>0. KeptInv /\ WorkInv /\ (\A r \in Runs : run[r].table \in Tables)
  BY KeptTypes DEF KeptInv, TablesInv
<1>1. PICK c \in CreateRecords :
         /\ create[t].at = "write" /\ CreateTo(t, c) /\ c.at = "remember"
         /\ file' = [file EXCEPT ![t] = Holding(Fresh)]
  BY WriteEffect
<1>2. create'[t] = c /\ \A x \in Tables : x # t => create'[x] = create[x]
  BY <1>0, <1>1, OneCreateGoes
<1>3. file'[t] = Holding(Fresh) /\ \A x \in Tables : x # t => file'[x] = file[x]
  BY <1>1, KeptTypes
<1>4. UNCHANGED <<cache, entry, array, run, overlapped>>
  BY DEF WriteFile, KeepRuns
<1>5. \A r \in Runs : run[r].at # "idle" => run[r].table # t
  BY <1>1 DEF KeptInv, Begun
<1>6. \A o \in Owners : cache[t] # o
  BY <1>1 DEF KeptInv, Owning
<1>7. \A o : \A x : BelongsTo(o, x)' <=> BelongsTo(o, x)
  BY <1>4 DEF BelongsTo, Loaded
<1>8. Begun'
  BY <1>0, <1>2, <1>4, <1>5 DEF KeptInv, Begun
<1>9. Owning'
  BY <1>2, <1>4, <1>6, <1>7 DEF KeptInv, Owning
<1>10. Untouched'
  BY <1>1, <1>2, <1>3, <1>4 DEF KeptInv, Untouched, Loaded
<1>11. Alone'
  BY <1>1, <1>2, <1>4 DEF KeptInv, Alone, Running
<1>12. Pending'
  <2>1. \A x \in Tables : create'[x].at = "empty" => x # t /\ create'[x] = create[x]
    BY <1>1, <1>2
  <2>2. \A x \in Tables : create[x].at = "done" => create'[x].at = "done"
    BY <1>1, <1>2
  <2> QED
    BY <1>4, <2>1, <2>2 DEF KeptInv, Pending
<1>13. Synced'
  BY <1>3, <1>4, <1>6 DEF KeptInv, Synced, Saving, InSync
<1>14. RunsSynced'
  <2>1. ASSUME NEW r \in Runs, run[r].table \notin overlapped PROVE OnItsWay(r)'
    <3>1. OnItsWay(r)
      BY <2>1 DEF KeptInv, RunsSynced
    <3>2. run[r].at # "idle" => file'[run[r].table] = file[run[r].table]
      BY <1>0, <1>3, <1>5
    <3> QED
      BY <1>4, <3>1, <3>2 DEF OnItsWay
  <2> QED
    BY <1>4, <2>1 DEF RunsSynced
<1>15. MissingOnly'
  BY <1>4 DEF KeptInv, MissingOnly
<1>16. CompletedIsKept'
  BY <1>0, <1>3, <1>4, <1>5 DEF KeptInv, CompletedIsKept
<1> QED
  BY <1>8, <1>9, <1>10, <1>11, <1>12, <1>13, <1>14, <1>15, <1>16 DEF KeptInv

LEMMA KeptRemember ==
    ASSUME KeptInv, TablesInv', NEW t \in Tables, Remember(t)
    PROVE  KeptInv'
<1>0. KeptInv /\ WorkInv /\ (\A r \in Runs : run[r].table \in Tables)
  BY KeptTypes DEF KeptInv, TablesInv
<1>1. PICK c \in CreateRecords :
         create[t].at = "remember" /\ CreateTo(t, c) /\ c.at = "done" /\ cache' = [cache EXCEPT ![t] = t]
  BY TableRememberedEffect
<1>2. create'[t] = c /\ \A x \in Tables : x # t => create'[x] = create[x]
  BY <1>0, <1>1, OneCreateGoes
<1>3. cache'[t] = t /\ \A x \in Tables : x # t => cache'[x] = cache[x]
  BY <1>1, KeptTypes
<1>4. UNCHANGED <<file, entry, array, run, overlapped>>
  BY DEF Remember, KeepRuns
<1>5. \A r \in Runs : run[r].at # "idle" => run[r].table # t
  BY <1>1 DEF KeptInv, Begun
<1>6. array[t] = Fresh /\ entry[t].rows = t /\ entry[t].last = Fresh /\ file[t] = Holding(Fresh)
  BY <1>1 DEF KeptInv, Untouched
<1>7. \A o : \A x : BelongsTo(o, x)' <=> BelongsTo(o, x)
  BY <1>4 DEF BelongsTo, Loaded
<1>8. Begun'
  BY <1>0, <1>2, <1>4, <1>5 DEF KeptInv, Begun
<1>9. Owning'
  <2>1. BelongsTo(t, t)
    BY DEF BelongsTo
  <2> QED
    BY <1>1, <1>2, <1>3, <1>4, <1>7, <2>1 DEF KeptInv, Owning
<1>10. Untouched'
  BY <1>1, <1>2, <1>4 DEF KeptInv, Untouched, Loaded
<1>11. Alone'
  BY <1>1, <1>2, <1>4 DEF KeptInv, Alone, Running
<1>12. Pending'
  <2>1. \A x \in Tables : create'[x].at = "empty" => x # t /\ create'[x] = create[x]
    BY <1>1, <1>2
  <2>2. \A x \in Tables : create[x].at = "done" => create'[x].at = "done" /\ x # t
    BY <1>1, <1>2
  <2> QED
    BY <1>3, <1>4, <2>1, <2>2 DEF KeptInv, Pending
<1>13. Synced'
  <2>1. InSync(t)'
    BY <1>3, <1>4, <1>6 DEF InSync
  <2>2. \A x \in Tables : x # t /\ InSync(x) => InSync(x)'
    BY <1>3, <1>4 DEF InSync
  <2> QED
    BY <1>4, <2>1, <2>2 DEF KeptInv, Synced, Saving
<1>14. RunsSynced'
  <2>1. ASSUME NEW r \in Runs, run[r].table \notin overlapped PROVE OnItsWay(r)'
    <3>1. OnItsWay(r)
      BY <2>1 DEF KeptInv, RunsSynced
    <3>2. run[r].at # "idle" => cache'[run[r].table] = cache[run[r].table]
      BY <1>0, <1>3, <1>5
    <3> QED
      BY <1>4, <3>1, <3>2 DEF OnItsWay
  <2> QED
    BY <1>4, <2>1 DEF RunsSynced
<1>15. MissingOnly'
  BY <1>4 DEF KeptInv, MissingOnly
<1>16. CompletedIsKept'
  BY <1>4 DEF KeptInv, CompletedIsKept
<1> QED
  BY <1>8, <1>9, <1>10, <1>11, <1>12, <1>13, <1>14, <1>15, <1>16 DEF KeptInv

LEMMA KeptForget ==
    ASSUME KeptInv, TablesInv', NEW t \in Tables, ForgetTable(t)
    PROVE  KeptInv'
<1>0. KeptInv /\ WorkInv /\ (\A r \in Runs : run[r].table \in Tables)
  BY KeptTypes DEF KeptInv, TablesInv
<1>1. PICK e \in Tables, c \in CreateRecords :
         /\ e = Head(create[t].evict) /\ create[t].at = "evict"
         /\ CreateTo(t, c) /\ c.at = "empty" /\ c.evict = create[t].evict
         /\ c.prev = NoFile \/ cache[e] # Nobody
         /\ cache' = [cache EXCEPT ![e] = Nobody]
         /\ overlapped' = IF \E r \in Runs : Running(r) /\ run[r].table = e THEN overlapped \cup {e} ELSE overlapped
  BY <1>0, ForgetEffect
<1>2. create'[t] = c /\ \A x \in Tables : x # t => create'[x] = create[x]
  BY <1>0, <1>1, OneCreateGoes
<1>3. cache'[e] = Nobody /\ \A x \in Tables : x # e => cache'[x] = cache[x]
  BY <1>1, KeptTypes
<1>4. UNCHANGED <<file, entry, array, run>>
  BY DEF ForgetTable, KeepRuns
<1>5. /\ \A x : x \in overlapped => x \in overlapped'
      /\ \A r \in Runs : Running(r) /\ run[r].table = e => e \in overlapped'
  BY <1>1
<1>6. \A o \in Owners : cache'[e] # o
  BY <1>3, KeptTypes
<1>7. \A o : \A x : BelongsTo(o, x)' <=> BelongsTo(o, x)
  BY <1>4 DEF BelongsTo, Loaded
<1>8. Begun'
  BY <1>0, <1>1, <1>2, <1>4 DEF KeptInv, Begun
<1>9. Owning'
  <2>1. \A x \in Tables, o \in Owners : cache'[x] = o => create'[x].at = "done" /\ BelongsTo(o, x)
    BY <1>1, <1>2, <1>3, <1>6 DEF KeptInv, Owning
  <2> QED
    BY <1>4, <1>7, <2>1 DEF KeptInv, Owning
<1>10. Untouched'
  BY <1>1, <1>2, <1>4 DEF KeptInv, Untouched, Loaded
<1>11. Alone'
  <2>1. \A x \in Tables : create'[x].at = "empty" => Head(create'[x].evict) = e \/ (x # t /\ create'[x] = create[x])
    BY <1>1, <1>2
  <2> QED
    BY <1>4, <1>5, <2>1 DEF KeptInv, Alone, Running
<1>12. Pending'
  <2>1. \A x \in Tables : create[x].at = "done" => create'[x].at = "done"
    BY <1>1, <1>2
  <2>2. \A x \in Tables : cache[x] = Nobody => cache'[x] = Nobody
    BY <1>3
  <2>3. c.prev # NoFile => create[e].at = "done"
    <3>1. cache[e] # Nobody => cache[e] \in Owners
      BY KeptTypes
    <3> QED
      BY <1>1, <3>1 DEF KeptInv, Owning
  <2>4. \A x, y \in Tables : create'[x].at = "empty" /\ create'[x].prev # NoFile /\ Head(create'[x].evict) = y =>
          \/ y = e /\ create[e].at = "done"
          \/ create[y].at = "done" /\ (y \in overlapped \/ cache[y] = Nobody)
    BY <1>1, <1>2, <2>3 DEF KeptInv, Pending
  <2> QED
    BY <1>3, <1>5, <2>1, <2>2, <2>4 DEF Pending
<1>13. Synced'
  <2>1. InSync(e)'
    BY <1>6 DEF InSync
  <2>2. \A x \in Tables : x # e /\ InSync(x) => InSync(x)'
    BY <1>3, <1>4 DEF InSync
  <2> QED
    BY <1>4, <1>5, <2>1, <2>2 DEF KeptInv, Synced, Saving
<1>14. RunsSynced'
  <2>1. ASSUME NEW r \in Runs, run[r].table \notin overlapped' PROVE OnItsWay(r)'
    <3>1. OnItsWay(r)
      BY <1>5, <2>1 DEF KeptInv, RunsSynced
    <3>2. Running(r) => cache'[run[r].table] = cache[run[r].table]
      BY <1>0, <1>3, <1>5, <2>1
    <3> QED
      BY <1>4, <3>1, <3>2 DEF OnItsWay, Running
  <2> QED
    BY <1>4, <2>1 DEF RunsSynced
<1>15. MissingOnly'
  BY <1>4, <1>5 DEF KeptInv, MissingOnly
<1>16. CompletedIsKept'
  BY <1>4, <1>5 DEF KeptInv, CompletedIsKept
<1> QED
  BY <1>8, <1>9, <1>10, <1>11, <1>12, <1>13, <1>14, <1>15, <1>16 DEF KeptInv

LEMMA KeptEmpty ==
    ASSUME KeptInv, TablesInv', NEW t \in Tables, EmptyFile(t)
    PROVE  KeptInv'
<1>0. KeptInv /\ WorkInv /\ (\A r \in Runs : run[r].table \in Tables)
  BY KeptTypes DEF KeptInv, TablesInv
<1>1. PICK e \in Tables, c \in CreateRecords :
         /\ e = Head(create[t].evict) /\ create[t].at = "empty"
         /\ CreateTo(t, c) /\ c.at = IF c.evict = <<>> THEN "number" ELSE "evict"
         /\ file' = IF file[e] = create[t].prev THEN [file EXCEPT ![e] = Emptied] ELSE file
  BY <1>0, EmptyEffect
<1>2. create'[t] = c /\ \A x \in Tables : x # t => create'[x] = create[x]
  BY <1>0, <1>1, OneCreateGoes
<1>3. \A x \in Tables : create'[x].at = "empty" => x # t /\ create'[x] = create[x]
  BY <1>1, <1>2
<1>4. \A x \in Tables : create'[x].at \in {"done", "remember"} <=> create[x].at \in {"done", "remember"}
  BY <1>1, <1>2
<1>5. \A x \in Tables : (create'[x].at = "done" <=> create[x].at = "done")
  BY <1>1, <1>2
<1>6. UNCHANGED <<cache, entry, array, run, overlapped>>
  BY DEF EmptyFile, KeepRuns
<1>7. \A x \in Tables : x # e => file'[x] = file[x]
  BY <1>1, KeptTypes
<1>8. file'[e] = file[e] \/ (file'[e] = Emptied /\ create[t].prev # NoFile)
  <2>1. PICK l \in Seq(Tables) : l = create[t].evict /\ l # <<>>
    BY <1>0, <1>1 DEF WorkInv, TablesTyped, CreateRecords
  <2>2. Len(l) \in Nat /\ Len(l) > 0
    BY <2>1, LenProperties, EmptySeq
  <2>3. Head(l) = l[1] /\ 1 \in 1..Len(l)
    BY <2>2
  <2>4. InLine(t, e)
    BY <1>1, <2>1, <2>3 DEF InLine
  <2>5. file[e] # NoFile
    BY <2>4 DEF KeptInv, TablesInv, TablesEvicted
  <2> QED
    BY <1>1, <2>5, KeptTypes
<1>9. file'[e] # file[e] => create[e].at = "done" /\ (e \in overlapped \/ cache[e] = Nobody)
  BY <1>1, <1>8 DEF KeptInv, Pending
<1>10. \A r \in Runs : Running(r) /\ run[r].table = e => e \in overlapped
  BY <1>1 DEF KeptInv, Alone
<1>11. \A o : \A x : BelongsTo(o, x)' <=> BelongsTo(o, x)
  BY <1>6 DEF BelongsTo, Loaded
<1>12. Begun'
  BY <1>0, <1>5, <1>6 DEF KeptInv, Begun
<1>13. Owning'
  BY <1>5, <1>6, <1>11 DEF KeptInv, Owning
<1>14. Untouched'
  <2>1. \A x \in Tables : create'[x].at = "remember" => create[x].at = "remember"
    BY <1>1, <1>2
  <2>2. \A x \in Tables : create[x].at = "remember" => file'[x] = file[x]
    BY <1>7, <1>9
  <2> QED
    BY <1>5, <1>6, <2>1, <2>2 DEF KeptInv, Untouched, Loaded
<1>15. Alone'
  BY <1>3, <1>6 DEF KeptInv, Alone, Running
<1>16. Pending'
  BY <1>3, <1>5, <1>6 DEF KeptInv, Pending
<1>17. Synced'
  <2>1. \A x \in Tables : x \notin overlapped /\ InSync(x) => InSync(x)'
    <3>1. \A x \in Tables : x \notin overlapped => file'[x] = file[x] \/ cache[x] = Nobody
      BY <1>7, <1>9
    <3>2. \A o \in Owners : o # Nobody
      BY KeptTypes
    <3> QED
      BY <1>6, <3>1, <3>2 DEF InSync
  <2> QED
    BY <1>6, <2>1 DEF KeptInv, Synced, Saving
<1>18. RunsSynced'
  <2>1. ASSUME NEW r \in Runs, run[r].table \notin overlapped PROVE OnItsWay(r)'
    <3>1. OnItsWay(r)
      BY <2>1 DEF KeptInv, RunsSynced
    <3>2. Running(r) => file'[run[r].table] = file[run[r].table]
      BY <1>0, <1>7, <1>10, <2>1
    <3> QED
      BY <1>6, <3>1, <3>2 DEF OnItsWay, Running
  <2> QED
    BY <1>6, <2>1 DEF RunsSynced
<1>19. MissingOnly'
  BY <1>6 DEF KeptInv, MissingOnly
<1>20. CompletedIsKept'
  BY <1>0, <1>6, <1>7, <1>8 DEF KeptInv, CompletedIsKept
<1> QED
  BY <1>12, <1>13, <1>14, <1>15, <1>16, <1>17, <1>18, <1>19, <1>20 DEF KeptInv

LEMMA KeptCreates ==
    ASSUME KeptInv, TablesInv', NEW t \in Tables, BeginCreate(t) \/ CreateStep(t)
    PROVE  KeptInv'
<1>0. WorkInv
  BY DEF KeptInv, TablesInv
<1>1. ASSUME NEW c \in CreateRecords, CreateTo(t, c), c.at \in {"list", "number", "evict", "write"},
             create[t].at \in {"idle", "list", "number"},
             UNCHANGED <<file, cache, entry, array, run, overlapped>>
      PROVE  KeptInv'
  <2>1. create'[t] = c /\ \A x \in Tables : x # t => create'[x] = create[x]
    BY <1>0, <1>1, OneCreateGoes
  <2>2. \A x \in Tables : /\ create'[x].at = "done" <=> create[x].at = "done"
                          /\ create'[x].at = "remember" => create[x].at = "remember"
                          /\ create'[x].at = "empty" => create'[x] = create[x]
    BY <1>1, <2>1
  <2> QED
    BY <1>1, <2>2, KeptWithCreates
<1>2. CASE BeginCreate(t)
  <2>1. PICK c \in CreateRecords : CreateTo(t, c) /\ c.at = "list" /\ create[t].at = "idle"
    BY <1>2, BeginCreateEffect
  <2> QED
    BY <1>1, <1>2, <2>1 DEF BeginCreate, KeepRuns
<1>3. CASE ListForEviction(t)
  <2>1. PICK c \in CreateRecords : CreateTo(t, c) /\ c.at \in {"number", "evict"} /\ create[t].at = "list"
    BY <1>0, <1>3, ListEffect
  <2>2. UNCHANGED <<file, cache, entry, array, run, overlapped>>
    BY <1>3 DEF ListForEviction, KeepRuns
  <2> QED
    BY <1>1, <2>1, <2>2
<1>4. CASE Number(t)
  <2>1. PICK c \in CreateRecords : CreateTo(t, c) /\ c.at = "write" /\ create[t].at = "number"
    BY <1>0, <1>4, NumberEffect
  <2>2. UNCHANGED <<file, cache, entry, array, run, overlapped>>
    BY <1>4 DEF Number, KeepRuns
  <2> QED
    BY <1>1, <2>1, <2>2
<1> QED
  BY <1>2, <1>3, <1>4, KeptForget, KeptEmpty, KeptWrite, KeptRemember DEF CreateStep

-----------------------------------------------------------------------------
(* A step of a run changes what belongs to its table, and nothing else.    *)
OnlyOf(t) ==
    /\ \A x \in Tables : x # t => file'[x] = file[x] /\ cache'[x] = cache[x]
    /\ \A o \in Owners : ~BelongsTo(o, t)' => array'[o] = array[o] /\ entry'[o] = entry[o]
StepOn(r, t, v) ==
    /\ RunGoes(r, v) /\ v.table = t /\ v.at # "idle"
    /\ run[r].at = "idle" \/ (Running(r) /\ run[r].table = t /\ (Loaded(r) => v.at \notin {"read", "populate"}))
    /\ create[t].at = "done" /\ create' = create
    /\ overlapped \subseteq overlapped'
    /\ \A q \in Runs : q # r /\ Running(q) /\ run[q].table = t => t \in overlapped'
    /\ \A c \in Tables : create[c].at = "empty" /\ Head(create[c].evict) = t => t \in overlapped'

LEMMA OthersStay ==
    ASSUME KeptInv, NEW r \in Runs, NEW t \in Tables, NEW v \in RunRecords, StepOn(r, t, v), OnlyOf(t)
    PROVE  /\ run'[r] = v /\ (\A q \in Runs : q # r => run'[q] = run[q]) /\ RunsGoOn
           /\ Begun' /\ Untouched' /\ Alone' /\ Pending'
           /\ \A x \in Tables : x # t /\ x \notin overlapped' /\ ~Saving(x)' => InSync(x)'
           /\ \A q \in Runs : q # r /\ run'[q].table \notin overlapped' => OnItsWay(q)'
           /\ \A q \in Runs : q # r /\ run[q].at = "dispatch" /\ run[q].missing /\ run[q].table \notin overlapped' =>
                \A x \in run[q].matched : array'[run[q].of][x] = {}
<1>0. /\ run \in [Runs -> RunRecords] /\ (\A q \in Runs : run[q].table \in Tables /\ RunsSound(run[q]))
      /\ Tables \cap Runs = {} /\ Owners = Tables \cup Runs
      /\ cache \in [Tables -> Owners \cup {Nobody}] /\ entry \in [Owners -> [rows : Owners, last : Content]]
  BY KeptTypes
<1>1. run'[r] = v /\ \A q \in Runs : q # r => run'[q] = run[q]
  BY <1>0 DEF StepOn, RunGoes
<1>2. RunsGoOn
  <2>1. Loaded(r) => Loaded(r)' /\ run'[r].table = run[r].table
    BY <1>1 DEF StepOn, Loaded
  <2> QED
    BY <1>1, <2>1 DEF RunsGoOn, Loaded
<1>3. Begun'
  BY <1>1 DEF StepOn, KeptInv, Begun
<1>4. Untouched'
  <2>1. \A x \in Tables : create'[x].at # "done" => array'[x] = array[x] /\ entry'[x] = entry[x]
    <3>1. \A x \in Tables : x # t => ~BelongsTo(x, t)'
      BY <1>0 DEF BelongsTo
    <3> QED
      BY <1>0, <3>1 DEF StepOn, OnlyOf
  <2>2. \A x \in Tables : create'[x].at = "remember" => file'[x] = file[x]
    BY DEF StepOn, OnlyOf
  <2>3. \A q \in Runs : ~Loaded(q)' => ~Loaded(q) /\ array'[q] = array[q]
    <3>1. \A q \in Runs : ~Loaded(q)' => ~BelongsTo(q, t)'
      BY <1>0 DEF BelongsTo
    <3> QED
      BY <1>0, <1>2, <3>1 DEF OnlyOf, RunsGoOn
  <2> QED
    BY <2>1, <2>2, <2>3 DEF KeptInv, Untouched, StepOn
<1>5. Alone'
  <2>1. ASSUME NEW p \in Runs, NEW q \in Runs, p # q, Running(p)', Running(q)', run'[p].table = run'[q].table
        PROVE  run'[p].table \in overlapped'
    <3>1. CASE p # r /\ q # r
      BY <1>1, <2>1, <3>1 DEF KeptInv, Alone, Running, StepOn
    <3>2. CASE p = r
      BY <1>1, <2>1, <3>2 DEF Running, StepOn
    <3>3. CASE q = r
      BY <1>1, <2>1, <3>3 DEF Running, StepOn
    <3> QED
      BY <3>1, <3>2, <3>3
  <2>2. ASSUME NEW c \in Tables, NEW q \in Runs, create'[c].at = "empty", Running(q)',
               Head(create'[c].evict) = run'[q].table
        PROVE  run'[q].table \in overlapped'
    <3>1. CASE q = r
      BY <1>1, <2>2, <3>1 DEF StepOn
    <3>2. CASE q # r
      BY <1>1, <2>2, <3>2 DEF KeptInv, Alone, Running, StepOn
    <3> QED
      BY <3>1, <3>2
  <2> QED
    BY <2>1, <2>2 DEF Alone
<1>6. Pending'
  <2> SUFFICES ASSUME NEW c \in Tables, NEW e \in Tables, create[c].at = "empty", create[c].prev # NoFile,
                      Head(create[c].evict) = e
               PROVE  create[e].at = "done" /\ (e \in overlapped' \/ cache'[e] = Nobody)
    BY DEF Pending, StepOn
  <2>1. create[e].at = "done" /\ (e \in overlapped \/ cache[e] = Nobody)
    BY DEF KeptInv, Pending
  <2> QED
    BY <2>1 DEF StepOn, OnlyOf
<1>7. ASSUME NEW o \in Owners, NEW x \in Tables, x # t, BelongsTo(o, x)
      PROVE  array'[o] = array[o] /\ entry'[o] = entry[o]
  <2>1. BelongsTo(o, x)'
    BY <1>2, <1>7, BelongingStays
  <2>2. ~BelongsTo(o, t)'
    BY <1>0, <1>7, <2>1 DEF BelongsTo
  <2> QED
    BY <2>2 DEF OnlyOf
<1>8. Owning
  BY DEF KeptInv
<1>9. ASSUME NEW x \in Tables, x # t, x \notin overlapped', ~Saving(x)'
      PROVE  InSync(x)'
  <2>1. ~Saving(x)
    BY <1>1, <1>9 DEF Saving, StepOn
  <2>2. InSync(x)
    BY <1>9, <2>1 DEF KeptInv, Synced, StepOn
  <2> SUFFICES ASSUME NEW o \in Owners, NEW p \in Owners, cache'[x] = o, entry'[o].rows = p
               PROVE  file'[x] = Holding(entry'[o].last) /\ array'[p] = entry'[o].last
    BY DEF InSync
  <2>3. cache[x] = o /\ file'[x] = file[x]
    BY <1>9 DEF OnlyOf
  <2>4. BelongsTo(o, x)
    BY <1>8, <2>3 DEF Owning
  <2>5. entry'[o] = entry[o]
    BY <1>7, <1>9, <2>4
  <2>6. BelongsTo(p, x)
    BY <1>8, <2>4, <2>5, RowsBelong
  <2>7. array'[p] = array[p]
    BY <1>7, <1>9, <2>6
  <2> QED
    BY <2>2, <2>3, <2>5, <2>7 DEF InSync
<1>10. ASSUME NEW q \in Runs, q # r, run[q].table \notin overlapped' PROVE OnItsWay(q)'
  <2>1. PICK u \in RunRecords : u = run[q] /\ u = run'[q] /\ RunsSound(u)
    BY <1>0, <1>1, <1>10
  <2>2. PICK x \in Tables : x = u.table /\ x \notin overlapped /\ x \notin overlapped'
    BY <1>0, <1>10, <2>1 DEF StepOn
  <2>3. OnItsWay(q)
    BY <2>1, <2>2 DEF KeptInv, RunsSynced
  <2>4. CASE ~Running(q)
    BY <2>1, <2>4 DEF OnItsWay, Running
  <2>5. CASE Running(q)
    <3>1. x # t
      BY <1>10, <2>1, <2>2, <2>5 DEF StepOn
    <3>2. file'[x] = file[x] /\ cache'[x] = cache[x]
      BY <3>1 DEF OnlyOf
    <3>3. u.at = "dispatch" => \E o \in Owners : cache'[x] = o /\ entry'[o].rows = u.of
      <4>1. ASSUME NEW o \in Owners, cache[x] = o PROVE entry'[o] = entry[o]
        <5>1. BelongsTo(o, x)
          BY <1>8, <4>1 DEF Owning
        <5> QED
          BY <1>7, <3>1, <5>1
      <4> QED
        BY <2>1, <2>2, <2>3, <3>2, <4>1 DEF OnItsWay
    <3>4. u.at \in {"edit", "written"} =>
              entry'[u.into] = entry[u.into] /\ array'[entry[u.into].rows] = array[entry[u.into].rows]
      <4> SUFFICES ASSUME u.at \in {"edit", "written"}
                   PROVE  entry'[u.into] = entry[u.into] /\ array'[entry[u.into].rows] = array[entry[u.into].rows]
        OBVIOUS
      <4>1. PICK o \in Owners : o = u.into
        BY <2>1 DEF RunsSound
      <4>2. BelongsTo(o, x)
        BY <1>8, <2>1, <2>2, <4>1 DEF Owning
      <4>3. PICK p \in Owners : p = entry[o].rows
        BY <1>0
      <4>4. BelongsTo(p, x)
        BY <1>8, <4>2, <4>3, RowsBelong
      <4> QED
        BY <1>7, <3>1, <4>1, <4>2, <4>3, <4>4
    <3> QED
      BY <2>1, <2>2, <2>3, <3>2, <3>3, <3>4 DEF OnItsWay
  <2> QED
    BY <2>4, <2>5
<1>11. ASSUME NEW q \in Runs, q # r, run[q].at = "dispatch", run[q].missing, run[q].table \notin overlapped'
       PROVE  \A x \in run[q].matched : array'[run[q].of][x] = {}
  <2>1. PICK x \in Tables : x = run[q].table /\ x \notin overlapped
    BY <1>0, <1>11 DEF StepOn
  <2>2. \A y \in run[q].matched : array[run[q].of][y] = {}
    BY <1>11, <2>1 DEF KeptInv, MissingOnly
  <2>3. x # t
    BY <1>11, <2>1 DEF StepOn, Running
  <2>4. PICK o \in Owners : o = run[q].of
    BY <1>0, <1>11 DEF RunsSound, AtWork
  <2>5. BelongsTo(o, x)
    BY <1>8, <1>11, <2>1, <2>4 DEF Owning
  <2> QED
    BY <1>7, <2>2, <2>3, <2>4, <2>5
<1>12. \A q \in Runs : q # r /\ run'[q].table \notin overlapped' => OnItsWay(q)'
  BY <1>1, <1>10
<1> QED
  BY <1>1, <1>2, <1>3, <1>4, <1>5, <1>6, <1>9, <1>11, <1>12

LEMMA RunKept ==
    ASSUME KeptInv, TablesInv', NEW r \in Runs, NEW t \in Tables, NEW v \in RunRecords, StepOn(r, t, v), OnlyOf(t),
           Owning',
           t \notin overlapped' /\ ~Saving(t)' => InSync(t)',
           t \notin overlapped' => OnItsWay(r)',
           v.at = "dispatch" /\ v.missing /\ t \notin overlapped' => \A x \in v.matched : array'[v.of][x] = {},
           t \notin overlapped' /\ file'[t] # Emptied => \A q \in Runs : run'[q].at = "done" /\ run'[q].table = t =>
                \A x \in run'[q].merged : q \in file'[t].rows[x]
    PROVE  KeptInv'
<1>1. /\ run'[r] = v /\ (\A q \in Runs : q # r => run'[q] = run[q])
      /\ Begun' /\ Untouched' /\ Alone' /\ Pending'
      /\ \A x \in Tables : x # t /\ x \notin overlapped' /\ ~Saving(x)' => InSync(x)'
      /\ \A q \in Runs : q # r /\ run'[q].table \notin overlapped' => OnItsWay(q)'
      /\ \A q \in Runs : q # r /\ run[q].at = "dispatch" /\ run[q].missing /\ run[q].table \notin overlapped' =>
           \A x \in run[q].matched : array'[run[q].of][x] = {}
  BY OthersStay
<1>2. Synced'
  BY <1>1 DEF Synced
<1>3. RunsSynced'
  BY <1>1 DEF RunsSynced, StepOn
<1>4. MissingOnly'
  <2> SUFFICES ASSUME NEW q \in Runs, run'[q].at = "dispatch", run'[q].missing, run'[q].table \notin overlapped'
               PROVE  \A x \in run'[q].matched : array'[run'[q].of][x] = {}
    BY DEF MissingOnly
  <2>1. CASE q = r
    <3>1. run'[q] = v /\ v.table = t
      BY <1>1, <2>1 DEF StepOn
    <3> QED
      BY <3>1
  <2>2. CASE q # r
    <3>1. run'[q] = run[q]
      BY <1>1, <2>2
    <3> QED
      BY <1>1, <2>2, <3>1
  <2> QED
    BY <2>1, <2>2
<1>5. CompletedIsKept'
  <2> SUFFICES ASSUME NEW q \in Runs, run'[q].at = "done", run'[q].table \notin overlapped',
                      file'[run'[q].table] # Emptied
               PROVE  \A x \in run'[q].merged : q \in file'[run'[q].table].rows[x]
    BY DEF CompletedIsKept
  <2>1. CASE run'[q].table = t
    BY <2>1
  <2>2. CASE run'[q].table # t
    <3>1. q # r /\ run'[q] = run[q]
      BY <1>1, <2>2 DEF StepOn
    <3>2. run[q].table \in Tables
      BY KeptTypes
    <3>3. file'[run[q].table] = file[run[q].table] /\ run[q].table \notin overlapped
      BY <2>2, <3>1, <3>2 DEF StepOn, OnlyOf
    <3> QED
      BY <3>1, <3>3 DEF KeptInv, CompletedIsKept
  <2> QED
    BY <2>1, <2>2
<1> QED
  BY <1>1, <1>2, <1>3, <1>4, <1>5 DEF KeptInv

LEMMA RunningStep ==
    ASSUME KeptInv, NEW r \in Runs, NEW t \in Tables, NEW v, RunGoes(r, v), v.table = t, v.at # "idle",
           Running(r), run[r].table = t, Loaded(r) => v.at \notin {"read", "populate"},
           create' = create, overlapped' = overlapped
    PROVE  StepOn(r, t, v) /\ \A q \in Runs : q # r /\ Running(q) => t \in overlapped \/ run[q].table # t
<1>1. create[t].at = "done"
  BY DEF KeptInv, Begun, Running
<1>2. \A q \in Runs : q # r /\ Running(q) /\ run[q].table = t => t \in overlapped
  BY DEF KeptInv, Alone
<1>3. \A c \in Tables : create[c].at = "empty" /\ Head(create[c].evict) = t => t \in overlapped
  BY DEF KeptInv, Alone
<1> QED
  BY <1>1, <1>2, <1>3 DEF StepOn

(* What belongs to a table after a step of a run that leaves the entries.  *)
LEMMA OwningStays ==
    ASSUME KeptInv, NEW r \in Runs, NEW t \in Tables, NEW v \in RunRecords, StepOn(r, t, v), OnlyOf(t),
           \A o \in Owners : cache'[t] = o => BelongsTo(o, t)',
           \A o, p \in Owners :
               entry'[o].rows = p => entry[o].rows = p \/ p = o \/ (BelongsTo(o, t)' /\ BelongsTo(p, t)'),
           \A o \in Owners : v.at = "dispatch" /\ v.of = o => BelongsTo(o, t)',
           \A o \in Owners : v.at \in {"edit", "written"} /\ v.into = o => BelongsTo(o, t)'
    PROVE  Owning'
<1>1. run'[r] = v /\ (\A q \in Runs : q # r => run'[q] = run[q]) /\ RunsGoOn
  BY OthersStay
<1>2. Owning
  BY DEF KeptInv
<1>3. \A o \in Owners : \A x \in Tables : BelongsTo(o, x) => BelongsTo(o, x)'
  BY <1>1, BelongingStays
<1>4. \A x \in Tables, o \in Owners : cache'[x] = o => create'[x].at = "done" /\ BelongsTo(o, x)'
  <2> SUFFICES ASSUME NEW x \in Tables, NEW o \in Owners, cache'[x] = o
               PROVE  create'[x].at = "done" /\ BelongsTo(o, x)'
    OBVIOUS
  <2>1. CASE x = t
    BY <2>1 DEF StepOn
  <2>2. CASE x # t
    <3>1. cache[x] = o
      BY <2>2 DEF OnlyOf
    <3>2. create[x].at = "done" /\ BelongsTo(o, x)
      BY <1>2, <3>1 DEF Owning
    <3> QED
      BY <1>3, <3>2 DEF StepOn
  <2> QED
    BY <2>1, <2>2
<1>5. \A o, p \in Owners : entry'[o].rows = p => p = o \/ \E x \in Tables : BelongsTo(o, x)' /\ BelongsTo(p, x)'
  <2> SUFFICES ASSUME NEW o \in Owners, NEW p \in Owners, entry[o].rows = p, p # o
               PROVE  \E x \in Tables : BelongsTo(o, x)' /\ BelongsTo(p, x)'
    OBVIOUS
  <2>1. PICK x \in Tables : BelongsTo(o, x) /\ BelongsTo(p, x)
    BY <1>2 DEF Owning
  <2> QED
    BY <1>3, <2>1
<1>6. ASSUME NEW q \in Runs, NEW o \in Owners
      PROVE  /\ run'[q].at = "dispatch" /\ run'[q].of = o => BelongsTo(o, run[q].table)' 
             /\ run'[q].at \in {"edit", "written"} /\ run'[q].into = o => BelongsTo(o, run[q].table)'
  <2>1. CASE q = r
    <3>1. run'[q] = v /\ run'[q].table = t
      BY <1>1, <2>1 DEF StepOn
    <3>2. BelongsTo(o, t)' => BelongsTo(o, run[q].table)'
      BY <3>1 DEF BelongsTo
    <3> QED
      BY <3>1, <3>2
  <2>2. CASE q # r
    <3>1. run'[q] = run[q]
      BY <1>1, <2>2
    <3>2. PICK x \in Tables : x = run[q].table
      BY KeptTypes
    <3>3. BelongsTo(o, x)' => BelongsTo(o, run[q].table)'
      BY <3>1, <3>2 DEF BelongsTo
    <3>4. /\ run[q].at = "dispatch" /\ run[q].of = o => BelongsTo(o, x)
          /\ run[q].at \in {"edit", "written"} /\ run[q].into = o => BelongsTo(o, x)
      BY <1>2, <3>2 DEF Owning
    <3> QED
      BY <1>3, <3>1, <3>3, <3>4
  <2> QED
    BY <2>1, <2>2
<1> QED
  BY <1>4, <1>5, <1>6 DEF Owning

LEMMA KeptBegin ==
    ASSUME KeptInv, TablesInv', NEW r \in Runs, NEW t \in Tables, RunBegins(r, t)
    PROVE  KeptInv'
<1>0. /\ cache \in [Tables -> Owners \cup {Nobody}] /\ entry \in [Owners -> [rows : Owners, last : Content]]
      /\ WorkInv
  BY KeptTypes DEF KeptInv, TablesInv
<1>1. PICK v \in RunRecords :
         /\ run[r].at = "idle" /\ create[t].at = "done"
         /\ RunGoes(r, v) /\ v.table = t /\ v.merged = {}
         /\ \/ cache[t] = Nobody /\ v.at = "read"
            \/ /\ cache[t] # Nobody /\ v.at \in {"done", "thrown", "dispatch"}
               /\ v.at = "dispatch" =>
                    /\ v.of = entry[cache[t]].rows
                    /\ v.missing => \A x \in v.matched : array[v.of][x] = {}
  BY <1>0, BeginEffect
<1>2. /\ UNCHANGED <<file, create, cache, array, entry>>
      /\ overlapped' = IF \/ \E x \in Runs : Running(x) /\ run[x].table = t
                          \/ \E c \in Tables : create[c].at = "empty" /\ Head(create[c].evict) = t
                         THEN overlapped \cup {t} ELSE overlapped
  BY DEF RunBegins, BeginRun, KeepTables
<1>3. StepOn(r, t, v)
  BY <1>1, <1>2 DEF StepOn
<1>4. OnlyOf(t)
  BY <1>2 DEF OnlyOf
<1>5. run'[r] = v /\ (\A q \in Runs : q # r => run'[q] = run[q]) /\ RunsGoOn
  BY <1>3, <1>4, OthersStay
<1>6. \A o \in Owners : cache[t] = o => BelongsTo(o, t)
  BY DEF KeptInv, Owning
<1>7. v.at = "dispatch" => \E o, p \in Owners : cache[t] = o /\ entry[o].rows = p /\ v.of = p /\ BelongsTo(p, t)
  <2> SUFFICES ASSUME v.at = "dispatch"
               PROVE  \E o, p \in Owners : cache[t] = o /\ entry[o].rows = p /\ v.of = p /\ BelongsTo(p, t)
    OBVIOUS
  <2>1. PICK o \in Owners : o = cache[t]
    BY <1>0, <1>1
  <2>2. PICK p \in Owners : p = entry[o].rows
    BY <1>0
  <2>3. BelongsTo(p, t)
    BY <1>6, <2>1, <2>2, RowsBelong DEF KeptInv
  <2> QED
    BY <1>1, <2>1, <2>2, <2>3
<1>8. \A o \in Owners : BelongsTo(o, t) => BelongsTo(o, t)'
  BY <1>5, BelongingStays
<1>9. Owning'
  <2>1. \A o \in Owners : cache'[t] = o => BelongsTo(o, t)'
    BY <1>2, <1>6, <1>8
  <2>2. \A o \in Owners : v.at = "dispatch" /\ v.of = o => BelongsTo(o, t)'
    BY <1>7, <1>8
  <2>3. v.at \notin {"edit", "written"}
    BY <1>1
  <2> QED
    BY <1>2, <1>3, <1>4, <2>1, <2>2, <2>3, OwningStays
<1>10. t \notin overlapped' /\ ~Saving(t)' => InSync(t)'
  <2>1. ~Saving(t)' => ~Saving(t)
    BY <1>1, <1>5 DEF Saving
  <2> QED
    BY <1>2, <2>1 DEF KeptInv, Synced, InSync
<1>11. OnItsWay(r)'
  BY <1>1, <1>2, <1>5, <1>7 DEF OnItsWay
<1>12. v.at = "dispatch" /\ v.missing => \A x \in v.matched : array'[v.of][x] = {}
  BY <1>1, <1>2
<1>13. t \notin overlapped' /\ file'[t] # Emptied => \A q \in Runs : run'[q].at = "done" /\ run'[q].table = t =>
         \A x \in run'[q].merged : q \in file'[t].rows[x]
  BY <1>1, <1>2, <1>5 DEF KeptInv, CompletedIsKept
<1> QED
  BY <1>3, <1>4, <1>9, <1>10, <1>11, <1>12, <1>13, RunKept

LEMMA KeptRead ==
    ASSUME KeptInv, TablesInv', NEW r \in Runs, ReadTable(r)
    PROVE  KeptInv'
<1>0. /\ run[r].table \in Tables /\ file \in [Tables -> SwarmFiles] /\ WorkInv
  BY KeptTypes DEF KeptInv, TablesInv
<1>1. PICK t \in Tables, v \in RunRecords :
         /\ t = run[r].table /\ RunGoes(r, v) /\ v.table = t /\ v.merged = {}
         /\ \/ v.at = "thrown"
            \/ v.at = "populate" /\ file[t] # Emptied /\ v.read = file[t].rows
  BY <1>0, ReadEffect
<1>2. run[r].at = "read" /\ UNCHANGED <<file, create, cache, array, entry, overlapped>>
  BY DEF ReadTable, KeepTables
<1>3. StepOn(r, t, v)
  BY <1>1, <1>2, RunningStep DEF Running, Loaded
<1>4. OnlyOf(t)
  BY <1>2 DEF OnlyOf
<1>5. run'[r] = v /\ (\A q \in Runs : q # r => run'[q] = run[q]) /\ RunsGoOn
  BY <1>3, <1>4, OthersStay
<1>6. Owning'
  <2>1. \A o \in Owners : BelongsTo(o, t) => BelongsTo(o, t)'
    BY <1>5, BelongingStays
  <2>2. \A o \in Owners : cache'[t] = o => BelongsTo(o, t)'
    BY <1>2, <2>1 DEF KeptInv, Owning
  <2>3. v.at \notin {"dispatch", "edit", "written"}
    BY <1>1
  <2> QED
    BY <1>2, <1>3, <1>4, <2>2, <2>3, OwningStays
<1>7. t \notin overlapped' /\ ~Saving(t)' => InSync(t)'
  <2>1. ~Saving(t)' => ~Saving(t)
    BY <1>2, <1>5 DEF Saving
  <2> QED
    BY <1>2, <2>1 DEF KeptInv, Synced, InSync
<1>8. OnItsWay(r)'
  <2>1. v.at = "populate" => file'[t] = Holding(v.read)
    <3>1. create[t].at = "done"
      BY <1>1, <1>2 DEF KeptInv, Begun
    <3>2. file[t] # NoFile
      BY <3>1 DEF KeptInv, TablesInv, TablesWritten
    <3>3. v.at = "populate" => file[t] = Holding(file[t].rows)
      BY <1>0, <1>1, <3>2 DEF SwarmFiles, Holding
    <3> QED
      BY <1>1, <1>2, <3>3
  <2> QED
    BY <1>1, <1>5, <2>1 DEF OnItsWay
<1>9. v.at # "dispatch"
  BY <1>1
<1>10. t \notin overlapped' /\ file'[t] # Emptied => \A q \in Runs : run'[q].at = "done" /\ run'[q].table = t =>
         \A x \in run'[q].merged : q \in file'[t].rows[x]
  BY <1>1, <1>2, <1>5 DEF KeptInv, CompletedIsKept
<1> QED
  BY <1>3, <1>4, <1>6, <1>7, <1>8, <1>9, <1>10, RunKept

LEMMA KeptPopulate ==
    ASSUME KeptInv, TablesInv', NEW r \in Runs, Populate(r)
    PROVE  KeptInv'
<1>0. /\ cache \in [Tables -> Owners \cup {Nobody}] /\ entry \in [Owners -> [rows : Owners, last : Content]]
      /\ array \in [Owners -> Content] /\ Owners = Tables \cup Runs /\ Tables \cap Runs = {} /\ WorkInv
      /\ run[r].table \in Tables /\ run[r] \in RunRecords
  BY KeptTypes DEF KeptInv, TablesInv
<1>1. PICK t \in Tables, c \in Content, v \in RunRecords :
         /\ t = run[r].table /\ c = run[r].read /\ RunGoes(r, v) /\ v.table = t /\ v.merged = {}
         /\ v.at \in {"done", "thrown", "dispatch"}
         /\ v.at = "dispatch" => v.of = r /\ (v.missing => \A x \in v.matched : c[x] = {})
  <2>1. run[r].read \in Content
    BY <1>0 DEF RunRecords
  <2> QED
    <3>1. PICK v \in RunRecords :
             /\ RunGoes(r, v) /\ v.table = run[r].table /\ v.merged = {}
             /\ v.at \in {"done", "thrown", "dispatch"}
             /\ v.at = "dispatch" => v.of = r /\ (v.missing => \A x \in v.matched : run[r].read[x] = {})
      BY <1>0, PopulateEffect
    <3> QED
      BY <1>0, <2>1, <3>1
<1>2. /\ run[r].at = "populate" /\ UNCHANGED <<file, create, overlapped>>
      /\ array' = [array EXCEPT ![r] = c] /\ entry' = [entry EXCEPT ![r] = [rows |-> r, last |-> c]]
      /\ cache' = [cache EXCEPT ![t] = r]
  BY <1>1 DEF Populate, KeepTables
<1>3. StepOn(r, t, v)
  BY <1>1, <1>2, RunningStep DEF Running, Loaded
<1>4. /\ r \in Owners /\ array'[r] = c /\ entry'[r].rows = r /\ entry'[r].last = c /\ cache'[t] = r
      /\ \A o \in Owners : o # r => array'[o] = array[o] /\ entry'[o] = entry[o]
      /\ \A x \in Tables : x # t => cache'[x] = cache[x]
  BY <1>0, <1>2
<1>5. run'[r] = v
  BY <1>0, <1>1, OneRunGoes, PopulateEffect, KeptTypes DEF RunGoes
<1>6. BelongsTo(r, t)'
  BY <1>1, <1>5 DEF BelongsTo, Loaded
<1>7. OnlyOf(t)
  BY <1>2, <1>4, <1>6 DEF OnlyOf
<1>8. (\A q \in Runs : q # r => run'[q] = run[q]) /\ RunsGoOn
  BY <1>3, <1>7, OthersStay
<1>9. Owning'
  <2>1. \A o \in Owners : cache'[t] = o => BelongsTo(o, t)'
    BY <1>4, <1>6
  <2>2. \A o, p \in Owners : entry'[o].rows = p => entry[o].rows = p \/ p = o
    BY <1>4
  <2>3. \A o \in Owners : v.at = "dispatch" /\ v.of = o => BelongsTo(o, t)'
    BY <1>1, <1>6
  <2>4. v.at \notin {"edit", "written"}
    BY <1>1
  <2> QED
    BY <1>3, <1>7, <2>1, <2>2, <2>3, <2>4, OwningStays
<1>10. t \notin overlapped => file[t] = Holding(c)
  BY <1>1, <1>2 DEF KeptInv, RunsSynced, OnItsWay
<1>11. t \notin overlapped' => InSync(t)'
  BY <1>2, <1>4, <1>10 DEF InSync
<1>12. OnItsWay(r)'
  BY <1>1, <1>4, <1>5 DEF OnItsWay
<1>13. v.at = "dispatch" /\ v.missing => \A x \in v.matched : array'[v.of][x] = {}
  BY <1>1, <1>4
<1>14. t \notin overlapped' /\ file'[t] # Emptied => \A q \in Runs : run'[q].at = "done" /\ run'[q].table = t =>
         \A x \in run'[q].merged : q \in file'[t].rows[x]
  BY <1>1, <1>2, <1>5, <1>8 DEF KeptInv, CompletedIsKept
<1> QED
  BY <1>3, <1>7, <1>9, <1>11, <1>12, <1>13, <1>14, RunKept

LEMMA KeptAnswer ==
    ASSUME KeptInv, TablesInv', NEW r \in Runs, NEW k \in run[r].calls,
           NEW ans \in AnswersTo(run[r].units[k], Rows), Answer(r, k, ans)
    PROVE  KeptInv'
<1>0. /\ run[r].table \in Tables /\ WorkInv
  BY KeptTypes DEF KeptInv, TablesInv
<1>1. PICK t \in Tables, v \in RunRecords :
         /\ t = run[r].table /\ RunGoes(r, v) /\ run[r].at = "dispatch" /\ v.at = "dispatch"
         /\ v.table = t /\ v.of = run[r].of /\ v.matched = run[r].matched /\ v.missing = run[r].missing
  BY <1>0, AnswerEffect
<1>2. UNCHANGED <<file, create, cache, array, entry, overlapped>>
  BY DEF Answer, KeepTables
<1>3. StepOn(r, t, v)
  BY <1>1, <1>2, RunningStep DEF Running, Loaded
<1>4. OnlyOf(t)
  BY <1>2 DEF OnlyOf
<1>5. run'[r] = v /\ (\A q \in Runs : q # r => run'[q] = run[q]) /\ RunsGoOn
  BY <1>3, <1>4, OthersStay
<1>6. Owning'
  <2>1. \A o \in Owners : BelongsTo(o, t) => BelongsTo(o, t)'
    BY <1>5, BelongingStays
  <2>2. \A o \in Owners : cache'[t] = o => BelongsTo(o, t)'
    BY <1>2, <2>1 DEF KeptInv, Owning
  <2>3. \A o \in Owners : v.of = o => BelongsTo(o, t)'
    BY <1>1, <2>1 DEF KeptInv, Owning
  <2> QED
    BY <1>1, <1>2, <1>3, <1>4, <2>2, <2>3, OwningStays
<1>7. t \notin overlapped' /\ ~Saving(t)' => InSync(t)'
  <2>1. ~Saving(t)' => ~Saving(t)
    BY <1>1, <1>5 DEF Saving
  <2> QED
    BY <1>2, <2>1 DEF KeptInv, Synced, InSync
<1>8. t \notin overlapped' => OnItsWay(r)'
  BY <1>1, <1>2, <1>5 DEF OnItsWay, KeptInv, RunsSynced
<1>9. v.missing /\ t \notin overlapped' => \A x \in v.matched : array'[v.of][x] = {}
  BY <1>1, <1>2 DEF KeptInv, MissingOnly
<1>10. t \notin overlapped' /\ file'[t] # Emptied => \A q \in Runs : run'[q].at = "done" /\ run'[q].table = t =>
         \A x \in run'[q].merged : q \in file'[t].rows[x]
  BY <1>1, <1>2, <1>5 DEF KeptInv, CompletedIsKept
<1> QED
  BY <1>3, <1>4, <1>6, <1>7, <1>8, <1>9, <1>10, RunKept

LEMMA KeptMerge ==
    ASSUME KeptInv, TablesInv', NEW r \in Runs, MergeAndSave(r)
    PROVE  KeptInv'
<1>0. /\ cache \in [Tables -> Owners \cup {Nobody}] /\ entry \in [Owners -> [rows : Owners, last : Content]]
      /\ array \in [Owners -> Content] /\ Nobody \notin Owners /\ WorkInv
      /\ run[r].table \in Tables /\ run[r] \in RunRecords /\ RunsSound(run[r])
  BY KeptTypes DEF KeptInv, TablesInv
<1>1. PICK t \in Tables, w \in Owners, g \in SUBSET Rows :
         t = run[r].table /\ w = run[r].of /\ g = run[r].got /\ run[r].at = "dispatch"
  <2>1. run[r].at = "dispatch" /\ run[r].of \in Owners
    BY <1>0, MergeEffect
  <2>2. run[r].got \in SUBSET Rows
    BY <1>0 DEF RunRecords
  <2> QED
    BY <1>0, <2>1, <2>2
<1>2. PICK c \in Content, v \in RunRecords :
         /\ MergedInto(c, array[w], g, r) /\ array' = [array EXCEPT ![w] = c]
         /\ RunGoes(r, v) /\ v.table = t
         /\ \/ v.at = "thrown" /\ v.merged = {} /\ cache[t] = Nobody /\ entry' = entry
            \/ /\ v.at = "edit" /\ v.into = cache[t] /\ v.into \in Owners /\ v.content = c
               /\ v.prev = entry[v.into].last /\ v.merged = g
               /\ entry' = [entry EXCEPT ![v.into].rows = w]
  <2>1. PICK c \in Content, v \in RunRecords :
           /\ MergedInto(c, array[run[r].of], run[r].got, r) /\ array' = [array EXCEPT ![run[r].of] = c]
           /\ RunGoes(r, v) /\ v.table = run[r].table
           /\ \/ v.at = "thrown" /\ v.merged = {} /\ cache[v.table] = Nobody /\ entry' = entry
              \/ /\ v.at = "edit" /\ v.into = cache[v.table] /\ v.into \in Owners /\ v.content = c
                 /\ v.prev = entry[v.into].last /\ v.merged = run[r].got /\ v.matched = run[r].matched
                 /\ entry' = [entry EXCEPT ![v.into].rows = run[r].of]
    <3>1. \E c \in Content, v \in RunRecords :
                /\ MergedInto(c, array[run[r].of], run[r].got, r) /\ array' = [array EXCEPT ![run[r].of] = c]
                /\ RunGoes(r, v) /\ RunsSound(v) /\ v.table = run[r].table
                /\ \/ v.at = "thrown" /\ v.merged = {} /\ cache[v.table] = Nobody /\ entry' = entry
                   \/ /\ v.at = "edit" /\ v.into = cache[v.table] /\ v.into \in Owners /\ v.content = c
                      /\ v.prev = entry[v.into].last /\ v.merged = run[r].got /\ v.matched = run[r].matched
                      /\ entry' = [entry EXCEPT ![v.into].rows = run[r].of]
      BY <1>0, MergeEffect, Zenon
    <3> QED
      BY <3>1, Zenon
  <2> QED
    BY <1>1, <2>1
<1>3. UNCHANGED <<file, create, cache, overlapped>>
  BY DEF MergeAndSave, KeepTables
<1>4. StepOn(r, t, v) /\ \A q \in Runs : q # r /\ Running(q) => t \in overlapped \/ run[q].table # t
  BY <1>1, <1>2, <1>3, RunningStep DEF Running, Loaded
<1>5. BelongsTo(w, t) /\ \A o \in Owners : cache[t] = o => BelongsTo(o, t)
  BY <1>1 DEF KeptInv, Owning
<1>6. run'[r] = v /\ \A q \in Runs : q # r => run'[q] = run[q]
  BY <1>2, KeptTypes DEF RunGoes
<1>7. RunsGoOn
  BY <1>1, <1>2, <1>6 DEF RunsGoOn, Loaded
<1>8. BelongsTo(w, t)' /\ \A o \in Owners : cache[t] = o => BelongsTo(o, t)'
  BY <1>5, <1>7, BelongingStays
<1>9. /\ array'[w] = c /\ (\A o \in Owners : o # w => array'[o] = array[o])
      /\ \A o \in Owners : entry'[o].last = entry[o].last
      /\ \A o \in Owners : entry'[o] = entry[o] \/ (o = v.into /\ o = cache[t] /\ entry'[o].rows = w)
      /\ v.at = "edit" => entry'[v.into].rows = w
  BY <1>0, <1>2, SMTT(30)
<1>10. OnlyOf(t)
  <2>1. \A o \in Owners : ~BelongsTo(o, t)' => o # w /\ entry'[o] = entry[o]
    BY <1>8, <1>9
  <2> QED
    BY <1>3, <1>9, <2>1 DEF OnlyOf
<1>11. Owning'
  <2>1. \A o \in Owners : cache'[t] = o => BelongsTo(o, t)'
    BY <1>3, <1>8
  <2>2. \A o, p \in Owners : entry'[o].rows = p => entry[o].rows = p \/ (BelongsTo(o, t)' /\ BelongsTo(p, t)')
    BY <1>8, <1>9
  <2>3. v.at # "dispatch" /\ \A o \in Owners : v.at = "edit" /\ v.into = o => BelongsTo(o, t)'
    BY <1>2, <1>8
  <2>4. v.at # "written"
    BY <1>2
  <2> QED
    BY <1>4, <1>10, <2>1, <2>2, <2>3, <2>4, OwningStays
<1>12. t \notin overlapped' /\ ~Saving(t)' => InSync(t)'
  <2> SUFFICES ASSUME ~Saving(t)' PROVE InSync(t)'
    OBVIOUS
  <2>1. v.at # "edit"
    BY <1>2, <1>6 DEF Saving
  <2>2. cache'[t] = Nobody
    BY <1>2, <1>3, <2>1
  <2> QED
    BY <1>0, <2>2 DEF InSync
<1>13. t \notin overlapped' => OnItsWay(r)'
  <2> SUFFICES ASSUME t \notin overlapped, v.at = "edit" PROVE OnItsWay(r)'
    BY <1>2, <1>3, <1>6 DEF OnItsWay
  <2>1. PICK e \in Owners : e = v.into /\ cache[t] = e /\ entry[e].rows = w
    <3>1. \E o \in Owners : cache[t] = o /\ entry[o].rows = w
      BY <1>1 DEF KeptInv, RunsSynced, OnItsWay
    <3> QED
      BY <1>2, <3>1
  <2>2. ~Saving(t)
    BY <1>1, <1>4 DEF Saving, Running
  <2>3. file[t] = Holding(entry[e].last) /\ array[w] = entry[e].last
    BY <2>1, <2>2 DEF KeptInv, Synced, InSync
  <2>4. \A x \in Rows : c[x] = IF x \in g THEN array[w][x] \cup {r} ELSE array[w][x]
    BY <1>2 DEF MergedInto
  <2>5. (\A x \in g : r \in c[x]) /\ Grows(array[w], c)
    BY <1>1, <2>4 DEF Grows
  <2>6. v.content = c /\ v.prev = array[w] /\ v.merged = g
    BY <1>2, <2>1, <2>3
  <2>7. entry'[e].rows = w /\ entry'[e].last = v.prev /\ array'[w] = v.content /\ file'[t] = Holding(v.prev)
    BY <1>3, <1>9, <2>1, <2>3, <2>6
  <2> QED
    BY <1>2, <1>3, <1>6, <2>1, <2>5, <2>6, <2>7 DEF OnItsWay
<1>14. v.at # "dispatch" /\ v.at # "done"
  BY <1>2
<1>15. t \notin overlapped' /\ file'[t] # Emptied => \A q \in Runs : run'[q].at = "done" /\ run'[q].table = t =>
         \A x \in run'[q].merged : q \in file'[t].rows[x]
  BY <1>3, <1>6, <1>14 DEF KeptInv, CompletedIsKept
<1> QED
  BY <1>4, <1>10, <1>11, <1>12, <1>13, <1>14, <1>15, RunKept

LEMMA KeptEdit ==
    ASSUME KeptInv, TablesInv', NEW r \in Runs, EditFile(r)
    PROVE  KeptInv'
<1>0. /\ file \in [Tables -> SwarmFiles] /\ WorkInv /\ run[r].table \in Tables
      /\ run[r] \in RunRecords /\ RunsSound(run[r])
  BY KeptTypes DEF KeptInv, TablesInv
<1>1. PICK t \in Tables, e \in Owners, c \in Content, p \in Content :
         t = run[r].table /\ e = run[r].into /\ c = run[r].content /\ p = run[r].prev /\ run[r].at = "edit"
  BY <1>0 DEF EditFile, RunsSound, RunRecords
<1>2. PICK v \in RunRecords :
         /\ RunGoes(r, v) /\ v.at = "written" /\ v.table = t /\ v.into = e /\ v.content = c
         /\ v.merged = run[r].merged
  <2>1. PICK v \in RunRecords :
           /\ RunGoes(r, v) /\ v.at = "written"
           /\ v.table = run[r].table /\ v.into = run[r].into /\ v.content = run[r].content
           /\ v.merged = run[r].merged
    BY <1>0, EditEffect
  <2> QED
    BY <1>1, <2>1
<1>3. /\ UNCHANGED <<create, cache, array, entry, overlapped>>
      /\ file' = IF file[t] = Holding(p) THEN [file EXCEPT ![t] = Holding(c)] ELSE file
  BY <1>1 DEF EditFile
<1>4. StepOn(r, t, v) /\ \A q \in Runs : q # r /\ Running(q) => t \in overlapped \/ run[q].table # t
  BY <1>1, <1>2, <1>3, RunningStep DEF Running, Loaded
<1>5. \A x \in Tables : x # t => file'[x] = file[x]
  BY <1>0, <1>3
<1>6. OnlyOf(t)
  BY <1>3, <1>5 DEF OnlyOf
<1>7. run'[r] = v /\ (\A q \in Runs : q # r => run'[q] = run[q]) /\ RunsGoOn
  BY <1>4, <1>6, OthersStay
<1>8. Owning'
  <2>1. \A o \in Owners : BelongsTo(o, t) => BelongsTo(o, t)'
    BY <1>7, BelongingStays
  <2>2. \A o \in Owners : cache'[t] = o => BelongsTo(o, t)'
    BY <1>3, <2>1 DEF KeptInv, Owning
  <2>3. \A o \in Owners : v.into = o => BelongsTo(o, t)'
    BY <1>1, <1>2, <2>1 DEF KeptInv, Owning
  <2> QED
    BY <1>2, <1>3, <1>4, <1>6, <2>2, <2>3, OwningStays
<1>9. Saving(t)'
  BY <1>2, <1>7 DEF Saving
<1>10. t \notin overlapped =>
         /\ cache[t] = e /\ array[entry[e].rows] = c /\ (\A x \in run[r].merged : r \in c[x])
         /\ file[t] = Holding(p) /\ Grows(p, c)
  BY <1>1 DEF KeptInv, RunsSynced, OnItsWay
<1>11. t \notin overlapped => file'[t] = Holding(c)
  BY <1>0, <1>3, <1>10
<1>12. t \notin overlapped' => OnItsWay(r)'
  BY <1>2, <1>3, <1>7, <1>10, <1>11 DEF OnItsWay
<1>13. t \notin overlapped' /\ file'[t] # Emptied => \A q \in Runs : run'[q].at = "done" /\ run'[q].table = t =>
         \A x \in run'[q].merged : q \in file'[t].rows[x]
  <2> SUFFICES ASSUME t \notin overlapped, NEW q \in Runs, run'[q].at = "done", run'[q].table = t,
                      NEW x \in run'[q].merged
               PROVE  q \in file'[t].rows[x]
    BY <1>3
  <2>1. q # r /\ run'[q] = run[q]
    BY <1>2, <1>7
  <2>2. Holding(p) # Emptied /\ Holding(p).rows = p /\ Holding(c).rows = c
    BY DEF Holding, Emptied
  <2>3. q \in p[x]
    BY <1>10, <2>1, <2>2 DEF KeptInv, CompletedIsKept
  <2>4. x \in Rows
    <3>1. run[q] \in RunRecords
      BY KeptTypes
    <3> QED
      BY <2>1, <3>1 DEF RunRecords
  <2>5. q \in c[x]
    BY <1>10, <2>3, <2>4 DEF Grows
  <2> QED
    BY <1>11, <2>2, <2>5
<1> QED
  BY <1>2, <1>4, <1>6, <1>8, <1>9, <1>12, <1>13, RunKept

LEMMA KeptRememberSave ==
    ASSUME KeptInv, TablesInv', NEW r \in Runs, RememberSave(r)
    PROVE  KeptInv'
<1>0. /\ entry \in [Owners -> [rows : Owners, last : Content]] /\ WorkInv /\ run[r].table \in Tables
      /\ run[r] \in RunRecords /\ RunsSound(run[r])
  BY KeptTypes DEF KeptInv, TablesInv
<1>1. PICK t \in Tables, e \in Owners, c \in Content :
         t = run[r].table /\ e = run[r].into /\ c = run[r].content /\ run[r].at = "written"
  BY <1>0 DEF RememberSave, RunsSound, RunRecords
<1>2. PICK v \in RunRecords :
         /\ RunGoes(r, v) /\ v.at = "done" /\ v.table = t /\ v.merged = run[r].merged
         /\ entry' = [entry EXCEPT ![e].last = c]
  <2>1. PICK v \in RunRecords :
           /\ RunGoes(r, v) /\ v.at = "done" /\ v.table = run[r].table /\ v.merged = run[r].merged
           /\ entry' = [entry EXCEPT ![run[r].into].last = run[r].content]
    BY <1>0, RememberEffect
  <2> QED
    BY <1>1, <2>1
<1>3. UNCHANGED <<file, create, cache, array, overlapped>>
  BY DEF RememberSave, KeepTables
<1>4. StepOn(r, t, v) /\ \A q \in Runs : q # r /\ Running(q) => t \in overlapped \/ run[q].table # t
  BY <1>1, <1>2, <1>3, RunningStep DEF Running, Loaded
<1>5. BelongsTo(e, t)
  BY <1>1 DEF KeptInv, Owning
<1>6. run'[r] = v /\ \A q \in Runs : q # r => run'[q] = run[q]
  BY <1>2, KeptTypes DEF RunGoes
<1>7. RunsGoOn
  BY <1>1, <1>2, <1>6 DEF RunsGoOn, Loaded
<1>8. \A o \in Owners : BelongsTo(o, t) => BelongsTo(o, t)'
  BY <1>7, BelongingStays
<1>9. /\ \A o \in Owners : o # e => entry'[o] = entry[o]
      /\ \A o \in Owners : entry'[o].rows = entry[o].rows
      /\ entry'[e].last = c
  BY <1>0, <1>2
<1>10. OnlyOf(t)
  BY <1>3, <1>5, <1>8, <1>9 DEF OnlyOf
<1>11. Owning'
  <2>1. \A o \in Owners : cache'[t] = o => BelongsTo(o, t)'
    BY <1>3, <1>8 DEF KeptInv, Owning
  <2>2. v.at \notin {"dispatch", "edit", "written"}
    BY <1>2
  <2> QED
    BY <1>4, <1>9, <1>10, <2>1, <2>2, OwningStays
<1>12. t \notin overlapped =>
         /\ cache[t] = e /\ array[entry[e].rows] = c /\ (\A x \in run[r].merged : r \in c[x])
         /\ file[t] = Holding(c)
  BY <1>1 DEF KeptInv, RunsSynced, OnItsWay
<1>13. t \notin overlapped' => InSync(t)'
  BY <1>3, <1>9, <1>12 DEF InSync
<1>14. OnItsWay(r)'
  BY <1>2, <1>6 DEF OnItsWay
<1>15. t \notin overlapped' /\ file'[t] # Emptied => \A q \in Runs : run'[q].at = "done" /\ run'[q].table = t =>
         \A x \in run'[q].merged : q \in file'[t].rows[x]
  <2> SUFFICES ASSUME t \notin overlapped, file[t] # Emptied, NEW q \in Runs, run'[q].at = "done", run'[q].table = t,
                      NEW x \in run'[q].merged
               PROVE  q \in file[t].rows[x]
    BY <1>3
  <2>1. CASE q = r
    <3>1. Holding(c).rows = c
      BY DEF Holding
    <3> QED
      BY <1>2, <1>6, <1>12, <2>1, <3>1
  <2>2. CASE q # r
    BY <1>6, <2>2 DEF KeptInv, CompletedIsKept
  <2> QED
    BY <2>1, <2>2
<1>16. v.at # "dispatch"
  BY <1>2
<1> QED
  BY <1>4, <1>10, <1>11, <1>13, <1>14, <1>15, <1>16, RunKept

LEMMA KeptRuns ==
    ASSUME KeptInv, TablesInv', NEW r \in Runs, RunStep(r) \/ \E t \in Tables : RunBegins(r, t)
    PROVE  KeptInv'
<1>1. CASE \E t \in Tables : RunBegins(r, t)
  BY <1>1, KeptBegin
<1>2. CASE \E k \in run[r].calls : \E ans \in AnswersTo(run[r].units[k], Rows) : Answer(r, k, ans)
  <2>1. PICK k \in run[r].calls : \E ans \in AnswersTo(run[r].units[k], Rows) : Answer(r, k, ans)
    BY <1>2
  <2>2. PICK ans \in AnswersTo(run[r].units[k], Rows) : Answer(r, k, ans)
    BY <2>1
  <2> QED
    BY <2>2, KeptAnswer
<1> QED
  BY <1>1, <1>2, KeptRead, KeptPopulate, KeptMerge, KeptEdit, KeptRememberSave DEF RunStep

LEMMA KeptSession ==
    ASSUME KeptInv, TablesInv', NewSession
    PROVE  KeptInv'
<1>0. WorkInv /\ \A r \in Runs : run[r].table \in Tables
  BY KeptTypes DEF KeptInv, TablesInv
<1>1. /\ UNCHANGED <<file, overlapped>> /\ cache' = [t \in Tables |-> Nobody]
      /\ array' = [o \in Owners |-> Fresh] /\ entry' = [o \in Owners |-> [rows |-> o, last |-> Fresh]]
  BY DEF NewSession
<1>2. /\ \A t \in Tables : create'[t].at \notin {"empty", "remember"}
      /\ \A t \in Tables : create[t].at = "done" => create'[t].at = "done"
  <2>1. PICK c : At(c, "lost")
    BY DEF At
  <2>2. PICK a \in CreateSteps : a = "lost"
    BY DEF CreateSteps
  <2>3. c.at = "lost"
    BY <2>1, <2>2, AtIs
  <2>4. create' = [t \in Tables |-> IF create[t].at \in {"idle", "done"} THEN create[t] ELSE c]
    BY <2>1 DEF NewSession, At
  <2> QED
    BY <2>3, <2>4
<1>3. \A r \in Runs :
        \/ run'[r] = run[r] /\ run[r].at \in {"idle", "done", "thrown"}
        \/ run[r].at # "idle" /\ run'[r].at = "thrown" /\ run'[r].table = run[r].table
  BY <1>0, SessionEffect
<1>4. Nobody \notin Owners /\ Owners = Tables \cup Runs
  BY KeptTypes
<1>5. Begun'
  BY <1>0, <1>2, <1>3 DEF KeptInv, Begun
<1>6. Owning'
  BY <1>1, <1>3, <1>4 DEF Owning
<1>7. Untouched'
  BY <1>1, <1>2, <1>4 DEF Untouched
<1>8. Alone' /\ Pending'
  BY <1>2, <1>3 DEF Alone, Pending, Running
<1>9. Synced'
  BY <1>1, <1>4 DEF Synced, InSync
<1>10. RunsSynced'
  BY <1>3 DEF RunsSynced, OnItsWay
<1>11. MissingOnly'
  BY <1>3 DEF MissingOnly
<1>12. CompletedIsKept'
  BY <1>1, <1>3 DEF KeptInv, CompletedIsKept
<1> QED
  BY <1>5, <1>6, <1>7, <1>8, <1>9, <1>10, <1>11, <1>12 DEF KeptInv

LEMMA KeptInit == Init => KeptInv
<1> SUFFICES ASSUME Init PROVE KeptInv
  OBVIOUS
<1>1. TablesInv
  BY TablesInit
<1>2. \A t \in Tables : create[t].at = "idle"
  <2>1. NoCreate.at = "idle"
    BY NoCreateIsTyped, Zenon
  <2> QED
    BY <2>1 DEF Init
<1>3. \A r \in Runs : run[r].at = "idle"
  <2>1. NoRun.at = "idle"
    BY DEF NoRun
  <2> QED
    BY <2>1 DEF Init
<1>4. /\ cache = [t \in Tables |-> Nobody] /\ array = [o \in Owners |-> Fresh]
      /\ entry = [o \in Owners |-> [rows |-> o, last |-> Fresh]]
  BY DEF Init
<1>5. Nobody \notin Owners /\ Owners = Tables \cup Runs
  BY NamesApart DEF Owners
<1>6. Begun
  BY <1>3 DEF Begun
<1>7. Owning
  BY <1>3, <1>4, <1>5 DEF Owning
<1>8. Untouched
  BY <1>2, <1>4, <1>5 DEF Untouched
<1>9. Alone /\ Pending
  BY <1>2, <1>3 DEF Alone, Pending, Running
<1>10. Synced
  BY <1>4, <1>5 DEF Synced, InSync
<1>11. RunsSynced /\ MissingOnly /\ CompletedIsKept
  BY <1>3 DEF RunsSynced, OnItsWay, MissingOnly, CompletedIsKept
<1> QED
  BY <1>1, <1>6, <1>7, <1>8, <1>9, <1>10, <1>11 DEF KeptInv

LEMMA KeptStays == KeptInv /\ [Next]_vars => KeptInv'
<1> SUFFICES ASSUME KeptInv, [Next]_vars PROVE KeptInv'
  OBVIOUS
<1>0. TablesInv'
  BY TablesStay DEF KeptInv
<1>1. CASE UNCHANGED vars
  <2>1. UNCHANGED <<file, cache, entry, array, run, overlapped, create>>
    BY <1>1 DEF vars
  <2> QED
    BY <1>0, <2>1, KeptWithCreates
<1>2. CASE \E t \in Tables : BeginCreate(t) \/ CreateStep(t)
  BY <1>0, <1>2, KeptCreates
<1>3. CASE \E r \in Runs : RunStep(r) \/ \E t \in Tables : RunBegins(r, t)
  BY <1>0, <1>3, KeptRuns
<1>4. CASE NewSession
  BY <1>0, <1>4, KeptSession
<1> QED
  BY <1>1, <1>2, <1>3, <1>4, Zenon DEF Next, RunBegins

(* What a finished run reports as completed is in the table's file, and    *)
(* stays there over later runs and sessions, until the table is evicted.   *)
THEOREM CompletedStaysKept == Spec => []CompletedIsKept
<1>1. Init => KeptInv
  BY KeptInit
<1>2. KeptInv /\ [Next]_vars => KeptInv'
  BY KeptStays
<1>3. KeptInv => CompletedIsKept
  BY DEF KeptInv
<1> QED
  BY <1>1, <1>2, <1>3, PTL DEF Spec

(* A retry with exists: false gives results only to rows that had none.    *)
THEOREM RetriesTouchOnlyMissing == Spec => RetryTouchesOnlyMissing
<1>1. Init => KeptInv
  BY KeptInit
<1>2. KeptInv /\ [Next]_vars => KeptInv'
  BY KeptStays
<1> DEFINE Step == \A r \in Runs, o \in Owners, x \in Rows :
                     run[r].missing /\ r \in array'[o][x] \ array[o][x] =>
                        array[o][x] = {} \/ run[r].table \in overlapped
<1>3. KeptInv /\ [Next]_vars => Step
  <2> SUFFICES ASSUME KeptInv, [Next]_vars, NEW r \in Runs, NEW o \in Owners, NEW x \in Rows,
                      run[r].missing, r \in array'[o][x], r \notin array[o][x]
               PROVE  array[o][x] = {} \/ run[r].table \in overlapped
    OBVIOUS
  <2>0. array \in [Owners -> Content] /\ WorkInv /\ array' # array
    BY KeptTypes DEF KeptInv, TablesInv
  <2>1. CASE \E q \in Runs : Populate(q)
    <3>1. PICK q \in Runs : Populate(q)
      BY <2>1
    <3>2. PICK c : array' = [array EXCEPT ![q] = c]
      BY <3>1 DEF Populate
    <3>3. o = q
      BY <2>0, <3>2
    <3>4. array[q] = Fresh
      BY <3>1 DEF KeptInv, Untouched, Loaded, Populate
    <3> QED
      BY <3>3, <3>4 DEF Fresh
  <2>2. CASE \E q \in Runs : MergeAndSave(q)
    <3>1. PICK q \in Runs : MergeAndSave(q)
      BY <2>2
    <3>2. /\ run[q].at = "dispatch"
          /\ \E c \in Content : /\ MergedInto(c, array[run[q].of], run[q].got, q)
                                /\ array' = [array EXCEPT ![run[q].of] = c]
      <4>1. PICK c \in Content, v \in RunRecords :
               /\ MergedInto(c, array[run[q].of], run[q].got, q) /\ array' = [array EXCEPT ![run[q].of] = c]
               /\ RunGoes(q, v) /\ RunsSound(v) /\ v.table = run[q].table
               /\ \/ v.at = "thrown" /\ v.merged = {} /\ cache[v.table] = Nobody /\ entry' = entry
                  \/ /\ v.at = "edit" /\ v.into = cache[v.table] /\ v.into \in Owners /\ v.content = c
                     /\ v.prev = entry[v.into].last /\ v.merged = run[q].got /\ v.matched = run[q].matched
                     /\ entry' = [entry EXCEPT ![v.into].rows = run[q].of]
        BY <2>0, <3>1, MergeEffect, Zenon
      <4>2. run[q].at = "dispatch"
        BY <3>1 DEF MergeAndSave
      <4> QED
        BY <4>1, <4>2
    <3>3. PICK c \in Content :
             /\ MergedInto(c, array[run[q].of], run[q].got, q)
             /\ array' = [array EXCEPT ![run[q].of] = c]
      BY <3>2
    <3>4. o = run[q].of
      BY <2>0, <3>3
    <3>5. r = q /\ x \in run[q].got
      BY <2>0, <3>3, <3>4 DEF MergedInto
    <3>6. x \in run[q].matched
      BY <2>0, <3>2, <3>5 DEF WorkInv, RunsSound, AtWork
    <3> QED
      BY <3>2, <3>4, <3>5, <3>6 DEF KeptInv, MissingOnly
  <2>3. CASE NewSession
    BY <2>3 DEF NewSession, Fresh
  <2>4. CASE \E t \in Tables : BeginCreate(t) \/ CreateStep(t)
    BY <2>0, <2>4 DEF BeginCreate, CreateStep, ListForEviction, ForgetTable, EmptyFile, Number, WriteFile,
          Remember, KeepRuns
  <2>5. CASE \E q \in Runs : RunStep(q) \/ \E t \in Tables : RunBegins(q, t)
    <3>1. PICK q \in Runs : RunStep(q) \/ \E t \in Tables : RunBegins(q, t)
      BY <2>5
    <3>2. array' = array \/ Populate(q) \/ MergeAndSave(q)
      BY <3>1 DEF RunStep, RunBegins, BeginRun, ReadTable, EditFile, RememberSave, Answer
    <3> QED
      BY <2>0, <2>1, <2>2, <3>2
  <2>6. CASE UNCHANGED vars
    BY <2>0, <2>6 DEF vars
  <2> QED
    BY <2>3, <2>4, <2>5, <2>6, Zenon DEF Next, RunBegins
<1> QED
  BY <1>1, <1>2, <1>3, PTL DEF Spec, RetryTouchesOnlyMissing

-----------------------------------------------------------------------------
(* The rows of a run, and what is said of them at its end.                 *)
LEMMA WorkAsksOnce == WorkInv => RowsAskedOnce
<1> SUFFICES ASSUME WorkInv, NEW r \in Runs, run[r].at = "dispatch", NEW x \in Rows
             PROVE  LET u == run[r].units
                        places(y) == {p \in (1..Len(u)) \X (1..MaxBatchSize) :
                                        p[2] <= Len(u[p[1]]) /\ u[p[1]][p[2]] = y}
                    IN \/ Cardinality(places(x)) = 1
                       \/ places(x) = {} /\ x \notin run[r].matched \ run[r].lacks
  BY DEF RowsAskedOnce
<1>1. PICK v \in RunRecords : v = run[r] /\ AtWork(v)
  BY DEF WorkInv, RunsTyped, RunsSound
<1>2. PICK u, m, lacks, G : u = v.units /\ m = v.matched /\ lacks = v.lacks /\ G = Asked(u)
  OBVIOUS
<1>3. u \in Seq(Seq(m)) /\ CutsUp(u, G) /\ G \subseteq m /\ m \ G \subseteq lacks
  BY <1>1, <1>2 DEF AtWork, Dispatched
<1>4. PICK n : n = Len(u)
  OBVIOUS
<1>5. \A y : y \in G <=> \E k \in 1..n : \E i \in 1..Len(u[k]) : u[k][i] = y
  <2>1. \A y : y \in Asked(u) <=> \E k \in 1..Len(u) : \E i \in 1..Len(u[k]) : u[k][i] = y
    BY <1>3, AskedAre, Zenon
  <2> QED
    BY <1>2, <1>4, <2>1
<1>6. /\ \A k \in 1..n : Len(u[k]) \in 1..MaxBatchSize
      /\ \A k, l \in 1..n : \A i \in 1..Len(u[k]), j \in 1..Len(u[l]) : u[k][i] = u[l][j] => k = l /\ i = j
  BY <1>3, <1>4 DEF CutsUp
<1>7. PICK P : P = {p \in (1..n) \X (1..MaxBatchSize) : p[2] <= Len(u[p[1]]) /\ u[p[1]][p[2]] = x}
  OBVIOUS
<1>8. CASE x \in G
  <2>1. PICK k \in 1..n : \E i \in 1..Len(u[k]) : u[k][i] = x
    BY <1>5, <1>8
  <2>2. PICK i \in 1..Len(u[k]) : u[k][i] = x
    BY <2>1
  <2>3. i \in 1..MaxBatchSize /\ i <= Len(u[k])
    BY <1>6, LimitsAssumption
  <2>4. <<k, i>> \in P
    BY <1>7, <2>2, <2>3
  <2>5. ASSUME NEW p \in P PROVE p = <<k, i>>
    <3>1. PICK l \in 1..n, j \in 1..MaxBatchSize : p = <<l, j>> /\ j <= Len(u[l]) /\ u[l][j] = x
      BY <1>7
    <3>2. j \in 1..Len(u[l])
      BY <1>6, <3>1
    <3>3. l = k /\ j = i
      BY <1>6, <2>2, <3>1, <3>2
    <3> QED
      BY <3>1, <3>3
  <2>6. P = {<<k, i>>}
    BY <2>4, <2>5
  <2>7. Cardinality(P) = 1
    BY <2>6, FS_Singleton
  <2> QED
    BY <1>1, <1>2, <1>4, <1>7, <2>7
<1>9. CASE x \notin G
  <2>1. P = {}
    <3> SUFFICES ASSUME NEW p \in P PROVE FALSE
      OBVIOUS
    <3>1. PICK l \in 1..n, j \in 1..MaxBatchSize : p = <<l, j>> /\ j <= Len(u[l]) /\ u[l][j] = x
      BY <1>7
    <3>2. j \in 1..Len(u[l])
      BY <1>6, <3>1
    <3> QED
      BY <1>5, <1>9, <3>1, <3>2
  <2>2. x \notin m \ lacks
    BY <1>3, <1>9
  <2> QED
    BY <1>1, <1>2, <1>4, <1>7, <2>1, <2>2
<1> QED
  BY <1>8, <1>9

LEMMA WorkIsDealtOut == WorkInv => AutoBatchesFit
<1> SUFFICES ASSUME WorkInv, NEW r \in Runs, run[r].at = "dispatch", run[r].how = NoSize,
                    Cardinality(run[r].matched) <= run[r].width * MaxBatchSize
             PROVE  Len(run[r].units) <= run[r].width
  BY DEF AutoBatchesFit
<1>1. FewCalls(run[r].units, run[r].width, run[r].how, run[r].matched)
  BY DEF WorkInv, RunsSound, AtWork
<1> QED
  BY <1>1 DEF FewCalls

LEMMA WorkAddsUp == WorkInv => SummaryAddsUp
  BY DEF WorkInv, RunsSound, Accounted, SummaryAddsUp

(* A run on a table asks for every row once, in no more calls than it may, *)
(* goes on to the end, accounts for every row and keeps what it was        *)
(* answered, over retries, later sessions and the eviction of older tables.*)
THEOREM ResultsStayKept == Spec => ResultsAreKept
<1>1. Spec => []WorkInv
  <2>1. Init => WorkInv
    BY WorkInit
  <2>2. WorkInv /\ [Next]_vars => WorkInv'
    BY WorkStays
  <2> QED
    BY <2>1, <2>2, PTL DEF Spec
<1>2. WorkInv => RowsAskedOnce /\ AutoBatchesFit /\ SummaryAddsUp
  BY WorkAsksOnce, WorkIsDealtOut, WorkAddsUp
<1>3. Spec => [](RowsAskedOnce /\ AutoBatchesFit /\ SummaryAddsUp)
  BY <1>1, <1>2, PTL
<1>4. /\ Spec => []TypeOK
      /\ Spec => []WorkersGoOn
      /\ Spec => []CompletedIsKept
      /\ Spec => RetryTouchesOnlyMissing
      /\ Spec => YoungestSurvive
  BY SwarmIsTyped, WorkersAlwaysGoOn, CompletedStaysKept, RetriesTouchOnlyMissing, TheYoungestSurvive
<1> QED
  BY <1>3, <1>4, PTL DEF ResultsAreKept


-----------------------------------------------------------------------------
(* Filters: what nests how deep, and that the functions on them are the    *)
(* ones their equations say.                                               *)
Simple == Comparisons \cup Presences
Joint(S) == [op : {"and", "or"}, of : Seq(S)]
Nests(N, k) ==
    N = [d \in 0..k |-> IF d = 0 THEN Simple ELSE N[d - 1] \cup Memberships \cup Joint(N[d - 1])]

LEMMA NestsExists ==
    ASSUME NEW n \in Nat
    PROVE  \E N : Nests(N, n)
<1> DEFINE T == {d \in 0..n : \E N : Nests(N, d)}
<1>1. 0 \in T
  <2>1. PICK N : N = [d \in 0..0 |-> Simple]
    OBVIOUS
  <2>2. N = [d \in 0..0 |-> IF d = 0 THEN Simple ELSE N[d - 1] \cup Memberships \cup Joint(N[d - 1])]
    BY <2>1
  <2>3. Nests(N, 0)
    BY <2>2 DEF Nests
  <2> QED
    BY <2>3
<1>2. ASSUME NEW i \in 1..n, i - 1 \in T PROVE i \in T
  <2>1. PICK O : Nests(O, i - 1)
    BY <1>2
  <2> DEFINE Layer(F, d) == IF d = 0 THEN Simple ELSE F[d - 1] \cup Memberships \cup Joint(F[d - 1])
  <2>2. PICK N : N = [d \in 0..i |-> Layer(O, d)]
    OBVIOUS
  <2>3. \A d \in 0..(i - 1) : O[d] = Layer(O, d)
    BY <2>1 DEF Nests
  <2>4. \A d \in 0..(i - 1) : N[d] = O[d]
    <3> HIDE DEF Layer
    <3> QED
      BY <2>2, <2>3
  <2>5. ASSUME NEW d \in 0..i PROVE Layer(O, d) = Layer(N, d)
    <3>1. CASE d = 0
      BY <3>1
    <3>2. CASE d # 0
      <4>1. d - 1 \in 0..(i - 1)
        BY <3>2
      <4>2. N[d - 1] = O[d - 1]
        BY <2>4, <4>1
      <4> QED
        BY <3>2, <4>2
    <3> QED
      BY <3>1, <3>2
  <2>6. N = [d \in 0..i |-> Layer(N, d)]
    <3> HIDE DEF Layer
    <3> QED
      BY <2>2, <2>5
  <2>7. Nests(N, i)
    BY <2>6 DEF Nests
  <2>8. i \in 0..n
    OBVIOUS
  <2> QED
    BY <2>7, <2>8
<1>3. n \in T
  <2>1. \A i \in 1..n : i - 1 \in T => i \in T
    BY <1>2
  <2> HIDE DEF T
  <2>2. \A i \in 0..n : i \in T
    BY <1>1, <2>1, UpTo
  <2> QED
    BY <2>2
<1> QED
  BY <1>3

LEMMA NestedUnfolds ==
    /\ Nested[0] = Simple
    /\ \A d \in 1..MaxNesting : Nested[d] = Nested[d - 1] \cup Memberships \cup Joint(Nested[d - 1])
<1>1. Nested = CHOOSE N : Nests(N, MaxNesting)
  BY DEF Nested, Nests, Simple, Joint
<1>2. Nests(Nested, MaxNesting)
  BY <1>1, NestsExists, FilterAssumption
<1>3. Nested = [d \in 0..MaxNesting |-> IF d = 0 THEN Simple ELSE Nested[d - 1] \cup Memberships \cup Joint(Nested[d - 1])]
  BY <1>2 DEF Nests
<1>4. 0 \in 0..MaxNesting
  BY FilterAssumption
<1>5. Nested[0] = Simple
  BY <1>3, <1>4
<1>6. ASSUME NEW d \in 1..MaxNesting
      PROVE  Nested[d] = Nested[d - 1] \cup Memberships \cup Joint(Nested[d - 1])
  <2>1. d \in 0..MaxNesting /\ d # 0
    BY FilterAssumption
  <2> QED
    BY <1>3, <2>1
<1> QED
  BY <1>5, <1>6

(* What nests less is among what nests more.                               *)
LEMMA NestedAmongFilters == \A d \in 0..MaxNesting : Nested[d] \subseteq Filters
<1> DEFINE T == {d \in 0..MaxNesting : Nested[MaxNesting - d] \subseteq Filters}
<1>1. 0 \in T
  BY FilterAssumption DEF Filters
<1>2. ASSUME NEW i \in 1..MaxNesting, i - 1 \in T PROVE i \in T
  <2>1. PICK d \in 1..MaxNesting : d = MaxNesting - (i - 1)
    BY FilterAssumption
  <2>2. Nested[d - 1] \subseteq Nested[d]
    BY NestedUnfolds
  <2>3. Nested[d] \subseteq Filters
    BY <1>2, <2>1
  <2>4. d - 1 = MaxNesting - i /\ i \in 0..MaxNesting
    BY <2>1, FilterAssumption
  <2> QED
    BY <2>2, <2>3, <2>4
<1>3. \A i \in 0..MaxNesting : i \in T
  <2>1. \A i \in 1..MaxNesting : i - 1 \in T => i \in T
    BY <1>2
  <2> HIDE DEF T
  <2> QED
    BY <1>1, <2>1, FilterAssumption, UpTo
<1>4. ASSUME NEW d \in 0..MaxNesting PROVE Nested[d] \subseteq Filters
  <2>1. PICK i \in 0..MaxNesting : d = MaxNesting - i
    <3>1. MaxNesting - d \in 0..MaxNesting /\ d = MaxNesting - (MaxNesting - d)
      BY FilterAssumption
    <3> QED
      BY <3>1
  <2> QED
    BY <1>3, <2>1
<1> QED
  BY <1>4

(* The shapes a filter has, and how deep its arms nest.                    *)
Shaped(f, d) ==
    \/ f \in Simple
    \/ d > 0 /\ f \in Memberships
    \/ d > 0 /\ f \in Joint(Nested[d - 1])

LEMMA Shapes == \A d \in 0..MaxNesting : \A f \in Nested[d] : Shaped(f, d)
<1> DEFINE T == {d \in 0..MaxNesting : \A f \in Nested[d] : Shaped(f, d)}
<1>1. 0 \in T
  <2>1. 0 \in 0..MaxNesting
    BY FilterAssumption
  <2> QED
    BY <2>1, NestedUnfolds DEF Shaped
<1>2. ASSUME NEW i \in 1..MaxNesting, i - 1 \in T PROVE i \in T
  <2>1. i \in 0..MaxNesting /\ i > 0
    BY FilterAssumption
  <2>2. ASSUME NEW f \in Nested[i] PROVE Shaped(f, i)
    <3>1. CASE f \in Memberships \/ f \in Joint(Nested[i - 1])
      BY <2>1, <3>1 DEF Shaped
    <3>2. CASE f \in Nested[i - 1]
      <4>1. Shaped(f, i - 1)
        BY <1>2, <3>2
      <4>2. CASE f \in Simple \/ f \in Memberships
        BY <2>1, <4>2 DEF Shaped
      <4>3. CASE i - 1 > 0 /\ f \in Joint(Nested[i - 1 - 1])
        <5>1. i - 1 \in 1..MaxNesting
          BY <2>1, <4>3, FilterAssumption
        <5>2. Nested[i - 1 - 1] \subseteq Nested[i - 1]
          BY <5>1, NestedUnfolds
        <5>3. f \in Joint(Nested[i - 1])
          BY <4>3, <5>2 DEF Joint
        <5> QED
          BY <2>1, <5>3 DEF Shaped
      <4> QED
        BY <4>1, <4>2, <4>3 DEF Shaped
    <3> QED
      BY <2>2, <3>1, <3>2, NestedUnfolds
  <2> QED
    BY <2>1, <2>2
<1>3. \A i \in 0..MaxNesting : i \in T
  <2>1. \A i \in 1..MaxNesting : i - 1 \in T => i \in T
    BY <1>2
  <2> HIDE DEF T
  <2> QED
    BY <1>1, <2>1, FilterAssumption, UpTo
<1> QED
  BY <1>3

(* What a filter's shape says of its fields.                               *)
LEMMA ShapesTell ==
    ASSUME NEW d \in 0..MaxNesting, NEW f \in Nested[d]
    PROVE  \/ f.op \in {"equals", "notEquals"} /\ f = Leaf(f.op, f.column, f.value)
              /\ f.column \in Columns /\ f.value \in Values
           \/ f.op = "exists" /\ f = Leaf("exists", f.column, f.value) /\ f.column \in Columns /\ f.value \in BOOLEAN
           \/ f.op = "in" /\ d > 0 /\ f.column \in Columns /\ f.value \in Seq(Values)
           \/ f.op \in {"and", "or"} /\ d > 0 /\ f.of \in Seq(Nested[d - 1])
<1>1. Shaped(f, d)
  BY Shapes
<1> QED
  BY <1>1 DEF Shaped, Simple, Comparisons, Presences, Memberships, Joint, Leaf

(* evaluateFilter on one clause, where h says what its arms come to.       *)
Holds(f, h, r) ==
    CASE f.op = "and" -> \A i \in DOMAIN f.of : h[f.of[i]]
      [] f.op = "or" -> \E i \in DOMAIN f.of : h[f.of[i]]
      [] OTHER -> Matches(f, ReadColumn(r, f.column))

(* The opposite of one clause, where h holds the opposites of its arms.    *)
Turned(f, h) ==
    CASE f.op = "equals" -> Leaf("notEquals", f.column, f.value)
      [] f.op = "notEquals" -> Leaf("equals", f.column, f.value)
      [] f.op = "exists" -> Leaf("exists", f.column, ~f.value)
      [] f.op = "in" -> Combined("and", [i \in DOMAIN f.value |-> Leaf("notEquals", f.column, f.value[i])])
      [] f.op = "and" -> Combined("or", [i \in DOMAIN f.of |-> h[f.of[i]]])
      [] OTHER -> Combined("and", [i \in DOMAIN f.of |-> h[f.of[i]]])

(* Only the arms of a clause are asked for.                                *)
SameArms(f, g, h) ==
    \/ f.op \in {"equals", "notEquals", "exists", "in"}
    \/ \A i \in DOMAIN f.of : g[f.of[i]] = h[f.of[i]]

LEMMA HoldsByArms ==
    ASSUME NEW f, NEW g, NEW h, NEW r, SameArms(f, g, h)
    PROVE  Holds(f, g, r) = Holds(f, h, r)
<1>1. CASE f.op = "and"
  <2>1. (\A i \in DOMAIN f.of : g[f.of[i]]) <=> \A i \in DOMAIN f.of : h[f.of[i]]
    BY <1>1 DEF SameArms
  <2> QED
    BY <1>1, <2>1 DEF Holds
<1>2. CASE f.op = "or"
  <2>1. (\E i \in DOMAIN f.of : g[f.of[i]]) <=> \E i \in DOMAIN f.of : h[f.of[i]]
    BY <1>2 DEF SameArms
  <2> QED
    BY <1>2, <2>1 DEF Holds
<1>3. CASE f.op \notin {"and", "or"}
  BY <1>3 DEF Holds
<1> QED
  BY <1>1, <1>2, <1>3

LEMMA TurnedByArms ==
    ASSUME NEW f, NEW g, NEW h, SameArms(f, g, h)
    PROVE  Turned(f, g) = Turned(f, h)
<1>1. CASE f.op \notin {"equals", "notEquals", "exists", "in"}
  <2>1. [i \in DOMAIN f.of |-> g[f.of[i]]] = [i \in DOMAIN f.of |-> h[f.of[i]]]
    BY <1>1 DEF SameArms
  <2> QED
    BY <1>1, <2>1 DEF Turned
<1>2. CASE f.op \in {"equals", "notEquals", "exists", "in"}
  BY <1>2 DEF Turned
<1> QED
  BY <1>1, <1>2

Evaluates(h, r, S) == h = [f \in S |-> Holds(f, h, r)]
TurnsAll(h, S) == h = [f \in S |-> Turned(f, h)]

LEMMA EvaluateExists ==
    ASSUME NEW r
    PROVE  \E h : Evaluates(h, r, Filters)
<1> DEFINE T == {d \in 0..MaxNesting : \E h : Evaluates(h, r, Nested[d])}
<1>1. 0 \in T
  <2>1. PICK g : g = <<>>
    OBVIOUS
  <2>2. PICK h : h = [f \in Nested[0] |-> Holds(f, g, r)]
    OBVIOUS
  <2>3. 0 \in 0..MaxNesting
    BY FilterAssumption
  <2>4. ASSUME NEW f \in Nested[0] PROVE Holds(f, g, r) = Holds(f, h, r)
    <3>1. SameArms(f, g, h)
      BY <2>3, ShapesTell DEF SameArms
    <3> QED
      BY <3>1, HoldsByArms
  <2>5. h = [f \in Nested[0] |-> Holds(f, h, r)]
    BY <2>2, <2>4
  <2> QED
    BY <2>3, <2>5 DEF Evaluates
<1>2. ASSUME NEW d \in 1..MaxNesting, d - 1 \in T PROVE d \in T
  <2>0. d \in 0..MaxNesting /\ d - 1 \in 0..MaxNesting
    BY FilterAssumption
  <2>1. PICK S, g : S = Nested[d - 1] /\ Evaluates(g, r, S)
    BY <1>2
  <2>2. PICK h : h = [f \in Nested[d] |-> IF f \in S THEN g[f] ELSE Holds(f, g, r)]
    OBVIOUS
  <2>3. S \subseteq Nested[d]
    BY <2>1, NestedUnfolds
  <2>4. \A f \in S : h[f] = g[f]
    BY <2>2, <2>3
  <2>5. ASSUME NEW f \in Nested[d] PROVE Holds(f, g, r) = Holds(f, h, r)
    <3>1. f.op \in {"equals", "notEquals", "exists", "in"} \/ f.of \in Seq(S)
      BY <2>0, <2>1, ShapesTell
    <3>2. SameArms(f, g, h)
      BY <2>4, <3>1 DEF SameArms
    <3> QED
      BY <3>2, HoldsByArms
  <2>6. ASSUME NEW f \in Nested[d] PROVE h[f] = Holds(f, h, r)
    <3>1. h[f] = Holds(f, g, r)
      <4>1. CASE f \in S
        BY <2>1, <2>2, <4>1 DEF Evaluates
      <4>2. CASE f \notin S
        BY <2>2, <4>2
      <4> QED
        BY <4>1, <4>2
    <3> QED
      BY <2>5, <3>1
  <2>7. h = [f \in Nested[d] |-> Holds(f, h, r)]
    BY <2>2, <2>6
  <2> QED
    BY <2>0, <2>7 DEF Evaluates
<1>3. MaxNesting \in T
  <2>1. \A i \in 1..MaxNesting : i - 1 \in T => i \in T
    BY <1>2
  <2> HIDE DEF T
  <2>2. \A i \in 0..MaxNesting : i \in T
    BY <1>1, <2>1, FilterAssumption, UpTo
  <2> QED
    BY <2>2, FilterAssumption
<1> QED
  BY <1>3 DEF Filters

LEMMA OppositeExists == \E h : TurnsAll(h, Filters)
<1> DEFINE T == {d \in 0..MaxNesting : \E h : TurnsAll(h, Nested[d])}
<1>1. 0 \in T
  <2>1. PICK g : g = <<>>
    OBVIOUS
  <2>2. PICK h : h = [f \in Nested[0] |-> Turned(f, g)]
    OBVIOUS
  <2>3. 0 \in 0..MaxNesting
    BY FilterAssumption
  <2>4. ASSUME NEW f \in Nested[0] PROVE Turned(f, g) = Turned(f, h)
    <3>1. SameArms(f, g, h)
      BY <2>3, ShapesTell DEF SameArms
    <3> QED
      BY <3>1, TurnedByArms
  <2>5. h = [f \in Nested[0] |-> Turned(f, h)]
    BY <2>2, <2>4
  <2> QED
    BY <2>3, <2>5 DEF TurnsAll
<1>2. ASSUME NEW d \in 1..MaxNesting, d - 1 \in T PROVE d \in T
  <2>0. d \in 0..MaxNesting /\ d - 1 \in 0..MaxNesting
    BY FilterAssumption
  <2>1. PICK S, g : S = Nested[d - 1] /\ TurnsAll(g, S)
    BY <1>2
  <2>2. PICK h : h = [f \in Nested[d] |-> IF f \in S THEN g[f] ELSE Turned(f, g)]
    OBVIOUS
  <2>3. S \subseteq Nested[d]
    BY <2>1, NestedUnfolds
  <2>4. \A f \in S : h[f] = g[f]
    BY <2>2, <2>3
  <2>5. ASSUME NEW f \in Nested[d] PROVE Turned(f, g) = Turned(f, h)
    <3>1. f.op \in {"equals", "notEquals", "exists", "in"} \/ f.of \in Seq(S)
      BY <2>0, <2>1, ShapesTell
    <3>2. SameArms(f, g, h)
      BY <2>4, <3>1 DEF SameArms
    <3> QED
      BY <3>2, TurnedByArms
  <2>6. ASSUME NEW f \in Nested[d] PROVE h[f] = Turned(f, h)
    <3>1. h[f] = Turned(f, g)
      <4>1. CASE f \in S
        BY <2>1, <2>2, <4>1 DEF TurnsAll
      <4>2. CASE f \notin S
        BY <2>2, <4>2
      <4> QED
        BY <4>1, <4>2
    <3> QED
      BY <2>5, <3>1
  <2>7. h = [f \in Nested[d] |-> Turned(f, h)]
    BY <2>2, <2>6
  <2> QED
    BY <2>0, <2>7 DEF TurnsAll
<1>3. MaxNesting \in T
  <2>1. \A i \in 1..MaxNesting : i - 1 \in T => i \in T
    BY <1>2
  <2> HIDE DEF T
  <2>2. \A i \in 0..MaxNesting : i \in T
    BY <1>1, <2>1, FilterAssumption, UpTo
  <2> QED
    BY <2>2, FilterAssumption
<1> QED
  BY <1>3 DEF Filters

LEMMA Evaluated ==
    ASSUME NEW r, NEW h, h = [f \in Filters |-> EvaluateFilter(f, r)]
    PROVE  \A f \in Filters : h[f] = Holds(f, h, r)
<1>1. PICK e : e = CHOOSE x : Evaluates(x, r, Filters)
  OBVIOUS
<1>2. Evaluates(e, r, Filters)
  BY <1>1, EvaluateExists
<1>3. \A f : EvaluateFilter(f, r) = e[f]
  BY <1>1 DEF EvaluateFilter, Evaluates, Holds
<1>4. e = [f \in Filters |-> e[f]]
  BY <1>2 DEF Evaluates
<1>5. h = e
  BY <1>3, <1>4
<1> QED
  BY <1>2, <1>5 DEF Evaluates

LEMMA Opposed ==
    ASSUME NEW h, h = [f \in Filters |-> Opposite(f)]
    PROVE  \A f \in Filters : h[f] = Turned(f, h)
<1>1. PICK e : e = CHOOSE x : TurnsAll(x, Filters)
  OBVIOUS
<1>2. TurnsAll(e, Filters)
  BY <1>1, OppositeExists
<1>3. ASSUME NEW f PROVE Opposite(f) = e[f]
  <2>1. Opposite(f) = (CHOOSE x : TurnsAll(x, Filters))[f]
    BY DEF Opposite, TurnsAll, Turned
  <2> QED
    BY <1>1, <2>1
<1>4. e = [f \in Filters |-> e[f]]
  BY <1>2 DEF TurnsAll
<1>5. h = e
  BY <1>3, <1>4
<1> QED
  BY <1>2, <1>5 DEF TurnsAll

(* The opposite of a filter nests no deeper.                               *)
LEMMA OppositeNests ==
    ASSUME NEW h, \A f \in Filters : h[f] = Turned(f, h)
    PROVE  \A d \in 0..MaxNesting : \A f \in Nested[d] : h[f] \in Nested[d]
<1> DEFINE T == {d \in 0..MaxNesting : \A f \in Nested[d] : h[f] \in Nested[d]}
<1>1. ASSUME NEW d \in 0..MaxNesting, NEW f \in Nested[d], f.op \in {"equals", "notEquals", "exists"}
      PROVE  h[f] \in Simple
  <2>1. h[f] = Turned(f, h)
    BY NestedAmongFilters
  <2>2. CASE f.op \in {"equals", "notEquals"}
    <3>1. f.column \in Columns /\ f.value \in Values
      BY <2>2, ShapesTell
    <3>2. \A op \in {"equals", "notEquals"} : Leaf(op, f.column, f.value) \in Simple
      BY <3>1 DEF Leaf, Simple, Comparisons
    <3>3. Turned(f, h) = Leaf("notEquals", f.column, f.value) \/ Turned(f, h) = Leaf("equals", f.column, f.value)
      BY <2>2 DEF Turned
    <3> QED
      BY <2>1, <3>2, <3>3
  <2>3. CASE f.op = "exists"
    <3>1. f.column \in Columns /\ f.value \in BOOLEAN
      BY <2>3, ShapesTell
    <3>2. \A b \in BOOLEAN : Leaf("exists", f.column, b) \in Simple
      BY <3>1 DEF Leaf, Simple, Presences
    <3>3. Turned(f, h) = Leaf("exists", f.column, ~f.value)
      BY <2>3 DEF Turned
    <3>4. (~f.value) \in BOOLEAN
      OBVIOUS
    <3> QED
      BY <2>1, <3>2, <3>3, <3>4
  <2> QED
    BY <1>1, <2>2, <2>3
<1>2. 0 \in T
  <2>1. 0 \in 0..MaxNesting
    BY FilterAssumption
  <2>2. ASSUME NEW f \in Nested[0] PROVE h[f] \in Nested[0]
    <3>1. f.op \in {"equals", "notEquals", "exists"}
      BY <2>1, ShapesTell
    <3> QED
      BY <1>1, <2>1, <3>1, NestedUnfolds
  <2> QED
    BY <2>1, <2>2
<1>3. ASSUME NEW d \in 1..MaxNesting, d - 1 \in T PROVE d \in T
  <2>1. d \in 0..MaxNesting /\ d - 1 \in 0..MaxNesting
    BY FilterAssumption
  <2>2. PICK S : S = Nested[d - 1]
    OBVIOUS
  <2>3. Joint(S) \subseteq Nested[d] /\ S \subseteq Nested[d]
    BY <2>2, NestedUnfolds
  <2>4. Simple \subseteq S
    <3>1. \A i \in 0..MaxNesting : i \in {k \in 0..MaxNesting : Simple \subseteq Nested[k]}
      <4> DEFINE U == {k \in 0..MaxNesting : Simple \subseteq Nested[k]}
      <4>1. 0 \in U
        BY FilterAssumption, NestedUnfolds
      <4>2. \A i \in 1..MaxNesting : i - 1 \in U => i \in U
        BY FilterAssumption, NestedUnfolds
      <4> HIDE DEF U
      <4>3. \A i \in 0..MaxNesting : i \in U
        BY <4>1, <4>2, FilterAssumption, UpTo
      <4> QED
        BY <4>3 DEF U
    <3> QED
      BY <2>1, <2>2, <3>1
  <2>5. ASSUME NEW f \in Nested[d] PROVE h[f] \in Nested[d]
    <3>1. h[f] = Turned(f, h)
      BY <2>1, NestedAmongFilters
    <3>2. CASE f.op \in {"equals", "notEquals", "exists"}
      BY <1>1, <2>1, <2>3, <2>4, <3>2
    <3>3. CASE f.op = "in"
      <4>1. f.column \in Columns /\ f.value \in Seq(Values)
        BY <2>1, <3>3, ShapesTell
      <4>2. PICK q : q = [i \in DOMAIN f.value |-> Leaf("notEquals", f.column, f.value[i])]
        OBVIOUS
      <4>3. \A v \in Values : Leaf("notEquals", f.column, v) \in S
        BY <2>4, <4>1 DEF Leaf, Simple, Comparisons
      <4>4. q \in Seq(S)
        BY <4>1, <4>2, <4>3
      <4>5. Combined("and", q) \in Joint(S)
        BY <4>4 DEF Combined, Joint
      <4>6. Turned(f, h) = Combined("and", q)
        BY <3>3, <4>2 DEF Turned
      <4> QED
        BY <2>3, <3>1, <4>5, <4>6
    <3>4. CASE f.op \in {"and", "or"}
      <4>1. f.of \in Seq(S)
        BY <2>1, <2>2, <3>4, ShapesTell
      <4>2. PICK q : q = [i \in DOMAIN f.of |-> h[f.of[i]]]
        OBVIOUS
      <4>3. \A g \in S : h[g] \in S
        BY <1>3, <2>2
      <4>4. q \in Seq(S)
        BY <4>1, <4>2, <4>3
      <4>5. \A op \in {"and", "or"} : Combined(op, q) \in Joint(S)
        BY <4>4 DEF Combined, Joint
      <4>6. Turned(f, h) = Combined("and", q) \/ Turned(f, h) = Combined("or", q)
        BY <3>4, <4>2 DEF Turned
      <4> QED
        BY <2>3, <3>1, <4>5, <4>6
    <3> QED
      BY <2>1, <3>2, <3>3, <3>4, ShapesTell
  <2> QED
    BY <2>1, <2>5
<1>4. \A i \in 0..MaxNesting : i \in T
  <2>1. \A i \in 1..MaxNesting : i - 1 \in T => i \in T
    BY <1>3
  <2> HIDE DEF T
  <2> QED
    BY <1>2, <2>1, FilterAssumption, UpTo
<1> QED
  BY <1>4

(* One clause: equality is there or is not, whatever the column holds, and *)
(* "and" over what fails is "or" over what holds.                          *)
LEMMA TurnedLeafFails ==
    ASSUME NEW d \in 0..MaxNesting, NEW f \in Nested[d], f.op \in {"equals", "notEquals", "exists"},
           NEW g, NEW h, NEW r
    PROVE  Holds(Turned(f, g), h, r) <=> ~Holds(f, h, r)
<1>1. PICK v : v = ReadColumn(r, f.column)
  OBVIOUS
<1>2. CASE f.op = "equals"
  <2>1. PICK x : x = Leaf("notEquals", f.column, f.value)
    OBVIOUS
  <2>2. Turned(f, g) = x
    BY <1>2, <2>1 DEF Turned
  <2>3. x.op = "notEquals" /\ x.column = f.column /\ x.value = f.value
    BY <2>1 DEF Leaf
  <2>4. Holds(f, h, r) <=> v = f.value
    BY <1>1, <1>2 DEF Holds, Matches, DeepEquals
  <2>5. Holds(x, h, r) <=> v # f.value
    BY <1>1, <2>3 DEF Holds, Matches, DeepEquals
  <2> QED
    BY <2>2, <2>4, <2>5
<1>3. CASE f.op = "notEquals"
  <2>1. PICK x : x = Leaf("equals", f.column, f.value)
    OBVIOUS
  <2>2. Turned(f, g) = x
    BY <1>3, <2>1 DEF Turned
  <2>3. x.op = "equals" /\ x.column = f.column /\ x.value = f.value
    BY <2>1 DEF Leaf
  <2>4. Holds(f, h, r) <=> v # f.value
    BY <1>1, <1>3 DEF Holds, Matches, DeepEquals
  <2>5. Holds(x, h, r) <=> v = f.value
    BY <1>1, <2>3 DEF Holds, Matches, DeepEquals
  <2> QED
    BY <2>2, <2>4, <2>5
<1>4. CASE f.op = "exists"
  <2>1. PICK x : x = Leaf("exists", f.column, ~f.value)
    OBVIOUS
  <2>2. Turned(f, g) = x
    BY <1>4, <2>1 DEF Turned
  <2>3. x.op = "exists" /\ x.column = f.column /\ x.value = ~f.value
    BY <2>1 DEF Leaf
  <2>4. f.value \in BOOLEAN
    BY <1>4, ShapesTell
  <2>5. Holds(f, h, r) <=> (f.value = ~Nullish(v))
    BY <1>1, <1>4 DEF Holds, Matches
  <2>6. Holds(x, h, r) <=> (x.value = ~Nullish(v))
    BY <1>1, <2>3 DEF Holds, Matches
  <2>7. Nullish(v) \in BOOLEAN
    BY DEF Nullish
  <2>8. (x.value = ~Nullish(v)) <=> ~(f.value = ~Nullish(v))
    BY <2>3, <2>4, <2>7
  <2> QED
    BY <2>2, <2>5, <2>6, <2>8
<1> QED
  BY <1>2, <1>3, <1>4

LEMMA HoldsOrNot ==
    ASSUME NEW d \in 0..MaxNesting, NEW f \in Nested[d], NEW h, NEW r
    PROVE  Holds(f, h, r) \in BOOLEAN
<1>1. PICK v : v = ReadColumn(r, f.column)
  OBVIOUS
<1>2. CASE f.op \in {"and", "or"}
  BY <1>2 DEF Holds
<1>3. CASE f.op \in {"equals", "notEquals", "in", "exists"}
  <2>1. Holds(f, h, r) = Matches(f, v)
    BY <1>1, <1>3 DEF Holds
  <2>2. Matches(f, v) \in BOOLEAN
    BY <1>3 DEF Matches, DeepEquals, Nullish
  <2> QED
    BY <2>1, <2>2
<1> QED
  BY <1>2, <1>3, ShapesTell

LEMMA OppositeFails ==
    ASSUME NEW r, NEW h, NEW o, \A f \in Filters : h[f] = Holds(f, h, r), \A f \in Filters : o[f] = Turned(f, o)
    PROVE  \A d \in 0..MaxNesting : \A f \in Nested[d] : h[o[f]] <=> ~h[f]
<1> DEFINE T == {d \in 0..MaxNesting : \A f \in Nested[d] : h[o[f]] <=> ~h[f]}
<1>1. ASSUME NEW d \in 0..MaxNesting, NEW f \in Nested[d]
      PROVE  /\ f \in Filters /\ o[f] \in Filters /\ o[f] = Turned(f, o)
             /\ h[f] <=> Holds(f, h, r)
             /\ h[o[f]] <=> Holds(Turned(f, o), h, r)
  <2>1. f \in Filters /\ o[f] \in Filters
    BY OppositeNests, NestedAmongFilters
  <2> QED
    BY <2>1
<1>2. ASSUME NEW d \in 0..MaxNesting, NEW f \in Nested[d], f.op \in {"equals", "notEquals", "exists"}
      PROVE  h[o[f]] <=> ~h[f]
  BY <1>1, <1>2, TurnedLeafFails
<1>3. 0 \in T
  <2>1. 0 \in 0..MaxNesting
    BY FilterAssumption
  <2>2. ASSUME NEW f \in Nested[0] PROVE h[o[f]] <=> ~h[f]
    <3>1. f.op \in {"equals", "notEquals", "exists"}
      BY <2>1, ShapesTell
    <3> QED
      BY <1>2, <2>1, <3>1
  <2> QED
    BY <2>1, <2>2
<1>4. ASSUME NEW d \in 1..MaxNesting, d - 1 \in T PROVE d \in T
  <2>1. d \in 0..MaxNesting /\ d - 1 \in 0..MaxNesting
    BY FilterAssumption
  <2>2. PICK S : S = Nested[d - 1]
    OBVIOUS
  <2>3. \A g \in S : h[o[g]] <=> ~h[g]
    BY <1>4, <2>2
  <2>4. ASSUME NEW f \in Nested[d] PROVE h[o[f]] <=> ~h[f]
    <3>0. (h[f] <=> Holds(f, h, r)) /\ (h[o[f]] <=> Holds(Turned(f, o), h, r))
      BY <1>1, <2>1
    <3>1. CASE f.op \in {"equals", "notEquals", "exists"}
      BY <1>2, <2>1, <3>1
    <3>2. CASE f.op = "in"
      <4>1. PICK v : v = ReadColumn(r, f.column)
        OBVIOUS
      <4>2. PICK q : q = [i \in DOMAIN f.value |-> Leaf("notEquals", f.column, f.value[i])]
        OBVIOUS
      <4>3. f.value \in Seq(Values) /\ f.column \in Columns
        BY <2>1, <3>2, ShapesTell
      <4>4. ASSUME NEW i \in DOMAIN f.value PROVE h[q[i]] <=> v # f.value[i]
        <5>1. PICK x : x = Leaf("notEquals", f.column, f.value[i])
          OBVIOUS
        <5>2. x \in Filters
          <6>1. f.value[i] \in Values
            BY <4>3
          <6>2. x \in Nested[0]
            BY <4>3, <5>1, <6>1, NestedUnfolds DEF Leaf, Simple, Comparisons
          <6> QED
            BY <6>2, FilterAssumption, NestedAmongFilters
        <5>3. x.op = "notEquals" /\ x.column = f.column /\ x.value = f.value[i]
          BY <5>1 DEF Leaf
        <5>4. Holds(x, h, r) <=> v # f.value[i]
          BY <4>1, <5>3 DEF Holds, Matches, DeepEquals
        <5>5. q[i] = x
          BY <4>2, <5>1
        <5> QED
          BY <5>2, <5>4, <5>5
      <4>5. PICK x : x = Combined("and", q)
        OBVIOUS
      <4>6. x.op = "and" /\ x.of = q /\ DOMAIN q = DOMAIN f.value
        BY <4>2, <4>5 DEF Combined
      <4>7. Turned(f, o) = x
        BY <3>2, <4>2, <4>5 DEF Turned
      <4>8. Holds(x, h, r) <=> \A i \in DOMAIN f.value : h[q[i]]
        BY <4>6 DEF Holds
      <4>9. Holds(f, h, r) <=> \E i \in DOMAIN f.value : v = f.value[i]
        BY <3>2, <4>1 DEF Holds, Matches, DeepEquals
      <4> QED
        BY <3>0, <4>4, <4>7, <4>8, <4>9
    <3>3. CASE f.op \in {"and", "or"}
      <4>1. f.of \in Seq(S)
        BY <2>1, <2>2, <3>3, ShapesTell
      <4>2. PICK q : q = [i \in DOMAIN f.of |-> o[f.of[i]]]
        OBVIOUS
      <4>3. \A i \in DOMAIN f.of : h[q[i]] <=> ~h[f.of[i]]
        BY <2>3, <4>1, <4>2
      <4>4. PICK x : x = Combined(IF f.op = "and" THEN "or" ELSE "and", q)
        OBVIOUS
      <4>5. Turned(f, o) = x
        BY <3>3, <4>2, <4>4 DEF Turned
      <4>6. x.op = (IF f.op = "and" THEN "or" ELSE "and") /\ x.of = q /\ DOMAIN q = DOMAIN f.of
        BY <4>2, <4>4 DEF Combined
      <4>7. CASE f.op = "and"
        <5>1. Holds(x, h, r) <=> \E i \in DOMAIN f.of : h[q[i]]
          BY <4>6, <4>7 DEF Holds
        <5>2. Holds(f, h, r) <=> \A i \in DOMAIN f.of : h[f.of[i]]
          BY <4>7 DEF Holds
        <5> QED
          BY <3>0, <4>3, <4>5, <5>1, <5>2
      <4>8. CASE f.op = "or"
        <5>1. Holds(x, h, r) <=> \A i \in DOMAIN f.of : h[q[i]]
          BY <4>6, <4>8 DEF Holds
        <5>2. Holds(f, h, r) <=> \E i \in DOMAIN f.of : h[f.of[i]]
          BY <4>8 DEF Holds
        <5> QED
          BY <3>0, <4>3, <4>5, <5>1, <5>2
      <4> QED
        BY <3>3, <4>7, <4>8
    <3> QED
      BY <2>1, <3>1, <3>2, <3>3, ShapesTell
  <2> QED
    BY <2>1, <2>4
<1>5. \A i \in 0..MaxNesting : i \in T
  <2>1. \A i \in 1..MaxNesting : i - 1 \in T => i \in T
    BY <1>4
  <2> HIDE DEF T
  <2> QED
    BY <1>3, <2>1, FilterAssumption, UpTo
<1> QED
  BY <1>5

(* A run over a filter and a run over its opposite take every row between  *)
(* them, and none twice, however deep filters nest and whatever is missing *)
(* or null in a row (filter.ts).                                           *)
THEOREM OppositesShareTheRows == FilterSpec => []OppositeTakesTheRest
<1>1. FilterInit => OppositeTakesTheRest
  <2> SUFFICES ASSUME FilterInit PROVE OppositeTakesTheRest
    OBVIOUS
  <2>1. PICK h : h = [f \in Filters |-> EvaluateFilter(f, row)]
    OBVIOUS
  <2>2. PICK o : o = [f \in Filters |-> Opposite(f)]
    OBVIOUS
  <2>3. \A f \in Filters : h[f] = Holds(f, h, row)
    BY <2>1, Evaluated
  <2>4. \A f \in Filters : o[f] = Turned(f, o)
    BY <2>2, Opposed
  <2>5. MaxNesting \in 0..MaxNesting /\ filter \in Nested[MaxNesting]
    BY FilterAssumption DEF FilterInit, Filters
  <2>6. filter \in Filters /\ o[filter] \in Filters
    BY <2>4, <2>5, OppositeNests DEF Filters
  <2>7. h[o[filter]] <=> ~h[filter]
    BY <2>3, <2>4, <2>5, OppositeFails
  <2>8. h[o[filter]] = EvaluateFilter(Opposite(filter), row) /\ h[filter] = EvaluateFilter(filter, row)
    BY <2>1, <2>2, <2>6
  <2>9. h[filter] = Holds(filter, h, row) /\ h[o[filter]] = Holds(o[filter], h, row)
    BY <2>3, <2>6
  <2>10. Holds(filter, h, row) \in BOOLEAN /\ Holds(o[filter], h, row) \in BOOLEAN
    <3>1. o[filter] \in Nested[MaxNesting]
      BY <2>4, <2>5, OppositeNests
    <3> QED
      BY <2>5, <3>1, HoldsOrNot
  <2> QED
    BY <2>7, <2>8, <2>9, <2>10 DEF OppositeTakesTheRest
<1>2. OppositeTakesTheRest /\ [UNCHANGED filterVars]_filterVars => OppositeTakesTheRest'
  BY DEF OppositeTakesTheRest, filterVars
<1> QED
  BY <1>1, <1>2, PTL DEF FilterSpec
=============================================================================
