------------------------- MODULE CreditLedgerProofs -------------------------
(***************************************************************************)
(* Theorems about CreditLedger, for any generations, plans and packs, any  *)
(* prices and costs, and any number of batches that expire.                *)
(***************************************************************************)
EXTENDS GrantLoops, Sums, TLAPS

(* What a generation holds of the batches goes with the state of its hold. *)
HoldsMatchUses ==
    \A r \in Refs :
        /\ holds[r].state = "open" => SumFunction(uses[r]) <= holds[r].reserved
        /\ holds[r].state \in {"none", "returned"} => \A b \in Batches : uses[r][b] = 0
        /\ holds[r].state # "charged" => holds[r].charge = 0

(* What the sweep has on its list was due, and stays so. *)
DueArePast == \A b \in due : grants[b].expires <= now

LedgerInv ==
    /\ TypeOK /\ NothingRefused
    /\ BatchesAreCovered /\ BatchUnitsConserved /\ BalanceIsLedgerSum
    /\ HoldsMatchUses /\ DueArePast /\ IsFiniteSet(paid)

-----------------------------------------------------------------------------
(* What a loop of the trigger moves.                                       *)

(* Of a finite set some member is visited last. *)
LEMMA LastOne ==
    ASSUME NEW S, IsFiniteSet(S), S # {}, NEW rank, \A x \in S : rank[x] \in Int
    PROVE  \E b \in S : \A a \in S : rank[a] <= rank[b]
<1> DEFINE Up(b) == {a \in S : rank[a] >= rank[b]}
           Ups == {Up(b) : b \in S}
<1>1. Ups \subseteq SUBSET S /\ Ups # {}
  OBVIOUS
<1>2. PICK m \in Ups : \A t \in Ups : t \subseteq m => t = m
  <2> HIDE DEF Ups
  <2> QED
    BY <1>1, SmallestSubset
<1>3. PICK b \in S : m = Up(b)
  OBVIOUS
<1>4. ASSUME NEW a \in S PROVE rank[a] <= rank[b]
  <2>1. CASE rank[a] >= rank[b]
    <3>1. Up(a) \subseteq Up(b)
      BY <2>1
    <3>2. Up(a) = Up(b)
      BY <1>2, <1>3, <3>1
    <3>3. b \in Up(a)
      BY <3>2
    <3> QED
      BY <3>3
  <2> QED
    BY <2>1
<1> QED
  BY <1>4

(* Each batch gives some of what it has, all together they give what is    *)
(* asked for or all they have, a batch gives only when those before it     *)
(* have given everything, and all give everything if enough is asked for.  *)
LEMMA LoopMoves ==
    ASSUME NEW B, IsFiniteSet(B), NEW has \in [B -> Nat], NEW units \in Nat,
           NEW rank \in [B -> Int], \A a, b \in B : rank[a] = rank[b] => a = b,
           NEW moved, moved = Moved(has, units, rank)
    PROVE  /\ moved \in [B -> Nat]
           /\ \A b \in B : moved[b] <= has[b]
           /\ SumFunctionOnSet(moved, B) = SmallerOf(units, SumFunctionOnSet(has, B))
           /\ \A a, b \in B : moved[b] > 0 /\ rank[a] < rank[b] => moved[a] = has[a]
           /\ SumFunctionOnSet(has, B) <= units => \A b \in B : moved[b] = has[b]
<1> DEFINE before(b) == {a \in B : rank[a] < rank[b]}
           have(s) == SumFunctionOnSet(has, s)
<1>1. \A s \in SUBSET B : IsFiniteSet(s) /\ have(s) \in Nat
  BY FS_Subset, SumOfNats
<1>2. ASSUME NEW b \in B
      PROVE  /\ moved[b] = SmallerOf(has[b], LargerOf(units - have(before(b)), 0))
             /\ have(before(b)) \in Nat /\ has[b] \in Nat
             /\ have(before(b)) + has[b] <= have(B)
             /\ moved[b] \in Nat /\ moved[b] <= has[b]
  <2>1. moved[b] = SmallerOf(has[b], LargerOf(units - have(before(b)), 0))
    BY DEF Moved
  <2>2. have(before(b)) \in Nat /\ has[b] \in Nat /\ IsFiniteSet(before(b)) /\ before(b) \in SUBSET B
    BY <1>1
  <2>3. before(b) \cup {b} \in SUBSET B /\ b \notin before(b)
    BY <2>2
  <2>4. have(before(b) \cup {b}) = has[b] + have(before(b))
    <3>1. \A x \in before(b) : has[x] \in Int
      OBVIOUS
    <3> HIDE DEF before
    <3> QED
      BY <2>2, <2>3, <3>1, SumWithOneMore
  <2>5. have(before(b) \cup {b}) <= have(B)
    <3> HIDE DEF before
    <3> QED
      BY <2>3, SumOfPartAtMost
  <2> HIDE DEF have, before
  <2>6. moved[b] \in Nat /\ moved[b] <= has[b]
    BY <2>1, <2>2 DEF SmallerOf, LargerOf
  <2> QED
    BY <1>1, <2>1, <2>2, <2>4, <2>5, <2>6
<1>3. moved \in [B -> Nat]
  <2>1. moved = [b \in B |-> moved[b]]
    BY DEF Moved
  <2> QED
    BY <1>2, <2>1
<1>4. ASSUME NEW a \in B, NEW b \in B, moved[b] > 0, rank[a] < rank[b]
      PROVE  moved[a] = has[a]
  <2>1. before(a) \cup {a} \subseteq before(b) /\ a \notin before(a) /\ before(a) \in SUBSET B /\ before(b) \in SUBSET B
    BY <1>4
  <2>2. have(before(a) \cup {a}) = has[a] + have(before(a))
    <3>1. IsFiniteSet(before(a)) /\ has[a] \in Int /\ \A x \in before(a) : has[x] \in Int
      BY <1>1, <2>1
    <3> HIDE DEF before
    <3> QED
      BY <2>1, <3>1, SumWithOneMore
  <2>3. have(before(a) \cup {a}) <= have(before(b))
    <3>1. IsFiniteSet(before(b)) /\ \A x \in before(b) : has[x] \in Nat
      BY <1>1, <2>1
    <3> HIDE DEF before
    <3> QED
      BY <2>1, <3>1, SumOfPartAtMost
  <2> HIDE DEF have, before
  <2>4. have(before(b)) < units
    BY <1>2, <1>4 DEF SmallerOf, LargerOf
  <2> QED
    BY <1>2, <2>2, <2>3, <2>4 DEF SmallerOf, LargerOf
<1>5. ASSUME have(B) <= units, NEW b \in B PROVE moved[b] = has[b]
  <2>1. /\ moved[b] = SmallerOf(has[b], LargerOf(units - have(before(b)), 0))
        /\ have(before(b)) \in Nat /\ has[b] \in Nat
        /\ have(before(b)) + has[b] <= have(B)
    BY <1>2
  <2>2. have(B) \in Nat /\ have(B) <= units
    BY <1>1, <1>5
  <2> HIDE DEF have, before
  <2>3. has[b] <= units - have(before(b))
    BY <2>1, <2>2
  <2> QED
    BY <2>1, <2>3 DEF SmallerOf, LargerOf
<1>6. SumFunctionOnSet(moved, B) = SmallerOf(units, have(B))
  <2> DEFINE Down(s) == \A a, b \in B : b \in s /\ rank[a] < rank[b] => a \in s
             Bad == {s \in SUBSET B : Down(s) /\ SumFunctionOnSet(moved, s) # SmallerOf(units, have(s))}
  <2>1. SUFFICES ASSUME Bad # {} PROVE FALSE
    OBVIOUS
  <2>2. PICK m \in Bad : \A t \in Bad : t \subseteq m => t = m
    <3>1. Bad \subseteq SUBSET B
      OBVIOUS
    <3> HIDE DEF Bad
    <3> QED
      BY <2>1, <3>1, SmallestSubset
  <2>3. m \in SUBSET B /\ Down(m) /\ SumFunctionOnSet(moved, m) # SmallerOf(units, have(m))
    OBVIOUS
  <2>4. m # {}
    <3>1. SumFunctionOnSet(moved, {}) = 0 /\ have({}) = 0
      BY SumOfNone
    <3> HIDE DEF Bad, have
    <3> QED
      BY <2>3, <3>1 DEF SmallerOf
  <2>5. PICK b \in m : \A a \in m : rank[a] <= rank[b]
    <3>1. IsFiniteSet(m) /\ \A x \in m : rank[x] \in Int
      BY <1>1, <2>3
    <3> HIDE DEF Bad
    <3> QED
      BY <2>4, <3>1, LastOne
  <2> DEFINE rest == m \ {b}
  <2>6. rest = before(b)
    BY <2>3, <2>5
  <2>7. rest \in SUBSET B /\ Down(rest) /\ rest # m /\ rest \subseteq m /\ b \in B /\ IsFiniteSet(m)
    BY <1>1, <2>3, <2>5
  <2>8. SumFunctionOnSet(moved, rest) = SmallerOf(units, have(rest))
    BY <2>2, <2>7
  <2>9. SumFunctionOnSet(moved, m) = moved[b] + SumFunctionOnSet(moved, rest)
    <3>1. \A x \in m : moved[x] \in Int
      BY <1>3, <2>3
    <3> QED
      BY <2>7, <3>1, SumWithout
  <2>10. have(m) = has[b] + have(rest)
    <3>1. \A x \in m : has[x] \in Int
      BY <2>3
    <3> QED
      BY <2>7, <3>1, SumWithout
  <2>11. moved[b] = SmallerOf(has[b], LargerOf(units - have(rest), 0)) /\ have(rest) \in Nat /\ has[b] \in Nat
    BY <1>2, <2>6, <2>7
  <2> HIDE DEF have, rest
  <2> QED
    BY <2>3, <2>8, <2>9, <2>10, <2>11 DEF SmallerOf, LargerOf
<1> QED
  BY <1>2, <1>3, <1>4, <1>5, <1>6
-----------------------------------------------------------------------------
(* The batches of a well-typed state. *)
LEMMA BatchTypes ==
    ASSUME TypeOK
    PROVE  /\ Len(grants) \in Nat /\ Batches = 1..Len(grants) /\ IsFiniteSet(Batches)
           /\ grants \in [Batches -> Grant]
           /\ Remaining(grants) \in [Batches -> Nat] /\ DOMAIN Remaining(grants) = Batches
           /\ RemainingOf(grants) = SumFunctionOnSet(Remaining(grants), Batches)
           /\ RemainingOf(grants) \in Nat
<1>1. Len(grants) \in Nat /\ Batches = 1..Len(grants) /\ grants \in [Batches -> Grant]
  BY ElementOfSeq, LenProperties DEF TypeOK, Batches
<1>2. IsFiniteSet(Batches)
  BY <1>1, FS_Interval
<1>3. Remaining(grants) \in [Batches -> Nat] /\ DOMAIN Remaining(grants) = Batches
  BY <1>1 DEF Remaining, Batches, Grant
<1>4. RemainingOf(grants) = SumFunctionOnSet(Remaining(grants), Batches)
  BY <1>3 DEF RemainingOf, SumFunction
<1>5. SumFunctionOnSet(Remaining(grants), Batches) \in Nat
  BY <1>2, <1>3, SumOfNats
<1> QED
  BY <1>1, <1>2, <1>3, <1>4, <1>5

(* What a row of a generation may move: from batches to its uses when it   *)
(* takes, back when it gives, and as much as there is.                     *)
MovesOf(r, amount, moved) ==
    /\ moved \in [Batches -> Int]
    /\ \A b \in Batches : moved[b] <= grants[b].remaining /\ -moved[b] <= uses[r][b]
    /\ amount < 0 => /\ SumFunctionOnSet(moved, Batches) = SmallerOf(-amount, RemainingOf(grants))
                     /\ \A b \in Batches : moved[b] >= 0
                     /\ \A a, b \in Batches : moved[b] > 0 /\ grants[a].expires < grants[b].expires
                           => moved[a] = grants[a].remaining
    /\ amount >= 0 => /\ SumFunctionOnSet(moved, Batches) = -SmallerOf(amount, SumFunction(uses[r]))
                      /\ \A b \in Batches : moved[b] <= 0
                      /\ SumFunction(uses[r]) <= amount => \A b \in Batches : moved[b] = -uses[r][b]
                      /\ \A a, b \in Batches : moved[a] < 0 /\ grants[a].expires < grants[b].expires
                            => moved[b] = -uses[r][b]

(* Every way the allocation may move units is one that MovesOf describes.  *)
LEMMA MovesMove ==
    ASSUME TypeOK, NEW r \in Refs, NEW amount \in Int, NEW moved \in Moves(r, amount)
    PROVE  MovesOf(r, amount, moved)
<1>1. IsFiniteSet(Batches) /\ Batches \subseteq Int
  BY BatchTypes
<1>2. uses[r] \in [Batches -> Nat] /\ DOMAIN uses[r] = Batches
  BY DEF TypeOK
<1>3. Remaining(grants) \in [Batches -> Nat] /\ \A b \in Batches : Remaining(grants)[b] = grants[b].remaining
  BY BatchTypes DEF Remaining, Batches
<1>4. ASSUME NEW rank \in Orders
      PROVE  rank \in [Batches -> Int] /\ \A a, b \in Batches : rank[a] = rank[b] => a = b
  BY <1>1 DEF Orders
<1>5. CASE amount < 0
  <2>1. PICK rank \in SoonestFirst : moved = Moved(Remaining(grants), -amount, rank)
    BY <1>5 DEF Moves, Draw
  <2>2. /\ rank \in [Batches -> Int] /\ \A a, b \in Batches : rank[a] = rank[b] => a = b
        /\ \A a, b \in Batches : grants[a].expires < grants[b].expires => ~(rank[b] < rank[a])
    <3>1. rank \in Orders
      BY DEF SoonestFirst
    <3>2. ASSUME NEW a \in Batches, NEW b \in Batches, rank[b] < rank[a], grants[a].expires < grants[b].expires
          PROVE FALSE
      <4>1. grants[a].expires \in Nat /\ grants[b].expires \in Nat
        BY BatchTypes DEF Grant
      <4> QED
        BY <3>2, <4>1 DEF SoonestFirst
    <3> QED
      BY <1>4, <3>1, <3>2
  <2>3. -amount \in Nat
    BY <1>5
  <2>4. /\ moved \in [Batches -> Nat]
        /\ \A b \in Batches : moved[b] <= Remaining(grants)[b]
        /\ SumFunctionOnSet(moved, Batches) = SmallerOf(-amount, RemainingOf(grants))
        /\ \A a, b \in Batches : moved[b] > 0 /\ rank[a] < rank[b] => moved[a] = Remaining(grants)[a]
    <3>1. RemainingOf(grants) = SumFunctionOnSet(Remaining(grants), Batches)
      BY BatchTypes
    <3> DEFINE has == Remaining(grants)
               B == Batches
    <3>2. /\ IsFiniteSet(B) /\ has \in [B -> Nat] /\ rank \in [B -> Int]
          /\ \A a, b \in B : rank[a] = rank[b] => a = b
          /\ moved = Moved(has, -amount, rank)
      BY <1>1, <1>3, <2>1, <2>2
    <3>3. /\ moved \in [B -> Nat]
          /\ \A b \in B : moved[b] <= has[b]
          /\ SumFunctionOnSet(moved, B) = SmallerOf(-amount, SumFunctionOnSet(has, B))
          /\ \A a, b \in B : moved[b] > 0 /\ rank[a] < rank[b] => moved[a] = has[a]
      <4> HIDE DEF has, B
      <4> QED
        BY <2>3, <3>2, LoopMoves
    <3> QED
      BY <3>1, <3>3
  <2>5. ASSUME NEW a \in Batches, NEW b \in Batches, moved[b] > 0, grants[a].expires < grants[b].expires
        PROVE  moved[a] = grants[a].remaining
    <3>1. rank[a] < rank[b]
      <4>1. a # b /\ rank[a] # rank[b] /\ ~(rank[b] < rank[a])
        <5>1. a # b
          <6>1. grants[a].expires \in Nat
            BY BatchTypes DEF Grant
          <6> QED
            BY <2>5, <6>1
        <5> QED
          BY <2>2, <2>5, <5>1
      <4> QED
        BY <2>2, <4>1
    <3> QED
      BY <1>3, <2>4, <2>5, <3>1
  <2>6. \A b \in Batches : moved[b] \in Nat /\ moved[b] <= grants[b].remaining /\ -moved[b] <= uses[r][b]
    BY <1>2, <1>3, <2>4
  <2> QED
    BY <1>5, <2>4, <2>5, <2>6 DEF MovesOf
<1>6. CASE amount >= 0
  <2>0. PICK rank \in LatestFirst : moved = [b \in Batches |-> -Moved(uses[r], amount, rank)[b]]
    BY <1>6 DEF Moves, GiveBack
  <2>1. PICK back : back = Moved(uses[r], amount, rank) /\ moved = [b \in Batches |-> -back[b]]
    BY <2>0
  <2>2. /\ rank \in [Batches -> Int] /\ \A a, b \in Batches : rank[a] = rank[b] => a = b
        /\ \A a, b \in Batches : rank[a] < rank[b] => grants[a].expires >= grants[b].expires
    BY <1>4 DEF LatestFirst
  <2>3. amount \in Nat /\ SumFunction(uses[r]) = SumFunctionOnSet(uses[r], Batches)
    BY <1>2, <1>6 DEF SumFunction
  <2>4. /\ back \in [Batches -> Nat]
        /\ \A b \in Batches : back[b] <= uses[r][b]
        /\ SumFunctionOnSet(back, Batches) = SmallerOf(amount, SumFunction(uses[r]))
        /\ SumFunction(uses[r]) <= amount => \A b \in Batches : back[b] = uses[r][b]
        /\ \A a, b \in Batches : back[a] > 0 /\ rank[b] < rank[a] => back[b] = uses[r][b]
    <3>1. back = Moved(uses[r], amount, rank)
      BY <2>1
    <3>2. uses[r] \in [Batches -> Nat] /\ rank \in [Batches -> Int]
      BY <1>2, <2>2
    <3>3. IsFiniteSet(Batches)
      BY <1>1
    <3>4. /\ back \in [Batches -> Nat]
          /\ \A b \in Batches : back[b] <= uses[r][b]
          /\ SumFunctionOnSet(back, Batches) = SmallerOf(amount, SumFunctionOnSet(uses[r], Batches))
          /\ SumFunctionOnSet(uses[r], Batches) <= amount => \A b \in Batches : back[b] = uses[r][b]
          /\ \A a, b \in Batches : back[a] > 0 /\ rank[b] < rank[a] => back[b] = uses[r][b]
      BY <2>2, <2>3, <3>1, <3>2, <3>3, LoopMoves
    <3> QED
      BY <2>3, <3>4
  <2>5. /\ moved \in [Batches -> Int]
        /\ \A b \in Batches : moved[b] = -back[b] /\ moved[b] <= 0 /\ back[b] \in Nat
    BY <2>1, <2>4
  <2>6. SumFunctionOnSet(moved, Batches) = -SmallerOf(amount, SumFunction(uses[r]))
    <3>1. \A b \in Batches : back[b] \in Int /\ moved[b] = -back[b]
      BY <2>5
    <3>2. IsFiniteSet(Batches)
      BY <1>1
    <3>3. SumFunctionOnSet(moved, Batches) = -SumFunctionOnSet(back, Batches)
      BY <3>1, <3>2, SumOfNegations
    <3> QED
      BY <2>4, <3>3
  <2>7. \A b \in Batches : moved[b] <= grants[b].remaining /\ -moved[b] <= uses[r][b]
    <3>1. \A b \in Batches : grants[b].remaining \in Nat
      BY <1>3
    <3>2. \A b \in Batches : uses[r][b] \in Nat
      BY <1>2
    <3> QED
      BY <2>4, <2>5, <3>1, <3>2
  <2>8. SumFunction(uses[r]) <= amount => \A b \in Batches : moved[b] = -uses[r][b]
    BY <2>4, <2>5
  <2>9. ASSUME NEW a \in Batches, NEW b \in Batches, moved[a] < 0, grants[a].expires < grants[b].expires
        PROVE  moved[b] = -uses[r][b]
    <3>1. grants[a].expires \in Nat /\ grants[b].expires \in Nat
      BY BatchTypes DEF Grant
    <3>2. a # b /\ ~(rank[a] < rank[b])
      BY <2>2, <2>9, <3>1
    <3>3. rank[b] < rank[a] /\ back[a] > 0
      BY <2>2, <2>5, <2>9, <3>2
    <3> QED
      BY <2>4, <2>5, <3>3
  <2> QED
    BY <1>6, <2>5, <2>6, <2>7, <2>8, <2>9 DEF MovesOf
<1> QED
  BY <1>5, <1>6
-----------------------------------------------------------------------------
(* A row of a generation.                                                  *)

(* What the bookkeeping of a well-typed state counts. *)
LEMMA BookTypes ==
    ASSUME LedgerInv, NEW b \in Batches
    PROVE  /\ grants[b] \in Grant /\ grants[b].remaining \in Nat /\ grants[b].amount \in Nat
           /\ grants[b].expired \in Nat /\ grants[b].expires \in Nat
           /\ \A r \in Refs : DrawnOf(b)[r] \in Nat /\ DrawnOf(b)[r] = uses[r][b]
           /\ IsFiniteSet(Refs) /\ DOMAIN DrawnOf(b) = Refs
           /\ SumFunction(DrawnOf(b)) = SumFunctionOnSet(DrawnOf(b), Refs)
           /\ SumFunction(DrawnOf(b)) \in Nat
           /\ grants[b].amount = grants[b].remaining + grants[b].expired + SumFunction(DrawnOf(b))
<1>1. TypeOK /\ BatchUnitsConserved
  BY DEF LedgerInv
<1>2. grants[b] \in Grant
  BY <1>1, BatchTypes
<1>3. grants[b].remaining \in Nat /\ grants[b].amount \in Nat /\ grants[b].expired \in Nat /\ grants[b].expires \in Nat
  BY <1>2 DEF Grant
<1>4. /\ \A r \in Refs : DrawnOf(b)[r] \in Nat /\ DrawnOf(b)[r] = uses[r][b]
      /\ DOMAIN DrawnOf(b) = Refs
  BY <1>1 DEF TypeOK, DrawnOf
<1>5. IsFiniteSet(Refs)
  BY PaymentsAssumption
<1>6. SumFunction(DrawnOf(b)) = SumFunctionOnSet(DrawnOf(b), Refs)
  BY <1>4 DEF SumFunction
<1>7. SumFunctionOnSet(DrawnOf(b), Refs) \in Nat
  BY <1>4, <1>5, SumOfNats
<1>8. grants[b].amount = grants[b].remaining + grants[b].expired + SumFunction(DrawnOf(b))
  BY <1>1 DEF BatchUnitsConserved
<1> QED
  BY <1>2, <1>3, <1>4, <1>5, <1>6, <1>7, <1>8

(* What a generation holds of a batch is no more than the batch ever had   *)
(* beyond what is in it.                                                   *)
LEMMA HeldIsMissing ==
    ASSUME LedgerInv, NEW b \in Batches, NEW r \in Refs
    PROVE  uses[r][b] \in Nat /\ uses[r][b] <= grants[b].amount - grants[b].remaining
<1>1. DrawnOf(b)[r] \in Nat /\ DrawnOf(b)[r] = uses[r][b]
  BY BookTypes
<1>2. DrawnOf(b)[r] <= SumFunctionOnSet(DrawnOf(b), Refs)
  <2>1. IsFiniteSet(Refs) /\ \A q \in Refs : DrawnOf(b)[q] \in Nat
    BY BookTypes
  <2> QED
    BY <2>1, MemberAtMostSum
<1>3. /\ grants[b].remaining \in Nat /\ grants[b].amount \in Nat /\ grants[b].expired \in Nat
      /\ SumFunctionOnSet(DrawnOf(b), Refs) \in Nat
      /\ grants[b].amount = grants[b].remaining + grants[b].expired + SumFunctionOnSet(DrawnOf(b), Refs)
  BY BookTypes
<1> QED
  BY <1>1, <1>2, <1>3

(* The state after a row that is not refused. *)
Posted(r, amount, newHold, moved) ==
    /\ balance' = balance + amount
    /\ grants' = [b \in Batches |-> [grants[b] EXCEPT !.remaining = @ - moved[b]]]
    /\ uses' = [uses EXCEPT ![r] = [b \in Batches |-> uses[r][b] + moved[b]]]
    /\ holds' = [holds EXCEPT ![r] = newHold]
    /\ UNCHANGED refused

(* No constraint refuses a row that leaves the balance at zero or more. *)
LEMMA RowIsAccepted ==
    ASSUME LedgerInv, NEW r \in Refs, NEW amount \in Int, balance + amount >= 0,
           NEW newHold, Post(r, amount, newHold)
    PROVE  \E moved : MovesOf(r, amount, moved) /\ Posted(r, amount, newHold, moved)
<1> DEFINE gs(m) == [b \in Batches |-> [grants[b] EXCEPT !.remaining = @ - m[b]]]
           us(m) == [b \in Batches |-> uses[r][b] + m[b]]
<1>1. PICK moved \in Moves(r, amount) :
        \/ ChecksHold(balance + amount, gs(moved), us(moved)) /\ Posted(r, amount, newHold, moved)
        \/ ~ChecksHold(balance + amount, gs(moved), us(moved))
  BY DEF Post, Posted
<1>2. MovesOf(r, amount, moved)
  BY MovesMove DEF LedgerInv
<1>3. ASSUME NEW b \in Batches
      PROVE  gs(moved)[b].remaining \in 0..gs(moved)[b].amount /\ us(moved)[b] >= 0
  <2>1. /\ moved[b] \in Int /\ moved[b] <= grants[b].remaining /\ -moved[b] <= uses[r][b]
    BY <1>2 DEF MovesOf
  <2>2. grants[b] \in Grant /\ grants[b].remaining \in Nat /\ grants[b].amount \in Nat
    BY BookTypes
  <2>3. uses[r][b] \in Nat /\ uses[r][b] <= grants[b].amount - grants[b].remaining
    BY HeldIsMissing
  <2>4. gs(moved)[b].remaining = grants[b].remaining - moved[b] /\ gs(moved)[b].amount = grants[b].amount
    BY <2>2 DEF Grant
  <2> QED
    BY <2>1, <2>2, <2>3, <2>4
<1>4. ChecksHold(balance + amount, gs(moved), us(moved))
  BY <1>3 DEF ChecksHold
<1> QED
  BY <1>1, <1>2, <1>4
(* The units a row moves are in the batches or with the generation, and    *)
(* nothing else of a batch changes.                                        *)
LEMMA RowMovesUnits ==
    ASSUME LedgerInv, NEW r \in Refs, NEW amount \in Int, balance + amount >= 0,
           NEW newHold \in Hold, NEW moved,
           MovesOf(r, amount, moved), Posted(r, amount, newHold, moved)
    PROVE  /\ Batches' = Batches /\ grants' \in Seq(Grant)
           /\ balance' \in Nat /\ holds' \in [Refs -> Hold]
           /\ uses' \in [Refs -> [Batches -> Nat]]
           /\ \A b \in Batches :
                /\ moved[b] \in Int
                /\ grants'[b].remaining = grants[b].remaining - moved[b]
                /\ grants'[b].amount = grants[b].amount
                /\ grants'[b].expired = grants[b].expired
                /\ grants'[b].expires = grants[b].expires
           /\ \A q \in Refs, b \in Batches :
                uses'[q][b] = IF q = r THEN uses[q][b] + moved[b] ELSE uses[q][b]
<1> USE DEF Posted
<1>1. TypeOK
  BY DEF LedgerInv
<1>2. balance' \in Nat /\ holds' \in [Refs -> Hold] /\ Batches' = Batches
  BY <1>1 DEF TypeOK, Batches
<1>3. ASSUME NEW b \in Batches
      PROVE  /\ moved[b] \in Int
             /\ grants'[b].remaining = grants[b].remaining - moved[b]
             /\ grants'[b].amount = grants[b].amount
             /\ grants'[b].expired = grants[b].expired
             /\ grants'[b].expires = grants[b].expires
             /\ uses[r][b] + moved[b] \in Nat
             /\ [grants[b] EXCEPT !.remaining = @ - moved[b]] \in Grant
  <2>1. moved[b] \in Int /\ moved[b] <= grants[b].remaining /\ -moved[b] <= uses[r][b]
    BY DEF MovesOf
  <2>2. grants[b] \in Grant /\ grants[b].remaining \in Nat /\ uses[r][b] \in Nat
    BY BookTypes, HeldIsMissing
  <2>3. grants'[b] = [grants[b] EXCEPT !.remaining = @ - moved[b]]
    OBVIOUS
  <2>4. grants[b].remaining - moved[b] \in Nat /\ uses[r][b] + moved[b] \in Nat
    BY <2>1, <2>2
  <2> QED
    BY <2>1, <2>2, <2>3, <2>4 DEF Grant
<1>4. grants' \in Seq(Grant)
  <2>1. grants' \in [1..Len(grants) -> Grant] /\ Len(grants) \in Nat
    BY <1>1, <1>3, BatchTypes
  <2> QED
    BY <2>1, SeqDef
<1>5. uses' \in [Refs -> [Batches -> Nat]]
  <2>1. [b \in Batches |-> uses[r][b] + moved[b]] \in [Batches -> Nat]
    BY <1>3
  <2>2. uses \in [Refs -> [Batches -> Nat]]
    BY <1>1 DEF TypeOK
  <2> QED
    BY <2>1, <2>2
<1>6. \A q \in Refs, b \in Batches :
        uses'[q][b] = IF q = r THEN uses[q][b] + moved[b] ELSE uses[q][b]
  BY <1>1 DEF TypeOK
<1> QED
  BY <1>2, <1>3, <1>4, <1>5, <1>6

(* What the generation holds of the batches changes by what was moved,     *)
(* what is left in them by the opposite, and no batch loses a unit.        *)
LEMMA RowKeepsBatches ==
    ASSUME LedgerInv, NEW r \in Refs, NEW amount \in Int, balance + amount >= 0,
           NEW newHold \in Hold, NEW moved,
           MovesOf(r, amount, moved), Posted(r, amount, newHold, moved)
    PROVE  /\ SumFunctionOnSet(moved, Batches) \in Int
           /\ RemainingOf(grants) \in Nat /\ SumFunction(uses[r]) \in Nat
           /\ RemainingOf(grants') = RemainingOf(grants) - SumFunctionOnSet(moved, Batches)
           /\ SumFunction(uses'[r]) = SumFunction(uses[r]) + SumFunctionOnSet(moved, Batches)
           /\ BatchesAreCovered' /\ BatchUnitsConserved'
           /\ SumFunction(Granted') = SumFunction(Granted)
<1> DEFINE sum == SumFunctionOnSet(moved, Batches)
<1>1. /\ Batches' = Batches
      /\ grants' \in Seq(Grant)
      /\ uses' \in [Refs -> [Batches -> Nat]]
      /\ \A b \in Batches :
           /\ moved[b] \in Int
           /\ grants'[b].remaining = grants[b].remaining - moved[b]
           /\ grants'[b].amount = grants[b].amount
           /\ grants'[b].expired = grants[b].expired
  BY RowMovesUnits
<1>2. \A q \in Refs, b \in Batches :
        uses'[q][b] = IF q = r THEN uses[q][b] + moved[b] ELSE uses[q][b]
  BY RowMovesUnits
<1>3. TypeOK /\ IsFiniteSet(Batches) /\ uses \in [Refs -> [Batches -> Nat]]
  BY BatchTypes DEF LedgerInv, TypeOK
<1>4. sum \in Int
  BY <1>1, <1>3, SumIsInteger
<1>5. /\ RemainingOf(grants) = SumFunctionOnSet(Remaining(grants), Batches)
      /\ RemainingOf(grants) \in Nat
      /\ \A b \in Batches : Remaining(grants)[b] = grants[b].remaining /\ grants[b].remaining \in Nat
  <2>1. \A b \in Batches : Remaining(grants)[b] = grants[b].remaining
    BY DEF Remaining, Batches
  <2> QED
    BY <1>3, <2>1, BatchTypes, BookTypes
<1>6. /\ RemainingOf(grants') = SumFunctionOnSet(Remaining(grants'), Batches)
      /\ \A b \in Batches : Remaining(grants')[b] = grants[b].remaining - moved[b]
  <2>1. DOMAIN grants' = Batches
    BY <1>1 DEF Batches
  <2> QED
    BY <1>1, <2>1 DEF Remaining, RemainingOf, SumFunction
<1>7. RemainingOf(grants') = RemainingOf(grants) - sum
  <2>1. \A b \in Batches : /\ Remaining(grants')[b] \in Int /\ moved[b] \in Int
                           /\ Remaining(grants)[b] = Remaining(grants')[b] + moved[b]
    BY <1>1, <1>5, <1>6
  <2>2. IsFiniteSet(Batches)
    BY <1>3
  <2>3. SumFunctionOnSet(Remaining(grants), Batches) = SumFunctionOnSet(Remaining(grants'), Batches) + sum
    BY <2>1, <2>2, SumOfSums
  <2>4. SumFunctionOnSet(Remaining(grants'), Batches) \in Int
    BY <2>1, <2>2, SumIsInteger
  <2> HIDE DEF sum
  <2> QED
    BY <1>4, <1>5, <1>6, <2>3, <2>4
<1>8. SumFunction(uses'[r]) = SumFunction(uses[r]) + sum /\ SumFunction(uses[r]) \in Nat
  <2>1. /\ SumFunction(uses'[r]) = SumFunctionOnSet(uses'[r], Batches)
        /\ SumFunction(uses[r]) = SumFunctionOnSet(uses[r], Batches)
    BY <1>1, <1>3 DEF SumFunction
  <2>2. \A b \in Batches : uses[r][b] \in Nat /\ moved[b] \in Int /\ uses'[r][b] = uses[r][b] + moved[b]
    BY <1>1, <1>2, <1>3
  <2>3. IsFiniteSet(Batches)
    BY <1>3
  <2>4. SumFunctionOnSet(uses'[r], Batches) = SumFunctionOnSet(uses[r], Batches) + sum
    <3>1. \A b \in Batches : uses[r][b] \in Int /\ moved[b] \in Int /\ uses'[r][b] = uses[r][b] + moved[b]
      BY <2>2
    <3> QED
      BY <2>3, <3>1, SumOfSums
  <2>5. SumFunctionOnSet(uses[r], Batches) \in Nat
    BY <2>2, <2>3, SumOfNats
  <2> QED
    BY <2>1, <2>4, <2>5
<1>9. BatchesAreCovered'
  <2>1. RemainingOf(grants) <= balance /\ balance \in Nat /\ balance' = balance + amount
    BY <1>3 DEF LedgerInv, BatchesAreCovered, TypeOK, Posted
  <2>2. /\ amount < 0 => sum = SmallerOf(-amount, RemainingOf(grants))
        /\ amount >= 0 => sum = -SmallerOf(amount, SumFunction(uses[r]))
    BY DEF MovesOf
  <2>3. RemainingOf(grants') <= balance'
    <3> HIDE DEF sum
    <3> QED
      BY <1>4, <1>5, <1>7, <1>8, <2>1, <2>2 DEF SmallerOf
  <2> QED
    BY <2>3 DEF BatchesAreCovered
<1>10. BatchUnitsConserved'
  <2>1. ASSUME NEW b \in Batches
        PROVE  grants'[b].amount = grants'[b].remaining + grants'[b].expired + SumFunction(DrawnOf(b)')
    <3>1. /\ IsFiniteSet(Refs) /\ \A q \in Refs : DrawnOf(b)[q] \in Nat /\ DrawnOf(b)[q] = uses[q][b]
          /\ SumFunction(DrawnOf(b)) = SumFunctionOnSet(DrawnOf(b), Refs)
          /\ SumFunction(DrawnOf(b)) \in Nat
      BY BookTypes
    <3>2. /\ SumFunction(DrawnOf(b)') = SumFunctionOnSet(DrawnOf(b)', Refs)
          /\ \A q \in Refs : DrawnOf(b)'[q] = uses'[q][b]
      BY DEF DrawnOf, SumFunction
    <3>3. /\ \A q \in Refs : DrawnOf(b)[q] \in Int /\ DrawnOf(b)'[q] \in Int
          /\ \A q \in Refs \ {r} : DrawnOf(b)'[q] = DrawnOf(b)[q]
          /\ DrawnOf(b)'[r] - DrawnOf(b)[r] = moved[b]
      BY <1>1, <1>2, <3>1, <3>2
    <3>4. SumFunctionOnSet(DrawnOf(b)', Refs) =
            SumFunctionOnSet(DrawnOf(b), Refs) + (DrawnOf(b)'[r] - DrawnOf(b)[r])
      <4>1. IsFiniteSet(Refs)
        BY <3>1
      <4> QED
        BY <3>3, <4>1, SumChanged
    <3>5. /\ grants[b].amount = grants[b].remaining + grants[b].expired + SumFunction(DrawnOf(b))
          /\ grants[b].remaining \in Nat /\ grants[b].expired \in Nat /\ moved[b] \in Int
          /\ grants'[b].remaining = grants[b].remaining - moved[b]
          /\ grants'[b].amount = grants[b].amount
          /\ grants'[b].expired = grants[b].expired
      BY <1>1, BookTypes
    <3>6. SumFunction(DrawnOf(b)') = SumFunction(DrawnOf(b)) + moved[b]
      BY <3>1, <3>2, <3>3, <3>4
    <3> QED
      BY <3>1, <3>5, <3>6
  <2> QED
    BY <1>1, <2>1 DEF BatchUnitsConserved
<1>11. SumFunction(Granted') = SumFunction(Granted)
  <2>1. Granted' = Granted
    BY <1>1 DEF Granted
  <2> QED
    BY <2>1
<1> QED
  BY <1>4, <1>5, <1>7, <1>8, <1>9, <1>10, <1>11
(* What a hold takes from the account. *)
TakenBy(hold) == IF hold.state = "open" THEN hold.reserved ELSE hold.charge

(* The other sums of the books. *)
LEMMA SumsAreIntegers ==
    ASSUME TypeOK, IsFiniteSet(paid)
    PROVE  /\ SumFunction(Bought) \in Int /\ SumFunction(Granted) \in Int
           /\ SumFunction(Bought) = SumFunctionOnSet(Bought, paid \cap Packs)
           /\ SumFunction(Granted) = SumFunctionOnSet(Granted, Batches)
           /\ IsFiniteSet(paid \cap Packs)
           /\ \A p \in paid \cap Packs : Bought[p] \in Int
           /\ \A b \in Batches : Granted[b] \in Int
<1>1. SumFunction(Bought) = SumFunctionOnSet(Bought, paid \cap Packs)
  BY DEF SumFunction, Bought
<1>2. SumFunction(Granted) = SumFunctionOnSet(Granted, Batches)
  BY DEF SumFunction, Granted
<1>3. IsFiniteSet(paid \cap Packs) /\ IsFiniteSet(Batches)
  <2>1. paid \cap Packs \subseteq paid
    OBVIOUS
  <2> QED
    BY <2>1, FS_Subset, BatchTypes
<1>4. \A p \in paid \cap Packs : Bought[p] \in Int
  BY UnitsAssumption DEF Bought
<1>5. \A b \in Batches : Granted[b] \in Int
  <2>1. \A b \in Batches : grants[b] \in Grant
    BY BatchTypes
  <2> QED
    BY <2>1 DEF Granted, Grant
<1>6. SumFunctionOnSet(Bought, paid \cap Packs) \in Int
  BY <1>3, <1>4, SumIsInteger
<1>7. SumFunctionOnSet(Granted, Batches) \in Int
  BY <1>3, <1>5, SumIsInteger
<1> QED
  BY <1>1, <1>2, <1>3, <1>4, <1>5, <1>6, <1>7

(* A row whose hold takes what the row does, and matches what it draws,    *)
(* keeps the invariant.                                                    *)
LEMMA RowKeepsBooks ==
    ASSUME LedgerInv, NEW r \in Refs, NEW amount \in Int, balance + amount >= 0,
           NEW newHold \in Hold, NEW moved,
           MovesOf(r, amount, moved), Posted(r, amount, newHold, moved),
           UNCHANGED <<paid, due, now>>,
           TakenBy(newHold) = TakenBy(holds[r]) - amount,
           newHold.state # "charged" => newHold.charge = 0,
           newHold.state = "open" =>
               SumFunction(uses[r]) + SumFunctionOnSet(moved, Batches) <= newHold.reserved,
           newHold.state \in {"none", "returned"} => \A b \in Batches : moved[b] = -uses[r][b]
    PROVE  LedgerInv'
<1>1. /\ TypeOK /\ BalanceIsLedgerSum /\ HoldsMatchUses /\ DueArePast /\ NothingRefused
      /\ IsFiniteSet(paid)
  BY DEF LedgerInv
<1>2. /\ Batches' = Batches /\ grants' \in Seq(Grant)
      /\ balance' \in Nat /\ holds' \in [Refs -> Hold]
      /\ uses' \in [Refs -> [Batches -> Nat]]
      /\ \A b \in Batches : grants'[b].expires = grants[b].expires
      /\ \A q \in Refs, b \in Batches :
           uses'[q][b] = IF q = r THEN uses[q][b] + moved[b] ELSE uses[q][b]
  BY RowMovesUnits
<1>3. TypeOK'
  BY <1>1, <1>2 DEF TypeOK, Posted
<1>4. DueArePast' /\ NothingRefused' /\ IsFiniteSet(paid')
  <2>1. due \subseteq Batches
    BY <1>1 DEF TypeOK
  <2> QED
    BY <1>1, <1>2, <2>1 DEF DueArePast, NothingRefused, Posted
<1>5. holds'[r] = newHold /\ \A q \in Refs \ {r} : holds'[q] = holds[q] /\ uses'[q] = uses[q]
  BY <1>1 DEF Posted, TypeOK
<1>6. HoldsMatchUses'
  <2>1. SumFunction(uses'[r]) = SumFunction(uses[r]) + SumFunctionOnSet(moved, Batches)
    BY RowKeepsBatches
  <2>2. ASSUME newHold.state \in {"none", "returned"}, NEW b \in Batches PROVE uses'[r][b] = 0
    <3>1. uses[r][b] \in Nat /\ moved[b] = -uses[r][b]
      BY <1>1, <2>2 DEF TypeOK
    <3> QED
      BY <1>2, <3>1
  <2>3. ASSUME NEW q \in Refs
        PROVE  /\ holds'[q].state = "open" => SumFunction(uses'[q]) <= holds'[q].reserved
               /\ holds'[q].state \in {"none", "returned"} => \A b \in Batches : uses'[q][b] = 0
               /\ holds'[q].state # "charged" => holds'[q].charge = 0
    <3>1. CASE q = r
      BY <1>5, <2>1, <2>2, <3>1
    <3>2. CASE q # r
      BY <1>1, <1>5, <3>2 DEF HoldsMatchUses
    <3> QED
      BY <3>1, <3>2
  <2> QED
    BY <1>2, <2>3 DEF HoldsMatchUses
<1>7. BalanceIsLedgerSum'
  <2>1. IsFiniteSet(Refs)
    BY PaymentsAssumption
  <2>2. \A q \in Refs : /\ Taken[q] = TakenBy(holds[q]) /\ Taken[q] \in Nat
                        /\ Taken'[q] = TakenBy(holds'[q]) /\ Taken'[q] \in Nat
    <3>1. \A q \in Refs : holds[q] \in Hold /\ holds'[q] \in Hold
      BY <1>1, <1>2 DEF TypeOK
    <3> QED
      BY <3>1 DEF Taken, TakenBy, Hold
  <2>3. SumFunction(Taken) = SumFunctionOnSet(Taken, Refs) /\ SumFunction(Taken') = SumFunctionOnSet(Taken', Refs)
    BY DEF SumFunction, Taken
  <2>4. /\ \A q \in Refs : Taken[q] \in Int /\ Taken'[q] \in Int
        /\ \A q \in Refs \ {r} : Taken'[q] = Taken[q]
    BY <1>5, <2>2
  <2>5. SumFunctionOnSet(Taken', Refs) = SumFunctionOnSet(Taken, Refs) + (Taken'[r] - Taken[r])
    BY <2>1, <2>4, SumChanged
  <2>6. Taken'[r] = Taken[r] - amount /\ Taken[r] \in Nat
    BY <1>5, <2>2
  <2>7. SumFunctionOnSet(Taken, Refs) \in Int
    BY <2>1, <2>4, SumIsInteger
  <2>8. SumFunction(Taken') = SumFunction(Taken) - amount /\ SumFunction(Taken) \in Int
    BY <2>3, <2>5, <2>6, <2>7
  <2>9. SumFunction(Granted') = SumFunction(Granted) /\ Bought' = Bought
    BY RowKeepsBatches DEF Bought
  <2>10. balance' = balance + amount /\ balance \in Nat /\ SignupUnits \in Nat
    BY <1>1, UnitsAssumption DEF Posted, TypeOK
  <2>11. SumFunction(Bought) \in Int /\ SumFunction(Granted) \in Int
    BY <1>1, SumsAreIntegers
  <2> QED
    BY <1>1, <2>8, <2>9, <2>10, <2>11 DEF BalanceIsLedgerSum
<1> QED
  BY <1>3, <1>4, <1>6, <1>7, RowKeepsBatches DEF LedgerInv
-----------------------------------------------------------------------------
(* The actions.                                                            *)

(* A reservation draws its uses from the batches.                          *)
LEMMA ReserveKeeps == ASSUME LedgerInv, NEW r \in Refs, Reserve(r) PROVE LedgerInv'
<1>1. PICK held : held = SmallerOf(HoldUnits, balance)
  OBVIOUS
<1> DEFINE newHold == [state |-> "open", reserved |-> held, charge |-> 0]
<1>2. /\ holds[r].state = "none" /\ balance >= MinUnits
      /\ Post(r, -held, newHold) /\ UNCHANGED <<paid, due, now>>
  BY <1>1 DEF Reserve
<1>3. balance \in Nat /\ HoldUnits \in Nat /\ holds[r] \in Hold /\ MinUnits \in Nat \ {0} /\ HoldUnits # 0
  BY UnitsAssumption DEF LedgerInv, TypeOK
<1>4. held \in Nat /\ held <= balance /\ held > 0
  BY <1>1, <1>2, <1>3 DEF SmallerOf
<1>5. newHold \in Hold
  BY <1>4 DEF Hold, HoldStates
<1>6. -held \in Int /\ balance + (-held) >= 0
  BY <1>3, <1>4
<1>7. PICK moved : MovesOf(r, -held, moved) /\ Posted(r, -held, newHold, moved)
  <2> HIDE DEF newHold
  <2> QED
    BY <1>2, <1>6, RowIsAccepted
<1>8. holds[r].charge = 0 /\ \A b \in Batches : uses[r][b] = 0
  BY <1>2 DEF LedgerInv, HoldsMatchUses
<1>9. TakenBy(newHold) = TakenBy(holds[r]) - (-held)
  BY <1>2, <1>4, <1>5, <1>8 DEF TakenBy
<1>10. SumFunction(uses[r]) + SumFunctionOnSet(moved, Batches) <= newHold.reserved
  <2>1. SumFunction(uses[r]) = 0
    <3>1. DOMAIN uses[r] = Batches /\ IsFiniteSet(Batches)
      BY BatchTypes DEF LedgerInv, TypeOK
    <3> QED
      BY <1>8, <3>1, SumOfZeros DEF SumFunction
  <2>2. SumFunctionOnSet(moved, Batches) = SmallerOf(held, RemainingOf(grants)) /\ RemainingOf(grants) \in Nat
    <3>1. RemainingOf(grants) \in Nat
      BY BatchTypes DEF LedgerInv
    <3>2. SumFunctionOnSet(moved, Batches) = SmallerOf(-(-held), RemainingOf(grants))
      BY <1>4, <1>7 DEF MovesOf
    <3> QED
      BY <1>4, <3>1, <3>2
  <2> QED
    BY <1>4, <1>5, <2>1, <2>2 DEF SmallerOf
<1>11. /\ newHold.state # "charged" => newHold.charge = 0
       /\ newHold.state \notin {"none", "returned"}
  OBVIOUS
<1> HIDE DEF newHold
<1> QED
  BY <1>2, <1>5, <1>6, <1>7, <1>9, <1>10, <1>11, RowKeepsBooks

(* A settlement moves the difference between the estimate and the charge.  *)
LEMMA SettleKeeps ==
    ASSUME LedgerInv, NEW r \in Refs, NEW cost \in Costs, Settle(r, cost) PROVE LedgerInv'
<1>1. PICK surplus, amount : /\ surplus = holds[r].reserved - cost
                             /\ amount = IF surplus >= 0 THEN surplus ELSE -SmallerOf(-surplus, balance)
  OBVIOUS
<1> DEFINE newHold == [state |-> "charged", reserved |-> holds[r].reserved,
                       charge |-> holds[r].reserved - amount]
<1>2. /\ holds[r].state = "open" /\ Post(r, amount, newHold) /\ UNCHANGED <<paid, due, now>>
  BY <1>1 DEF Settle
<1>3. balance \in Nat /\ holds[r] \in Hold /\ cost \in Nat
  BY UnitsAssumption DEF LedgerInv, TypeOK
<1>4. holds[r].reserved \in Nat /\ holds[r].charge \in Nat
  BY <1>3 DEF Hold
<1>5. amount \in Int /\ balance + amount >= 0 /\ holds[r].reserved - amount \in Nat
  BY <1>1, <1>3, <1>4 DEF SmallerOf
<1>7. newHold \in Hold
  BY <1>4, <1>5 DEF Hold, HoldStates
<1>8. PICK moved : MovesOf(r, amount, moved) /\ Posted(r, amount, newHold, moved)
  <2> HIDE DEF newHold
  <2> QED
    BY <1>2, <1>5, RowIsAccepted
<1>9. TakenBy(newHold) = TakenBy(holds[r]) - amount
  BY <1>2, <1>4, <1>5 DEF TakenBy
<1>10. newHold.state = "charged"
  OBVIOUS
<1> HIDE DEF newHold
<1> QED
  BY <1>2, <1>5, <1>7, <1>8, <1>9, <1>10, RowKeepsBooks

(* A refund gives every use back to its batch, or lets it expire there.    *)
LEMMA RefundKeeps == ASSUME LedgerInv, NEW r \in Refs, Refund(r) PROVE LedgerInv'
<1> DEFINE newHold == [holds[r] EXCEPT !.state = "returned"]
<1>1. PICK amount : amount = holds[r].reserved
  OBVIOUS
<1>2. /\ holds[r].state = "open" /\ Post(r, amount, newHold) /\ UNCHANGED <<paid, due, now>>
  BY <1>1 DEF Refund
<1>3. balance \in Nat /\ holds[r] \in Hold
  BY DEF LedgerInv, TypeOK
<1>4. amount \in Int /\ amount >= 0 /\ balance + amount >= 0
  BY <1>1, <1>3 DEF Hold
<1>5. holds[r].charge = 0 /\ SumFunction(uses[r]) <= amount
  BY <1>1, <1>2 DEF LedgerInv, HoldsMatchUses
<1>6. newHold = [state |-> "returned", reserved |-> amount, charge |-> 0] /\ newHold \in Hold
  BY <1>1, <1>3, <1>4, <1>5 DEF Hold, HoldStates
<1>7. PICK moved : MovesOf(r, amount, moved) /\ Posted(r, amount, newHold, moved)
  <2> HIDE DEF newHold
  <2> QED
    BY <1>2, <1>4, RowIsAccepted
<1>8. \A b \in Batches : moved[b] = -uses[r][b]
  BY <1>4, <1>5, <1>7 DEF MovesOf
<1>9. TakenBy(newHold) = TakenBy(holds[r]) - amount
  BY <1>1, <1>2, <1>4, <1>6 DEF TakenBy
<1>10. newHold.state = "returned" /\ newHold.charge = 0
  BY <1>6
<1> HIDE DEF newHold
<1> QED
  BY <1>2, <1>4, <1>6, <1>7, <1>8, <1>9, <1>10, RowKeepsBooks
(* A plan adds a batch that ends with its period.                          *)
LEMMA GrantPlanKeeps == ASSUME LedgerInv, NEW p \in Plans, GrantPlan(p) PROVE LedgerInv'
<1>1. PICK period \in Periods :
        grants' = Append(grants, [plan |-> p, amount |-> PlanUnits, remaining |-> PlanUnits,
                                  expires |-> now + period, expired |-> 0])
  BY DEF GrantPlan
<1>2. PICK new, n : /\ new = [plan |-> p, amount |-> PlanUnits, remaining |-> PlanUnits,
                              expires |-> now + period, expired |-> 0]
                    /\ n = Len(grants) + 1
  OBVIOUS
<1>3. /\ TypeOK /\ NothingRefused /\ BatchesAreCovered /\ BatchUnitsConserved
      /\ BalanceIsLedgerSum /\ HoldsMatchUses /\ DueArePast /\ IsFiniteSet(paid)
  BY DEF LedgerInv
<1>4. /\ balance' = balance + PlanUnits /\ paid' = paid \cup {p}
      /\ uses' = [r \in Refs |-> Append(uses[r], 0)] /\ UNCHANGED <<holds, due, now, refused>>
  BY DEF GrantPlan
<1>5. /\ PlanUnits \in Nat /\ SignupUnits \in Nat /\ period \in Nat /\ now \in Nat /\ balance \in Nat
      /\ Len(grants) \in Nat /\ Batches = 1..Len(grants) /\ IsFiniteSet(Batches)
      /\ grants \in Seq(Grant)
  BY <1>3, UnitsAssumption, BatchTypes DEF TypeOK
<1>6. new \in Grant
  BY <1>2, <1>5 DEF Grant
<1>7. /\ grants' \in Seq(Grant) /\ Batches' = Batches \cup {n} /\ n \notin Batches
      /\ grants'[n] = new /\ \A b \in Batches : grants'[b] = grants[b]
  <2>1. /\ grants' \in Seq(Grant) /\ Len(grants') = Len(grants) + 1
        /\ grants'[n] = new /\ \A b \in 1..Len(grants) : grants'[b] = grants[b]
    BY <1>1, <1>2, <1>5, <1>6, AppendProperties
  <2>2. DOMAIN grants' = 1..(Len(grants) + 1)
    BY <2>1, LenProperties
  <2> QED
    BY <1>2, <1>5, <2>1, <2>2 DEF Batches
<1>8. \A r \in Refs : /\ uses'[r] \in [Batches' -> Nat] /\ uses'[r][n] = 0
                      /\ \A b \in Batches : uses'[r][b] = uses[r][b] /\ uses[r][b] \in Nat
  <2>1. ASSUME NEW r \in Refs
        PROVE  /\ uses'[r] \in [Batches' -> Nat] /\ uses'[r][n] = 0
               /\ \A b \in Batches : uses'[r][b] = uses[r][b] /\ uses[r][b] \in Nat
    <3>1. uses[r] \in [1..Len(grants) -> Nat]
      BY <1>3, <1>5 DEF TypeOK
    <3>2. uses[r] \in Seq(Nat) /\ Len(uses[r]) = Len(grants)
      BY <1>5, <3>1, SeqDef, LenProperties
    <3>3. uses'[r] = Append(uses[r], 0)
      BY <1>4
    <3>4. /\ uses'[r] \in Seq(Nat) /\ Len(uses'[r]) = Len(grants) + 1 /\ uses'[r][n] = 0
          /\ \A b \in 1..Len(grants) : uses'[r][b] = uses[r][b]
      BY <1>2, <3>2, <3>3, AppendProperties
    <3>5. uses'[r] \in [1..(Len(grants) + 1) -> Nat]
      BY <3>4, ElementOfSeq, LenProperties
    <3>6. Batches' = 1..(Len(grants) + 1)
      BY <1>2, <1>5, <1>7
    <3> QED
      BY <1>5, <3>1, <3>4, <3>5, <3>6
  <2> QED
    BY <2>1
<1>9. TypeOK'
  <2>1. balance' \in Nat /\ paid' \subseteq Plans \cup Packs /\ due' \subseteq Batches'
    BY <1>3, <1>4, <1>5, <1>7 DEF TypeOK
  <2>2. uses' \in [Refs -> [Batches' -> Nat]]
    BY <1>4, <1>8
  <2> QED
    BY <1>3, <1>4, <1>7, <2>1, <2>2 DEF TypeOK
<1>10. DueArePast' /\ NothingRefused' /\ IsFiniteSet(paid')
  <2>1. due \subseteq Batches
    BY <1>3 DEF TypeOK
  <2>2. IsFiniteSet(paid')
    BY <1>3, <1>4, FS_AddElement
  <2> QED
    BY <1>3, <1>4, <1>7, <2>1, <2>2 DEF DueArePast, NothingRefused
<1>11. HoldsMatchUses'
  <2>1. ASSUME NEW r \in Refs PROVE SumFunction(uses'[r]) = SumFunction(uses[r])
    <3>1. /\ SumFunction(uses[r]) = SumFunctionOnSet(uses[r], Batches)
          /\ SumFunction(uses'[r]) = SumFunctionOnSet(uses'[r], Batches \cup {n})
      BY <1>3, <1>7, <1>8 DEF SumFunction, TypeOK
    <3>2. \A b \in Batches : uses[r][b] \in Int /\ uses'[r][b] = uses[r][b]
      BY <1>8
    <3>3. uses'[r][n] = 0 /\ uses'[r][n] \in Int /\ n \notin Batches /\ IsFiniteSet(Batches)
      BY <1>5, <1>7, <1>8
    <3>4. SumFunctionOnSet(uses'[r], Batches \cup {n}) = SumFunctionOnSet(uses[r], Batches) + uses'[r][n]
      BY <3>2, <3>3, SumExtended
    <3>5. SumFunctionOnSet(uses[r], Batches) \in Int
      BY <3>2, <3>3, SumIsInteger
    <3> QED
      BY <3>1, <3>3, <3>4, <3>5
  <2>2. ASSUME NEW r \in Refs, holds[r].state \in {"none", "returned"}, NEW b \in Batches'
        PROVE  uses'[r][b] = 0
    BY <1>3, <1>7, <1>8, <2>2 DEF HoldsMatchUses
  <2> QED
    BY <1>3, <1>4, <2>1, <2>2 DEF HoldsMatchUses
<1>12. BatchesAreCovered'
  <2>1. /\ RemainingOf(grants) = SumFunctionOnSet(Remaining(grants), Batches) /\ RemainingOf(grants) \in Nat
        /\ \A b \in Batches : Remaining(grants)[b] \in Int
    BY <1>3, BatchTypes
  <2>2. /\ RemainingOf(grants') = SumFunctionOnSet(Remaining(grants'), Batches \cup {n})
        /\ Remaining(grants')[n] = PlanUnits
        /\ \A b \in Batches : Remaining(grants')[b] = Remaining(grants)[b]
    <3>1. DOMAIN grants' = Batches \cup {n} /\ DOMAIN grants = Batches
      BY <1>7 DEF Batches
    <3>2. new.remaining = PlanUnits
      BY <1>2
    <3> QED
      BY <1>7, <3>1, <3>2 DEF Remaining, RemainingOf, SumFunction
  <2>3. /\ n \notin Batches /\ IsFiniteSet(Batches) /\ Remaining(grants')[n] \in Int
        /\ \A b \in Batches : Remaining(grants)[b] \in Int /\ Remaining(grants')[b] = Remaining(grants)[b]
    BY <1>5, <1>7, <2>1, <2>2
  <2>4. SumFunctionOnSet(Remaining(grants'), Batches \cup {n}) =
          SumFunctionOnSet(Remaining(grants), Batches) + Remaining(grants')[n]
    BY <2>3, SumExtended
  <2> QED
    BY <1>3, <1>4, <1>5, <2>1, <2>2, <2>4 DEF BatchesAreCovered
<1>13. BatchUnitsConserved'
  <2>1. ASSUME NEW b \in Batches
        PROVE  grants'[b].amount = grants'[b].remaining + grants'[b].expired + SumFunction(DrawnOf(b)')
    <3>1. DrawnOf(b)' = DrawnOf(b)
      BY <1>8 DEF DrawnOf
    <3> QED
      BY <1>3, <1>7, <3>1 DEF BatchUnitsConserved
  <2>2. grants'[n].amount = grants'[n].remaining + grants'[n].expired + SumFunction(DrawnOf(n)')
    <3>1. SumFunction(DrawnOf(n)') = SumFunctionOnSet(DrawnOf(n)', Refs) /\ \A r \in Refs : DrawnOf(n)'[r] = 0
      BY <1>8 DEF DrawnOf, SumFunction
    <3>2. IsFiniteSet(Refs)
      BY PaymentsAssumption
    <3>3. SumFunctionOnSet(DrawnOf(n)', Refs) = 0
      BY <3>1, <3>2, SumOfZeros
    <3>4. grants'[n].amount = PlanUnits /\ grants'[n].remaining = PlanUnits /\ grants'[n].expired = 0
      BY <1>2, <1>7
    <3> QED
      BY <1>5, <3>1, <3>3, <3>4
  <2> QED
    BY <1>7, <2>1, <2>2 DEF BatchUnitsConserved
<1>14. BalanceIsLedgerSum'
  <2>1. /\ SumFunction(Bought) \in Int /\ SumFunction(Granted) \in Int
        /\ SumFunction(Granted) = SumFunctionOnSet(Granted, Batches)
        /\ \A b \in Batches : Granted[b] \in Int
    BY <1>3, SumsAreIntegers
  <2>2. SumFunction(Granted') = SumFunction(Granted) + PlanUnits
    <3>1. /\ SumFunction(Granted') = SumFunctionOnSet(Granted', Batches \cup {n})
          /\ Granted'[n] = PlanUnits /\ \A b \in Batches : Granted'[b] = Granted[b]
      <4>1. new.amount - new.expired = PlanUnits
        BY <1>2, <1>5
      <4>2. Granted' = [b \in Batches \cup {n} |-> grants'[b].amount - grants'[b].expired]
        BY <1>7 DEF Granted
      <4>3. Granted'[n] = PlanUnits /\ \A b \in Batches : Granted'[b] = Granted[b]
        BY <1>7, <4>1, <4>2 DEF Granted
      <4> QED
        BY <4>2, <4>3 DEF SumFunction
    <3>2. /\ n \notin Batches /\ IsFiniteSet(Batches) /\ Granted'[n] \in Int
          /\ \A b \in Batches : Granted[b] \in Int /\ Granted'[b] = Granted[b]
      BY <1>5, <1>7, <2>1, <3>1
    <3>3. SumFunctionOnSet(Granted', Batches \cup {n}) = SumFunctionOnSet(Granted, Batches) + Granted'[n]
      BY <3>2, SumExtended
    <3> QED
      BY <2>1, <3>1, <3>3
  <2>3. Bought' = Bought
    <3>1. paid' \cap Packs = paid \cap Packs
      BY <1>4, PaymentsAssumption
    <3> QED
      BY <3>1 DEF Bought
  <2>4. Taken' = Taken
    BY <1>4 DEF Taken
  <2>5. SumFunction(Taken) \in Int
    <3>1. \A r \in Refs : Taken[r] \in Int
      BY <1>3 DEF Taken, TypeOK, Hold
    <3>2. SumFunction(Taken) = SumFunctionOnSet(Taken, Refs)
      BY DEF Taken, SumFunction
    <3> QED
      BY <3>1, <3>2, SumIsInteger, PaymentsAssumption
  <2> QED
    BY <1>3, <1>4, <1>5, <2>1, <2>2, <2>3, <2>4, <2>5 DEF BalanceIsLedgerSum
<1> QED
  BY <1>9, <1>10, <1>11, <1>12, <1>13, <1>14 DEF LedgerInv
(* A step that leaves the account and its batches alone keeps the books. *)
LEMMA BooksUntouched ==
    ASSUME LedgerInv, UNCHANGED <<balance, grants, uses, holds, paid, refused>>,
           due' \subseteq Batches, now' \in 0..MaxTime,
           \A b \in due' : grants[b].expires <= now'
    PROVE  LedgerInv'
<1>1. /\ TypeOK /\ NothingRefused /\ BatchesAreCovered /\ BatchUnitsConserved
      /\ BalanceIsLedgerSum /\ HoldsMatchUses /\ IsFiniteSet(paid)
  BY DEF LedgerInv
<1>2. Batches' = Batches
  BY DEF Batches
<1>3. TypeOK' /\ NothingRefused' /\ DueArePast'
  BY <1>1, <1>2 DEF TypeOK, NothingRefused, DueArePast
<1>4. BatchesAreCovered'
  BY <1>1 DEF BatchesAreCovered
<1>5. BatchUnitsConserved'
  BY <1>1, <1>2 DEF BatchUnitsConserved, DrawnOf
<1>6. BalanceIsLedgerSum'
  BY <1>1, <1>2 DEF BalanceIsLedgerSum, Granted, Bought, Taken
<1>7. HoldsMatchUses' /\ IsFiniteSet(paid')
  BY <1>1, <1>2 DEF HoldsMatchUses
<1> QED
  BY <1>3, <1>4, <1>5, <1>6, <1>7 DEF LedgerInv

(* A pack adds a batch of its own.                                         *)
LEMMA BuyPackKeeps == ASSUME LedgerInv, NEW p \in Packs, BuyPack(p) PROVE LedgerInv'
<1>1. /\ TypeOK /\ NothingRefused /\ BatchesAreCovered /\ BatchUnitsConserved
      /\ BalanceIsLedgerSum /\ HoldsMatchUses /\ DueArePast /\ IsFiniteSet(paid)
  BY DEF LedgerInv
<1>2. /\ p \notin paid /\ balance' = balance + PackUnits /\ paid' = paid \cup {p}
      /\ UNCHANGED <<grants, uses, holds, due, now, refused>>
  BY DEF BuyPack
<1>3. /\ PackUnits \in Nat /\ SignupUnits \in Nat /\ balance \in Nat /\ RemainingOf(grants) \in Nat
      /\ Batches' = Batches
  BY <1>1, <1>2, UnitsAssumption, BatchTypes DEF TypeOK, Batches
<1>4. TypeOK' /\ NothingRefused' /\ DueArePast'
  BY <1>1, <1>2, <1>3 DEF TypeOK, NothingRefused, DueArePast
<1>5. IsFiniteSet(paid')
  BY <1>1, <1>2, FS_AddElement
<1>6. BatchesAreCovered'
  BY <1>1, <1>2, <1>3 DEF BatchesAreCovered
<1>7. BatchUnitsConserved' /\ HoldsMatchUses'
  BY <1>1, <1>2, <1>3 DEF BatchUnitsConserved, HoldsMatchUses, DrawnOf
<1>8. BalanceIsLedgerSum'
  <2>1. Granted' = Granted /\ Taken' = Taken
    BY <1>2, <1>3 DEF Granted, Taken
  <2>2. /\ SumFunction(Bought) \in Int /\ SumFunction(Granted) \in Int
        /\ SumFunction(Bought) = SumFunctionOnSet(Bought, paid \cap Packs)
        /\ IsFiniteSet(paid \cap Packs) /\ \A q \in paid \cap Packs : Bought[q] \in Int
    BY <1>1, SumsAreIntegers
  <2>3. paid' \cap Packs = (paid \cap Packs) \cup {p} /\ p \notin paid \cap Packs
    BY <1>2
  <2>4. SumFunction(Bought') = SumFunctionOnSet(Bought', (paid \cap Packs) \cup {p})
    BY <2>3 DEF Bought, SumFunction
  <2>5. Bought'[p] = PackUnits /\ \A q \in paid \cap Packs : Bought'[q] = Bought[q]
    BY <2>3 DEF Bought
  <2>6. Bought'[p] \in Int /\ \A q \in paid \cap Packs : Bought[q] \in Int /\ Bought'[q] = Bought[q]
    BY <1>3, <2>2, <2>5
  <2>7. SumFunctionOnSet(Bought', (paid \cap Packs) \cup {p}) =
          SumFunctionOnSet(Bought, paid \cap Packs) + Bought'[p]
    <3>1. PICK packs : packs = paid \cap Packs
      OBVIOUS
    <3>2. IsFiniteSet(packs) /\ p \notin packs
      BY <2>2, <2>3, <3>1
    <3>3. Bought'[p] \in Int /\ \A q \in packs : Bought[q] \in Int /\ Bought'[q] = Bought[q]
      BY <2>6, <3>1
    <3>4. SumFunctionOnSet(Bought', packs \cup {p}) = SumFunctionOnSet(Bought, packs) + Bought'[p]
      BY <3>2, <3>3, SumExtended
    <3> QED
      BY <3>1, <3>4
  <2>8. SumFunction(Taken) \in Int
    <3>1. \A r \in Refs : Taken[r] \in Int
      BY <1>1 DEF Taken, TypeOK, Hold
    <3>2. SumFunction(Taken) = SumFunctionOnSet(Taken, Refs)
      BY DEF Taken, SumFunction
    <3> QED
      BY <3>1, <3>2, SumIsInteger, PaymentsAssumption
  <2>9. SumFunction(Bought') = SumFunction(Bought) + PackUnits
    BY <2>2, <2>4, <2>5, <2>7
  <2> QED
    BY <1>1, <1>2, <1>3, <2>1, <2>2, <2>8, <2>9 DEF BalanceIsLedgerSum
<1> QED
  BY <1>4, <1>5, <1>6, <1>7, <1>8 DEF LedgerInv

(* A sweep picks the batches that are due.                                 *)
LEMMA SelectKeeps == ASSUME LedgerInv, ExpireSelect PROVE LedgerInv'
<1>1. /\ due' \subseteq {b \in Batches : grants[b].remaining > 0 /\ grants[b].expires <= now}
      /\ UNCHANGED <<balance, grants, uses, holds, paid, now, refused>>
  BY DEF ExpireSelect
<1>2. now \in 0..MaxTime
  BY DEF LedgerInv, TypeOK
<1> QED
  BY <1>1, <1>2, BooksUntouched

(* A sweep ends before the batches it has not reached.                     *)
LEMMA StopKeeps == ASSUME LedgerInv, SweepStops PROVE LedgerInv'
<1>1. due' = {} /\ now' \in 0..MaxTime /\ UNCHANGED <<balance, grants, uses, holds, paid, refused>>
  BY DEF LedgerInv, TypeOK, SweepStops
<1> QED
  BY <1>1, BooksUntouched

(* Time alone moves no unit.                                               *)
LEMMA TickKeeps == ASSUME LedgerInv, Tick PROVE LedgerInv'
<1>1. /\ now \in 0..MaxTime /\ MaxTime \in Nat /\ due \subseteq Batches
      /\ \A b \in due : grants[b].expires <= now
  BY UnitsAssumption DEF LedgerInv, TypeOK, DueArePast
<1>2. /\ now' = now + 1 /\ now < MaxTime /\ due' = due
      /\ UNCHANGED <<balance, grants, uses, holds, paid, refused>>
  BY DEF Tick
<1>3. \A b \in due' : grants[b].expires <= now'
  <2>1. \A b \in due : grants[b].expires \in Nat
    BY <1>1, BookTypes
  <2> QED
    BY <1>1, <1>2, <2>1
<1> QED
  BY <1>1, <1>2, <1>3, BooksUntouched
(* What an expiry does: all that is left of one batch goes, and the        *)
(* account covers it.                                                      *)
LEMMA ExpireTakes ==
    ASSUME LedgerInv, NEW b \in due, Expire(b), grants[b].remaining > 0
    PROVE  /\ balance' = balance - grants[b].remaining /\ refused' = refused
           /\ grants' \in [Batches -> Grant] /\ Batches' = Batches
           /\ grants'[b].remaining = 0 /\ grants'[b].amount = grants[b].amount
           /\ grants'[b].expires = grants[b].expires
           /\ grants'[b].expired = grants[b].expired + grants[b].remaining
           /\ \A a \in Batches \ {b} : grants'[a] = grants[a]
           /\ RemainingOf(grants') = RemainingOf(grants) - grants[b].remaining
           /\ grants[b].remaining <= RemainingOf(grants) /\ RemainingOf(grants) <= balance
<1>1. /\ TypeOK /\ BatchesAreCovered /\ due \subseteq Batches /\ b \in Batches
      /\ RemainingOf(grants) <= balance /\ balance \in Nat
  BY DEF LedgerInv, TypeOK, BatchesAreCovered
<1>2. /\ IsFiniteSet(Batches) /\ grants \in [Batches -> Grant] /\ RemainingOf(grants) \in Nat
      /\ RemainingOf(grants) = SumFunctionOnSet(Remaining(grants), Batches)
      /\ \A a \in Batches : Remaining(grants)[a] \in Nat
  BY <1>1, BatchTypes
<1>3. \A a \in Batches : Remaining(grants)[a] = grants[a].remaining
  BY DEF Remaining, Batches
<1>4. grants[b].remaining <= RemainingOf(grants)
  <2>1. Remaining(grants)[b] <= SumFunctionOnSet(Remaining(grants), Batches)
    BY <1>1, <1>2, MemberAtMostSum
  <2> QED
    BY <1>1, <1>2, <1>3, <2>1
<1>5. grants[b].remaining \in Nat /\ grants[b].expired \in Nat /\ grants[b] \in Grant
  BY <1>1, BookTypes
<1>6. /\ balance' = balance - grants[b].remaining /\ refused' = refused
      /\ grants' = [grants EXCEPT ![b].remaining = 0, ![b].expired = @ + grants[b].remaining]
  BY <1>1, <1>2, <1>4, <1>5 DEF Expire
<1>7. /\ grants' \in [Batches -> Grant]
      /\ grants'[b].remaining = 0 /\ grants'[b].amount = grants[b].amount
      /\ grants'[b].expires = grants[b].expires
      /\ grants'[b].expired = grants[b].expired + grants[b].remaining
      /\ \A a \in Batches \ {b} : grants'[a] = grants[a]
  BY <1>1, <1>2, <1>5, <1>6 DEF Grant
<1>8. Batches' = Batches
  BY <1>7 DEF Batches
<1>9. RemainingOf(grants') = RemainingOf(grants) - grants[b].remaining
  <2>1. /\ RemainingOf(grants') = SumFunctionOnSet(Remaining(grants'), Batches)
        /\ \A a \in Batches : Remaining(grants')[a] = grants'[a].remaining
    <3>1. DOMAIN grants' = Batches
      BY <1>7
    <3> QED
      BY <3>1 DEF Remaining, RemainingOf, SumFunction
  <2>2. /\ \A a \in Batches : Remaining(grants)[a] \in Int /\ Remaining(grants')[a] \in Int
        /\ \A a \in Batches \ {b} : Remaining(grants')[a] = Remaining(grants)[a]
        /\ Remaining(grants')[b] = 0 /\ Remaining(grants)[b] = grants[b].remaining
    <3>1. \A a \in Batches : grants'[a].remaining \in Nat
      BY <1>7 DEF Grant
    <3> QED
      BY <1>1, <1>2, <1>3, <1>7, <2>1, <3>1
  <2>3. SumFunctionOnSet(Remaining(grants'), Batches) =
          SumFunctionOnSet(Remaining(grants), Batches) + (Remaining(grants')[b] - Remaining(grants)[b])
    <3>1. IsFiniteSet(Batches)
      BY <1>2
    <3> QED
      BY <1>1, <2>2, <3>1, SumChanged
  <2> QED
    BY <1>2, <1>5, <2>1, <2>2, <2>3
<1> QED
  BY <1>1, <1>4, <1>6, <1>7, <1>8, <1>9
(* An expired batch ends empty, and the balance loses what was left of it. *)
LEMMA ExpireKeeps == ASSUME LedgerInv, NEW b \in due, Expire(b) PROVE LedgerInv'
<1>1. /\ TypeOK /\ NothingRefused /\ BatchUnitsConserved /\ BalanceIsLedgerSum
      /\ HoldsMatchUses /\ DueArePast /\ IsFiniteSet(paid)
      /\ due \subseteq Batches /\ b \in Batches /\ now \in 0..MaxTime
  BY DEF LedgerInv, TypeOK
<1>2. due' = due \ {b} /\ UNCHANGED <<uses, holds, paid, now>>
  BY DEF Expire
<1>3. grants[b].remaining \in Nat /\ grants[b].expired \in Nat /\ grants[b].amount \in Nat
  BY <1>1, BookTypes
<1>4. CASE grants[b].remaining <= 0
  <2>1. UNCHANGED <<balance, grants, uses, holds, paid, refused>>
    BY <1>2, <1>3, <1>4 DEF Expire
  <2>2. due' \subseteq Batches /\ now' \in 0..MaxTime /\ \A a \in due' : grants[a].expires <= now'
    BY <1>1, <1>2 DEF DueArePast
  <2> QED
    BY <2>1, <2>2, BooksUntouched
<1>5. CASE grants[b].remaining > 0
  <2>1. /\ balance' = balance - grants[b].remaining /\ refused' = refused
        /\ grants' \in [Batches -> Grant] /\ Batches' = Batches
        /\ grants'[b].remaining = 0 /\ grants'[b].amount = grants[b].amount
        /\ grants'[b].expires = grants[b].expires
        /\ grants'[b].expired = grants[b].expired + grants[b].remaining
        /\ \A a \in Batches \ {b} : grants'[a] = grants[a]
        /\ RemainingOf(grants') = RemainingOf(grants) - grants[b].remaining
        /\ grants[b].remaining <= RemainingOf(grants) /\ RemainingOf(grants) <= balance
    BY <1>5, ExpireTakes
  <2>2. /\ RemainingOf(grants) \in Nat /\ balance \in Nat /\ Len(grants) \in Nat
        /\ Batches = 1..Len(grants) /\ IsFiniteSet(Batches)
    BY <1>1, BatchTypes DEF TypeOK
  <2>3. TypeOK'
    <3>1. grants' \in Seq(Grant)
      BY <2>1, <2>2, SeqDef
    <3>2. balance' \in Nat
      BY <1>3, <2>1, <2>2, SMTT(30)
    <3> QED
      BY <1>1, <1>2, <2>1, <3>1, <3>2 DEF TypeOK
  <2>4. NothingRefused' /\ DueArePast' /\ IsFiniteSet(paid')
    <3>1. \A a \in due' : grants'[a].expires <= now'
      BY <1>1, <1>2, <2>1 DEF DueArePast
    <3> QED
      BY <1>1, <1>2, <2>1, <3>1 DEF NothingRefused, DueArePast
  <2>5. HoldsMatchUses'
    BY <1>1, <1>2, <2>1 DEF HoldsMatchUses
  <2>6. BatchesAreCovered'
    BY <1>3, <2>1, <2>2 DEF BatchesAreCovered
  <2>7. BatchUnitsConserved'
    <3>1. ASSUME NEW a \in Batches
          PROVE  grants'[a].amount = grants'[a].remaining + grants'[a].expired + SumFunction(DrawnOf(a)')
      <4>1. DrawnOf(a)' = DrawnOf(a)
        BY <1>2 DEF DrawnOf
      <4>2. /\ grants[a].amount = grants[a].remaining + grants[a].expired + SumFunction(DrawnOf(a))
            /\ SumFunction(DrawnOf(a)) \in Nat
        BY BookTypes
      <4>3. CASE a = b
        BY <1>3, <2>1, <4>1, <4>2, <4>3
      <4>4. CASE a # b
        BY <2>1, <4>1, <4>2, <4>4
      <4> QED
        BY <4>3, <4>4
    <3> QED
      BY <2>1, <3>1 DEF BatchUnitsConserved
  <2>8. BalanceIsLedgerSum'
    <3>1. Bought' = Bought /\ Taken' = Taken
      BY <1>2 DEF Bought, Taken
    <3>2. /\ SumFunction(Bought) \in Int /\ SumFunction(Granted) \in Int
          /\ SumFunction(Granted) = SumFunctionOnSet(Granted, Batches)
          /\ \A a \in Batches : Granted[a] \in Int
      BY <1>1, SumsAreIntegers
    <3>3. /\ SumFunction(Granted') = SumFunctionOnSet(Granted', Batches)
          /\ \A a \in Batches : Granted'[a] = grants'[a].amount - grants'[a].expired
      BY <2>1 DEF Granted, SumFunction
    <3>4. /\ \A a \in Batches \ {b} : Granted'[a] = Granted[a]
          /\ Granted'[b] - Granted[b] = -grants[b].remaining
          /\ Granted'[b] \in Int
      <4>1. Granted[b] = grants[b].amount - grants[b].expired
        BY <1>1 DEF Granted
      <4>2. Granted'[b] = grants[b].amount - (grants[b].expired + grants[b].remaining)
        BY <1>1, <2>1, <3>3
      <4>3. \A a \in Batches \ {b} : Granted'[a] = Granted[a]
        BY <2>1, <3>3 DEF Granted
      <4> QED
        BY <1>3, <4>1, <4>2, <4>3
    <3>5. SumFunctionOnSet(Granted', Batches) =
            SumFunctionOnSet(Granted, Batches) + (Granted'[b] - Granted[b])
      <4>1. IsFiniteSet(Batches) /\ \A a \in Batches : Granted[a] \in Int /\ Granted'[a] \in Int
        BY <2>2, <3>2, <3>4
      <4> QED
        BY <1>1, <3>4, <4>1, SumChanged
    <3>6. SumFunction(Taken) \in Int
      <4>1. \A r \in Refs : Taken[r] \in Int
        BY <1>1 DEF Taken, TypeOK, Hold
      <4>2. SumFunction(Taken) = SumFunctionOnSet(Taken, Refs)
        BY DEF Taken, SumFunction
      <4> QED
        BY <4>1, <4>2, SumIsInteger, PaymentsAssumption
    <3>7. SumFunction(Granted') = SumFunction(Granted) - grants[b].remaining
      BY <1>3, <3>2, <3>3, <3>4, <3>5
    <3>8. SignupUnits \in Nat
      BY UnitsAssumption
    <3> QED
      BY <1>1, <1>3, <2>1, <2>2, <3>1, <3>2, <3>6, <3>7, <3>8, SMTT(30) DEF BalanceIsLedgerSum
  <2> QED
    BY <2>3, <2>4, <2>5, <2>6, <2>7, <2>8 DEF LedgerInv
<1> QED
  BY <1>3, <1>4, <1>5
-----------------------------------------------------------------------------
(* The invariant.                                                          *)

(* Initially no batch, no use and no balance.                              *)
LEMMA BooksStart == Init => LedgerInv
<1> SUFFICES ASSUME Init PROVE LedgerInv
  OBVIOUS
<1> USE DEF Init
<1>1. Batches = {} /\ IsFiniteSet(Refs)
  BY PaymentsAssumption DEF Batches
<1>2. TypeOK
  <2>1. grants \in Seq(Grant)
    BY EmptySeq
  <2>2. uses \in [Refs -> [Batches -> Nat]]
    <3>1. <<>> \in [Batches -> Nat]
      BY <1>1
    <3> QED
      BY <3>1
  <2>3. holds \in [Refs -> Hold]
    BY DEF NoHold, Hold, HoldStates
  <2>4. balance \in Nat /\ now \in 0..MaxTime
    BY UnitsAssumption
  <2>5. paid \subseteq Plans \cup Packs /\ due \subseteq Batches /\ refused \in BOOLEAN
    OBVIOUS
  <2> QED
    BY <2>1, <2>2, <2>3, <2>4, <2>5 DEF TypeOK
<1>3. RemainingOf(grants) = 0
  BY SumOfNone DEF RemainingOf, Remaining, SumFunction
<1>4. BatchesAreCovered
  BY <1>2, <1>3 DEF BatchesAreCovered, TypeOK
<1>5. BalanceIsLedgerSum
  <2>1. SumFunction(Granted) = 0
    BY <1>1, SumOfNone DEF Granted, SumFunction
  <2>2. SumFunction(Bought) = 0
    BY SumOfNone DEF Bought, SumFunction
  <2>3. SumFunction(Taken) = 0
    <3>1. SumFunction(Taken) = SumFunctionOnSet(Taken, Refs) /\ \A r \in Refs : Taken[r] = 0
      BY DEF Taken, SumFunction, NoHold
    <3> QED
      BY <1>1, <3>1, SumOfZeros
  <2> QED
    BY <2>1, <2>2, <2>3, UnitsAssumption DEF BalanceIsLedgerSum
<1>6. HoldsMatchUses
  BY <1>1 DEF HoldsMatchUses, NoHold
<1>7. BatchUnitsConserved /\ DueArePast /\ NothingRefused
  BY <1>1 DEF BatchUnitsConserved, DueArePast, NothingRefused
<1>8. IsFiniteSet(paid)
  BY FS_EmptySet
<1> QED
  BY <1>2, <1>4, <1>5, <1>6, <1>7, <1>8 DEF LedgerInv

(* Every step keeps the books.                                             *)
LEMMA BooksKept == LedgerInv /\ [Next]_vars => LedgerInv'
<1> SUFFICES ASSUME LedgerInv, [Next]_vars PROVE LedgerInv'
  OBVIOUS
<1>1. CASE \E p \in Plans : GrantPlan(p)
  BY <1>1, GrantPlanKeeps
<1>2. CASE \E p \in Packs : BuyPack(p)
  BY <1>2, BuyPackKeeps
<1>3. ASSUME NEW r \in Refs, Reserve(r) PROVE LedgerInv'
  BY <1>3, ReserveKeeps
<1>4. ASSUME NEW r \in Refs, Close(r) PROVE LedgerInv'
  BY <1>4, RefundKeeps, SettleKeeps DEF Close
<1>5. CASE ExpireSelect
  BY <1>5, SelectKeeps
<1>6. CASE ExpireBatch
  BY <1>6, ExpireKeeps DEF ExpireBatch
<1>7. CASE SweepStops
  BY <1>7, StopKeeps
<1>8. CASE Tick
  BY <1>8, TickKeeps
<1>9. CASE UNCHANGED vars
  <2>1. UNCHANGED <<balance, grants, uses, holds, paid, due, now, refused>>
    BY <1>9 DEF vars
  <2>2. due' \subseteq Batches /\ now' \in 0..MaxTime /\ \A b \in due' : grants[b].expires <= now'
    BY <2>1 DEF LedgerInv, TypeOK, DueArePast
  <2> QED
    BY <2>1, <2>2, BooksUntouched
<1> QED
  BY <1>1, <1>2, <1>3, <1>4, <1>5, <1>6, <1>7, <1>8, <1>9 DEF Next

(* Whatever is granted, bought, held, charged, returned and expired, in    *)
(* any order: the balance covers the batches, a hold has drawn no more     *)
(* than it reserved, and no constraint ever refuses a row.                 *)
THEOREM LedgerInvariant == Spec => []LedgerInv
<1>1. Init => LedgerInv
  BY BooksStart
<1>2. LedgerInv /\ [Next]_vars => LedgerInv'
  BY BooksKept
<1> QED
  BY <1>1, <1>2, PTL DEF Spec

(* The account's three books, its balance, its batches and what each       *)
(* generation drew of them (the triggers of 0020_credit_expiry.sql and     *)
(* credit.repository.ts), tell one story for any grants and prices.        *)
THEOREM BooksAlwaysAgree == Spec => []BooksAgree
<1>1. LedgerInv => BooksAgree
  BY DEF LedgerInv, BooksAgree
<1> QED
  BY <1>1, LedgerInvariant, PTL

(* A returned hold keeps no unit of any batch: a refund goes back to the   *)
(* credits it came from.                                                   *)
THEOREM RefundsRestore == Spec => []RefundRestoresBatches
<1>1. LedgerInv => RefundRestoresBatches
  BY DEF LedgerInv, HoldsMatchUses, RefundRestoresBatches
<1> QED
  BY <1>1, LedgerInvariant, PTL

-----------------------------------------------------------------------------
(* The order units leave the account in.                                   *)

(* A generation's row changes no other hold and expires nothing. *)
LEMMA RowLeaves ==
    ASSUME TypeOK, NEW r \in Refs, NEW amount, NEW newHold, Post(r, amount, newHold)
    PROVE  /\ \A b \in Batches : grants'[b].expired = grants[b].expired
           /\ \A q \in Refs \ {r} : holds'[q] = holds[q]
           /\ holds'[r] \in {newHold, holds[r]}
<1>1. PICK moved : \/ Posted(r, amount, newHold, moved)
                   \/ UNCHANGED <<balance, grants, uses, holds>>
  BY DEF Post, Posted
<1>2. CASE Posted(r, amount, newHold, moved)
  <2>1. ASSUME NEW b \in Batches PROVE grants'[b].expired = grants[b].expired
    <3>1. grants[b] \in Grant
      BY BatchTypes
    <3>2. grants'[b] = [grants[b] EXCEPT !.remaining = @ - moved[b]]
      BY <1>2 DEF Posted
    <3> QED
      BY <3>1, <3>2 DEF Grant
  <2> QED
    BY <1>2, <2>1 DEF Posted, TypeOK
<1>3. CASE UNCHANGED <<balance, grants, uses, holds>>
  BY <1>3
<1> QED
  BY <1>1, <1>2, <1>3

(* The order a row of a generation moves units in: what DrawsSoonestFirst *)
(* and GivesBackLatestFirst ask of a step.                                 *)
RowDraws ==
    balance' < balance =>
        /\ SumFunction(Took) < balance - balance' => RemainingOf(grants') = 0
        /\ \A a, b \in Batches :
             Took[b] > 0 /\ grants[a].expires < grants[b].expires => grants'[a].remaining = 0
RowGivesBack(r) ==
    balance' > balance =>
        /\ SumFunction(Took) > balance - balance' => \A b \in Batches : uses'[r][b] = 0
        /\ \A a, b \in Batches :
             Took[a] < 0 /\ grants[a].expires < grants[b].expires => uses'[r][b] = 0

LEMMA RowMovesInOrder ==
    ASSUME LedgerInv, NEW r \in Refs, NEW amount \in Int, balance + amount >= 0,
           NEW newHold \in Hold, NEW moved,
           MovesOf(r, amount, moved), Posted(r, amount, newHold, moved)
    PROVE  RowDraws /\ RowGivesBack(r)
<1>1. balance \in Nat /\ balance' = balance + amount
  BY DEF LedgerInv, TypeOK, Posted
<1>2. /\ \A b \in Batches : grants'[b].remaining = grants[b].remaining - moved[b] /\ moved[b] \in Int
      /\ \A b \in Batches : uses'[r][b] = uses[r][b] + moved[b]
  BY RowMovesUnits
<1>3. \A b \in Batches : Took[b] = moved[b] /\ grants[b].remaining \in Nat /\ uses[r][b] \in Nat
  <2>1. ASSUME NEW b \in Batches
        PROVE  Took[b] = moved[b] /\ grants[b].remaining \in Nat /\ uses[r][b] \in Nat
    <3>1. grants[b].remaining \in Nat /\ uses[r][b] \in Nat
      BY BookTypes, HeldIsMissing
    <3>2. Took[b] = grants[b].remaining - grants'[b].remaining
      BY DEF Took
    <3> QED
      BY <1>2, <3>1, <3>2
  <2> QED
    BY <2>1
<1>4. SumFunction(Took) = SumFunctionOnSet(moved, Batches)
  <2>1. SumFunction(Took) = SumFunctionOnSet(Took, Batches)
    BY DEF Took, SumFunction
  <2>2. \A b \in Batches : Took[b] = moved[b]
    BY <1>3
  <2>3. IsFiniteSet(Batches)
    BY BatchTypes DEF LedgerInv
  <2>4. SumFunctionOnSet(Took, Batches) = SumFunctionOnSet(moved, Batches)
    BY <2>2, <2>3, SumOfSame
  <2> QED
    BY <2>1, <2>4
<1>5. /\ RemainingOf(grants') = RemainingOf(grants) - SumFunctionOnSet(moved, Batches)
      /\ RemainingOf(grants) \in Nat /\ SumFunction(uses[r]) \in Nat
  BY RowKeepsBatches
<1>6. ASSUME balance' < balance PROVE RowDraws
  <2>1. amount < 0
    BY <1>1, <1>6
  <2>2. /\ SumFunctionOnSet(moved, Batches) = SmallerOf(-amount, RemainingOf(grants))
        /\ \A a, b \in Batches : moved[b] > 0 /\ grants[a].expires < grants[b].expires
              => moved[a] = grants[a].remaining
    BY <2>1 DEF MovesOf
  <2>3. ASSUME SumFunction(Took) < balance - balance' PROVE RemainingOf(grants') = 0
    BY <1>1, <1>4, <1>5, <2>2, <2>3 DEF SmallerOf
  <2>4. ASSUME NEW a \in Batches, NEW b \in Batches, Took[b] > 0, grants[a].expires < grants[b].expires
        PROVE  grants'[a].remaining = 0
    BY <1>2, <1>3, <2>2, <2>4
  <2> QED
    BY <2>3, <2>4 DEF RowDraws
<1>7. ASSUME balance' > balance PROVE RowGivesBack(r)
  <2>1. amount > 0
    BY <1>1, <1>7
  <2>2. /\ SumFunctionOnSet(moved, Batches) = -SmallerOf(amount, SumFunction(uses[r]))
        /\ SumFunction(uses[r]) <= amount => \A b \in Batches : moved[b] = -uses[r][b]
        /\ \A a, b \in Batches : moved[a] < 0 /\ grants[a].expires < grants[b].expires
              => moved[b] = -uses[r][b]
    BY <2>1 DEF MovesOf
  <2>3. ASSUME SumFunction(Took) > balance - balance', NEW b \in Batches PROVE uses'[r][b] = 0
    <3>1. SumFunction(uses[r]) <= amount
      BY <1>1, <1>4, <1>5, <2>2, <2>3 DEF SmallerOf
    <3> QED
      BY <1>2, <1>3, <2>2, <3>1
  <2>4. ASSUME NEW a \in Batches, NEW b \in Batches, Took[a] < 0, grants[a].expires < grants[b].expires
        PROVE  uses'[r][b] = 0
    BY <1>2, <1>3, <2>2, <2>4
  <2> QED
    BY <2>3, <2>4 DEF RowGivesBack
<1>8. (balance' < balance \/ RowDraws) /\ (balance' > balance \/ RowGivesBack(r))
  BY DEF RowDraws, RowGivesBack
<1> QED
  BY <1>6, <1>7, <1>8

(* A hold changes only with a row of its generation, and no row is refused. *)
LEMMA HoldsMoveByRows ==
    ASSUME LedgerInv, Next, NEW r \in Refs, holds'[r] # holds[r]
    PROVE  \E amount \in Int, newHold \in Hold :
              balance + amount >= 0 /\ Post(r, amount, newHold)
<1>1. TypeOK /\ balance \in Nat /\ holds[r] \in Hold /\ HoldUnits \in Nat
  BY UnitsAssumption DEF LedgerInv, TypeOK
<1>2. ASSUME Reserve(r)
      PROVE  \E amount \in Int, newHold \in Hold : balance + amount >= 0 /\ Post(r, amount, newHold)
  <2>1. PICK held : held = SmallerOf(HoldUnits, balance)
    OBVIOUS
  <2>2. held \in Nat /\ held <= balance /\ -held \in Int /\ balance + (-held) >= 0
    BY <1>1, <2>1 DEF SmallerOf
  <2>3. [state |-> "open", reserved |-> held, charge |-> 0] \in Hold
    BY <2>2 DEF Hold, HoldStates
  <2>4. Post(r, -held, [state |-> "open", reserved |-> held, charge |-> 0])
    BY <1>2, <2>1 DEF Reserve
  <2> QED
    BY <2>2, <2>3, <2>4
<1>3. ASSUME NEW cost \in Costs, Settle(r, cost)
      PROVE  \E amount \in Int, newHold \in Hold : balance + amount >= 0 /\ Post(r, amount, newHold)
  <2>1. PICK surplus, amount : /\ surplus = holds[r].reserved - cost
                               /\ amount = IF surplus >= 0 THEN surplus ELSE -SmallerOf(-surplus, balance)
    OBVIOUS
  <2>2. holds[r].reserved \in Nat /\ cost \in Nat
    BY <1>1, UnitsAssumption DEF Hold
  <2>3. amount \in Int /\ balance + amount >= 0 /\ holds[r].reserved - amount \in Nat
    BY <1>1, <2>1, <2>2 DEF SmallerOf
  <2>4. [state |-> "charged", reserved |-> holds[r].reserved, charge |-> holds[r].reserved - amount] \in Hold
    BY <2>2, <2>3 DEF Hold, HoldStates
  <2>5. Post(r, amount, [state |-> "charged", reserved |-> holds[r].reserved,
                         charge |-> holds[r].reserved - amount])
    BY <1>3, <2>1 DEF Settle
  <2> QED
    BY <2>3, <2>4, <2>5
<1>4. ASSUME Refund(r)
      PROVE  \E amount \in Int, newHold \in Hold : balance + amount >= 0 /\ Post(r, amount, newHold)
  <2>1. holds[r].reserved \in Int /\ balance + holds[r].reserved >= 0
    BY <1>1 DEF Hold
  <2>2. [holds[r] EXCEPT !.state = "returned"] \in Hold
    BY <1>1 DEF Hold, HoldStates
  <2> QED
    BY <1>4, <2>1, <2>2 DEF Refund
<1>5. ASSUME NEW q \in Refs, Reserve(q) \/ Close(q) PROVE q = r
  BY <1>1, <1>5, RowLeaves DEF Reserve, Close, Refund, Settle
<1>6. CASE \/ \E p \in Plans : GrantPlan(p)
           \/ \E p \in Packs : BuyPack(p)
           \/ ExpireSelect \/ ExpireBatch \/ SweepStops \/ Tick
  BY <1>6 DEF GrantPlan, BuyPack, ExpireSelect, ExpireBatch, Expire, SweepStops, Tick
<1> QED
  BY <1>2, <1>3, <1>4, <1>5, <1>6 DEF Next, Close

(* So each step that moves a hold keeps the order. *)
LEMMA RowsKeepTheOrder ==
    ASSUME LedgerInv, Next, NEW r \in Refs, holds'[r] # holds[r]
    PROVE  RowDraws /\ RowGivesBack(r)
<1>1. PICK amount \in Int, newHold \in Hold : balance + amount >= 0 /\ Post(r, amount, newHold)
  BY HoldsMoveByRows
<1>2. PICK moved : MovesOf(r, amount, moved) /\ Posted(r, amount, newHold, moved)
  BY <1>1, RowIsAccepted
<1> QED
  BY <1>1, <1>2, RowMovesInOrder

(* What no step but an expiry does: expire units. *)
LEMMA OnlyExpireExpires ==
    ASSUME LedgerInv, Next, NEW b \in Batches, grants'[b].expired > grants[b].expired
    PROVE  /\ grants[b].expires <= now
           /\ balance' - RemainingOf(grants') = balance - RemainingOf(grants)
<1>1. TypeOK /\ grants[b].expired \in Nat
  BY BookTypes DEF LedgerInv
<1>2. grants'[b].expired # grants[b].expired
  BY <1>1
<1>3. ASSUME NEW q \in Refs, Reserve(q) \/ Close(q) PROVE FALSE
  BY <1>1, <1>2, <1>3, RowLeaves DEF Reserve, Close, Refund, Settle
<1>4. ASSUME NEW p \in Plans, GrantPlan(p) PROVE FALSE
  <2>1. PICK new : grants' = Append(grants, new)
    BY <1>4 DEF GrantPlan
  <2>2. b \in 1..Len(grants) /\ grants \in Seq(Grant)
    BY <1>1, BatchTypes DEF TypeOK
  <2>3. grants'[b] = grants[b]
    BY <2>1, <2>2
  <2> QED
    BY <1>2, <2>3
<1>5. CASE \/ \E p \in Packs : BuyPack(p)
           \/ ExpireSelect \/ SweepStops \/ Tick
  BY <1>2, <1>5 DEF BuyPack, ExpireSelect, SweepStops, Tick
<1>6. ASSUME NEW a \in due, Expire(a)
      PROVE  /\ grants[b].expires <= now
             /\ balance' - RemainingOf(grants') = balance - RemainingOf(grants)
  <2>1. grants[a].remaining > 0
    <3>1. a \in Batches
      BY <1>1 DEF TypeOK
    <3>2. grants[a].remaining \in Nat
      BY <3>1, BookTypes
    <3> QED
      BY <1>2, <1>6, <3>2 DEF Expire
  <2>2. /\ balance' = balance - grants[a].remaining
        /\ \A c \in Batches \ {a} : grants'[c] = grants[c]
        /\ RemainingOf(grants') = RemainingOf(grants) - grants[a].remaining
    BY <1>6, <2>1, ExpireTakes
  <2>3. a = b
    BY <1>2, <2>2
  <2>4. grants[b].expires <= now
    BY <2>3 DEF LedgerInv, DueArePast
  <2>5. balance \in Nat /\ RemainingOf(grants) \in Nat /\ grants[a].remaining \in Nat
    BY <1>1, <2>3, BatchTypes, BookTypes DEF TypeOK
  <2> QED
    BY <2>2, <2>4, <2>5
<1> QED
  BY <1>3, <1>4, <1>5, <1>6 DEF Next, ExpireBatch

(* Every row takes credits in the order they expire and permanent ones     *)
(* last, every give-back goes the other way round, and an expiry takes     *)
(* none of the permanent ones (docs/api.md:264).                           *)
THEOREM UnitsMoveAsPromised == Spec => UnitsMoveInOrder
<1>1. LedgerInv /\ [Next]_vars =>
        [\A r \in Refs : holds'[r] # holds[r] /\ balance' < balance =>
            /\ SumFunction(Took) < balance - balance' => RemainingOf(grants') = 0
            /\ \A a, b \in Batches :
                 Took[b] > 0 /\ grants[a].expires < grants[b].expires => grants'[a].remaining = 0]_vars
  BY RowsKeepTheOrder DEF RowDraws
<1>2. LedgerInv /\ [Next]_vars =>
        [\A r \in Refs : holds'[r] # holds[r] /\ balance' > balance =>
            /\ SumFunction(Took) > balance - balance' => \A b \in Batches : uses'[r][b] = 0
            /\ \A a, b \in Batches :
                 Took[a] < 0 /\ grants[a].expires < grants[b].expires => uses'[r][b] = 0]_vars
  BY RowsKeepTheOrder DEF RowGivesBack
<1>3. LedgerInv /\ [Next]_vars =>
        [\A b \in Batches : grants'[b].expired > grants[b].expired =>
            /\ grants[b].expires <= now
            /\ balance' - RemainingOf(grants') = balance - RemainingOf(grants)]_vars
  BY OnlyExpireExpires
<1> QED
  BY <1>1, <1>2, <1>3, LedgerInvariant, PTL
     DEF Spec, UnitsMoveInOrder, DrawsSoonestFirst, GivesBackLatestFirst, PermanentNeverExpires

-----------------------------------------------------------------------------
(* The loops as the database runs them: what Moved says of each batch is   *)
(* what the rounds come to, whatever the batches and however many.         *)
NoneMoved(B, units) == [left |-> units, moved |-> [b \in B |-> 0]]
Rounds(f, has, units, rows) ==
    f = [n \in 0..Len(rows) |-> IF n = 0 THEN NoneMoved(DOMAIN has, units) ELSE LoopBody(has, f[n - 1], rows[n])]

LEMMA LoopUnfolds ==
    ASSUME NEW has, NEW units, NEW rank, NEW rows, rows = LoopRows(has, rank)
    PROVE  Loop(has, units, rank) = (CHOOSE f : Rounds(f, has, units, rows))[Len(rows)].moved
BY DEF Loop, Rounds, NoneMoved

(* The state of a loop: units still to be moved, and what each batch gave. *)
LoopStates(B) == [left : Nat, moved : [B -> Nat]]

(* The list of batches a loop visits. *)
Visits(full, rank) ==
    [i \in 1..Cardinality(full) |->
        CHOOSE b \in full : Cardinality({a \in full : rank[a] < rank[b]}) = i - 1]

LEMMA LoopVisits ==
    ASSUME NEW has, NEW rank
    PROVE  LoopRows(has, rank) = Visits({b \in DOMAIN has : has[b] > 0}, rank)
BY DEF LoopRows, Visits

(* One round takes from one batch.                                         *)
LEMMA RoundMoves ==
    ASSUME NEW B, NEW has \in [B -> Nat], NEW loop \in LoopStates(B), NEW b \in B,
           NEW next, next = LoopBody(has, loop, b)
    PROVE  /\ next \in LoopStates(B)
           /\ next.left = LargerOf(loop.left - has[b], 0)
           /\ \A a \in B \ {b} : next.moved[a] = loop.moved[a]
           /\ next.moved[b] = IF loop.left = 0 THEN loop.moved[b] ELSE SmallerOf(has[b], loop.left)
<1>1. loop.left \in Nat /\ loop.moved \in [B -> Nat] /\ has[b] \in Nat
  BY DEF LoopStates
<1>2. CASE loop.left = 0
  <2>1. next = loop
    BY <1>2 DEF LoopBody
  <2> QED
    BY <1>1, <1>2, <2>1 DEF LargerOf
<1>3. CASE loop.left # 0
  <2>1. PICK m \in Nat : m = SmallerOf(loop.left, has[b])
    BY <1>1 DEF SmallerOf
  <2>2. next = [left |-> loop.left - m, moved |-> [loop.moved EXCEPT ![b] = m]]
    BY <1>3, <2>1 DEF LoopBody
  <2>3. next.left = loop.left - m /\ next.moved = [loop.moved EXCEPT ![b] = m]
    BY <2>2
  <2>4. loop.left - m \in Nat /\ loop.left - m = LargerOf(loop.left - has[b], 0) /\ m = SmallerOf(has[b], loop.left)
    BY <1>1, <2>1 DEF SmallerOf, LargerOf
  <2>5. next.moved \in [B -> Nat]
    BY <1>1, <2>3
  <2>6. next \in LoopStates(B)
    BY <2>2, <2>3, <2>4, <2>5 DEF LoopStates
  <2>7. \A a \in B \ {b} : next.moved[a] = loop.moved[a]
    BY <1>1, <2>3
  <2>8. next.moved[b] = m
    BY <1>1, <2>3
  <2> QED
    BY <1>3, <2>3, <2>4, <2>6, <2>7, <2>8
<1> QED
  BY <1>2, <1>3

(* The rounds that a list of batches makes exist.                          *)
LEMMA RoundsExist ==
    ASSUME NEW B, NEW has \in [B -> Nat], NEW units \in Nat, NEW n \in Nat, NEW rows \in [1..n -> B]
    PROVE  \E f \in [0..n -> LoopStates(B)] : Rounds(f, has, units, rows)
<1>1. PICK A : A = LoopStates(B)
  OBVIOUS
<1>2. PICK none \in A : none = NoneMoved(B, units)
  BY <1>1 DEF NoneMoved, LoopStates
<1>3. PICK step \in [1..n -> [A -> A]] :
        \A i \in 1..n : \A x \in A : step[i][x] = LoopBody(has, x, rows[i])
  <2>1. \A i \in 1..n : \A x \in A : LoopBody(has, x, rows[i]) \in A
    BY <1>1, RoundMoves
  <2> DEFINE st == [i \in 1..n |-> [x \in A |-> LoopBody(has, x, rows[i])]]
  <2>2. st \in [1..n -> [A -> A]]
    BY <2>1
  <2> QED
    BY <2>2
<1>4. PICK f : Follows(f, n, A, none, step)
  BY GoesOn
<1>5. f \in [0..n -> A] /\ f[0] = none /\ \A i \in 1..n : f[i] = step[i][f[i - 1]]
  BY <1>4 DEF Follows
<1>6. ASSUME NEW i \in 1..n PROVE f[i] = LoopBody(has, f[i - 1], rows[i])
  <2>1. f[i - 1] \in A
    BY <1>5
  <2> QED
    BY <1>3, <1>5, <2>1
<1>7. f = [k \in 0..n |-> IF k = 0 THEN NoneMoved(B, units) ELSE LoopBody(has, f[k - 1], rows[k])]
  <2>1. ASSUME NEW k \in 0..n PROVE f[k] = IF k = 0 THEN NoneMoved(B, units) ELSE LoopBody(has, f[k - 1], rows[k])
    <3>1. CASE k = 0
      BY <1>2, <1>5, <3>1
    <3>2. CASE k # 0
      <4>1. k \in 1..n
        BY <3>2
      <4> QED
        BY <1>6, <3>2, <4>1
    <3> QED
      BY <3>1, <3>2
  <2> QED
    BY <1>5, <2>1
<1>8. Len(rows) = n /\ DOMAIN has = B
  OBVIOUS
<1>9. Rounds(f, has, units, rows)
  BY <1>7, <1>8 DEF Rounds
<1> QED
  BY <1>1, <1>5, <1>9

(* The trigger credit_ledger_grants (0020_credit_expiry.sql) moves of each *)
(* batch what Moved says: the loop over the batches in rank order, left    *)
(* early when nothing is left to move, comes to the same.                  *)
THEOREM LoopsMoveWhatIsSaid ==
    ASSUME NEW B, IsFiniteSet(B), NEW has \in [B -> Nat], NEW units \in Nat,
           NEW rank \in [B -> Int], \A a, b \in B : rank[a] = rank[b] => a = b
    PROVE  Moved(has, units, rank) = Loop(has, units, rank)
<1> DEFINE have(s) == SumFunctionOnSet(has, s)
           before(b) == {a \in B : rank[a] < rank[b]}
<1>0. PICK full \in SUBSET B : full = {b \in B : has[b] > 0}
  OBVIOUS
<1>1. PICK key : key = [b \in full |-> rank[b]]
  OBVIOUS
<1>2. PICK n : n = Cardinality(full)
  OBVIOUS
<1>3. PICK rows : rows = LoopRows(has, rank)
  OBVIOUS
<1>4. IsFiniteSet(full) /\ key \in [full -> Int] /\ \A a, b \in full : key[a] = key[b] => a = b
  BY <1>0, <1>1, FS_Subset
<1>5. rows = [i \in 1..n |-> AtPlace(full, key, i)]
  <2>1. ASSUME NEW i \in 1..n, NEW b \in full PROVE {a \in full : rank[a] < rank[b]} = Below(full, key, b)
    BY <1>1 DEF Below
  <2>2. ASSUME NEW i \in 1..n
        PROVE  (CHOOSE b \in full : Cardinality({a \in full : rank[a] < rank[b]}) = i - 1) = AtPlace(full, key, i)
    <3>1. \A b \in full : Cardinality({a \in full : rank[a] < rank[b]}) = i - 1 <=> Cardinality(Below(full, key, b)) = i - 1
      BY <2>1
    <3> QED
      BY <3>1 DEF AtPlace
  <2>3. rows = Visits(full, rank)
    <3>1. DOMAIN has = B
      OBVIOUS
    <3> QED
      BY <1>0, <1>3, <3>1, LoopVisits
  <2> QED
    BY <1>2, <2>2, <2>3 DEF Visits
<1>6. /\ n \in Nat
      /\ rows \in [1..n -> full]
      /\ \A i, j \in 1..n : i < j => rank[rows[i]] < rank[rows[j]]
      /\ \A b \in full : \E i \in 1..n : rows[i] = b
  <2>1. /\ n \in Nat
        /\ \A i \in 1..n : AtPlace(full, key, i) \in full
        /\ \A i, j \in 1..n : i < j => key[AtPlace(full, key, i)] < key[AtPlace(full, key, j)]
        /\ \A b \in full : \E i \in 1..n : AtPlace(full, key, i) = b
    BY <1>2, <1>4, LinedUp
  <2>2. rows \in [1..n -> full]
    BY <1>5, <2>1
  <2>3. \A i \in 1..n : rows[i] = AtPlace(full, key, i)
    BY <1>5
  <2>4. \A i \in 1..n : rows[i] \in full /\ key[rows[i]] = rank[rows[i]]
    BY <1>1, <2>2
  <2>5. \A i, j \in 1..n : i < j => rank[rows[i]] < rank[rows[j]]
    BY <2>1, <2>3, <2>4
  <2>6. \A b \in full : \E i \in 1..n : rows[i] = b
    BY <2>1, <2>3
  <2> QED
    BY <2>1, <2>2, <2>5, <2>6
<1>7. rows \in [1..n -> B] /\ Len(rows) = n
  BY <1>0, <1>6
<1>8. PICK h : Rounds(h, has, units, rows) /\ Loop(has, units, rank) = h[n].moved
  <2>1. PICK h : h = CHOOSE f : Rounds(f, has, units, rows)
    OBVIOUS
  <2>2. \E f : Rounds(f, has, units, rows)
    BY <1>6, <1>7, RoundsExist
  <2>3. Rounds(h, has, units, rows)
    BY <2>1, <2>2
  <2> QED
    BY <1>3, <1>7, <2>1, <2>3, LoopUnfolds
<1>9. /\ h[0] = NoneMoved(B, units)
      /\ \A k \in 1..n : h[k] = LoopBody(has, h[k - 1], rows[k])
  <2>1. DOMAIN has = B
    OBVIOUS
  <2>2. h = [k \in 0..n |-> IF k = 0 THEN NoneMoved(B, units) ELSE LoopBody(has, h[k - 1], rows[k])]
    BY <1>7, <1>8, <2>1 DEF Rounds
  <2>3. \A k \in 0..n : h[k] = IF k = 0 THEN NoneMoved(B, units) ELSE LoopBody(has, h[k - 1], rows[k])
    BY <2>2
  <2>4. 0 \in 0..n /\ \A k \in 1..n : k \in 0..n /\ k # 0
    BY <1>6
  <2> QED
    BY <2>3, <2>4
<1> DEFINE front(k) == {rows[i] : i \in 1..k}
<1>10. ASSUME NEW k \in 1..n
       PROVE  /\ rows[k] \in B /\ rows[k] \notin front(k - 1) /\ front(k) = front(k - 1) \cup {rows[k]}
              /\ front(k - 1) \in SUBSET B /\ front(k - 1) \subseteq before(rows[k])
              /\ \A a \in before(rows[k]) \ front(k - 1) : has[a] = 0
  <2>1. \A i \in 1..(k - 1) : i \in 1..n /\ i < k
    BY <1>6
  <2>2. rows[k] \in B
    BY <1>7
  <2>3. \A i \in 1..(k - 1) : rows[i] \in B /\ rank[rows[i]] < rank[rows[k]]
    BY <1>6, <1>7, <2>1
  <2>4. front(k - 1) \in SUBSET B /\ front(k - 1) \subseteq before(rows[k])
    BY <2>3
  <2>5. rows[k] \notin front(k - 1)
    BY <2>2, <2>3
  <2>6. front(k) = front(k - 1) \cup {rows[k]}
    <3>1. 1..k = 1..(k - 1) \cup {k}
      BY <1>6
    <3> QED
      BY <3>1
  <2>7. ASSUME NEW a \in before(rows[k]) \ front(k - 1) PROVE has[a] = 0
    <3>1. SUFFICES ASSUME has[a] # 0 PROVE FALSE
      OBVIOUS
    <3>2. a \in full
      BY <1>0, <3>1
    <3>3. PICK i \in 1..n : rows[i] = a
      BY <1>6, <3>2
    <3>4. ~(i \in 1..(k - 1))
      BY <2>7, <3>3
    <3>5. k < i \/ k = i
      BY <1>6, <3>4
    <3>6. rank[rows[k]] <= rank[a]
      BY <1>6, <1>7, <3>3, <3>5
    <3> QED
      BY <2>2, <2>7, <3>6
  <2> QED
    BY <2>2, <2>4, <2>5, <2>6, <2>7
<1>11. ASSUME NEW s \in SUBSET B PROVE IsFiniteSet(s) /\ have(s) \in Nat /\ \A x \in s : has[x] \in Nat /\ has[x] \in Int
  <2>1. IsFiniteSet(s) /\ \A x \in s : has[x] \in Nat
    BY FS_Subset
  <2>2. have(s) \in Nat
    BY <2>1, SumOfNats
  <2> QED
    BY <2>1, <2>2
<1>12. ASSUME NEW k \in 1..n
       PROVE  /\ have(before(rows[k])) = have(front(k - 1))
              /\ have(front(k)) = has[rows[k]] + have(front(k - 1))
  <2>1. PICK s \in SUBSET B, t \in SUBSET B, b \in B : s = before(rows[k]) /\ t = front(k - 1) /\ b = rows[k]
    BY <1>10
  <2>2. t \subseteq s /\ b \notin t /\ (\A x \in s \ t : has[x] = 0) /\ front(k) = t \cup {b}
    BY <1>10, <2>1
  <2>3. IsFiniteSet(s) /\ IsFiniteSet(t) /\ IsFiniteSet(s \ t) /\ have(t) \in Nat
    BY <1>11, FS_Subset
  <2>4. (\A x \in s : has[x] \in Int) /\ (\A x \in t : has[x] \in Int) /\ has[b] \in Int
    BY <1>11
  <2> HIDE DEF front, before
  <2>5. have(s) = have(t) + have(s \ t)
    BY <2>2, <2>3, <2>4, SumOfParts
  <2>6. have(s \ t) = 0
    BY <2>2, <2>3, SumOfZeros
  <2>7. have(t \cup {b}) = has[b] + have(t)
    BY <2>2, <2>3, <2>4, SumWithOneMore
  <2> QED
    BY <2>1, <2>2, <2>3, <2>5, <2>6, <2>7
<1>13. PICK moved : moved = Moved(has, units, rank)
  OBVIOUS
<1>14. ASSUME NEW b \in B
       PROVE moved[b] = SmallerOf(has[b], LargerOf(units - have(before(b)), 0))
  BY <1>13 DEF Moved
<1> DEFINE T == {k \in 0..n : /\ h[k] \in LoopStates(B)
                              /\ h[k].left = LargerOf(units - have(front(k)), 0)
                              /\ \A b \in B : h[k].moved[b] = IF b \in front(k) THEN moved[b] ELSE 0}
<1>15. 0 \in T
  <2>1. front(0) = {}
    OBVIOUS
  <2>2. have({}) = 0
    BY SumOfNone
  <2>3. h[0] \in LoopStates(B) /\ h[0].left = units /\ \A b \in B : h[0].moved[b] = 0
    BY <1>9 DEF NoneMoved, LoopStates
  <2>4. h[0].left = LargerOf(units - have(front(0)), 0)
    <3>1. units = LargerOf(units - 0, 0)
      BY DEF LargerOf
    <3> HIDE DEF front, have
    <3> QED
      BY <2>1, <2>2, <2>3, <3>1
  <2>5. \A b \in B : h[0].moved[b] = IF b \in front(0) THEN moved[b] ELSE 0
    <3> HIDE DEF front
    <3> QED
      BY <2>1, <2>3
  <2>6. 0 \in 0..n
    BY <1>6
  <2> HIDE DEF front, have
  <2> QED
    BY <2>3, <2>4, <2>5, <2>6
<1>16. ASSUME NEW k \in 1..n, k - 1 \in T PROVE k \in T
  <2>1. PICK b \in B : b = rows[k]
    BY <1>10
  <2>2. PICK loop \in LoopStates(B) : loop = h[k - 1]
    BY <1>16
  <2>3. PICK H \in Nat : H = have(front(k - 1))
    BY <1>10, <1>11
  <2>4. loop.left = LargerOf(units - H, 0) /\ \A a \in B : loop.moved[a] = IF a \in front(k - 1) THEN moved[a] ELSE 0
    BY <1>16, <2>2, <2>3
  <2>5. b \notin front(k - 1) /\ front(k) = front(k - 1) \cup {b} /\ have(front(k)) = has[b] + H
    BY <1>10, <1>12, <2>1, <2>3
  <2>6. moved[b] = SmallerOf(has[b], LargerOf(units - H, 0))
    BY <1>12, <1>14, <2>1, <2>3
  <2>7. PICK next : next = h[k] /\ next = LoopBody(has, loop, b)
    BY <1>9, <2>1, <2>2
  <2>8. /\ next \in LoopStates(B)
        /\ next.left = LargerOf(loop.left - has[b], 0)
        /\ \A a \in B \ {b} : next.moved[a] = loop.moved[a]
        /\ next.moved[b] = IF loop.left = 0 THEN loop.moved[b] ELSE SmallerOf(has[b], loop.left)
    BY <2>7, RoundMoves
  <2>9. has[b] \in Nat
    OBVIOUS
  <2> HIDE DEF front, have, before
  <2>10. next.left = LargerOf(units - have(front(k)), 0)
    BY <2>3, <2>4, <2>5, <2>8, <2>9 DEF LargerOf
  <2>11. next.moved[b] = moved[b]
    <3>1. loop.moved[b] = 0
      BY <2>4, <2>5
    <3> QED
      BY <2>3, <2>4, <2>6, <2>8, <2>9, <3>1 DEF LargerOf, SmallerOf
  <2>12. ASSUME NEW a \in B PROVE next.moved[a] = IF a \in front(k) THEN moved[a] ELSE 0
    <3>1. CASE a = b
      BY <2>5, <2>11, <3>1
    <3>2. CASE a # b
      BY <2>4, <2>5, <2>8, <3>2
    <3> QED
      BY <3>1, <3>2
  <2>13. k \in 0..n
    BY <1>6
  <2>14. /\ h[k] \in LoopStates(B) /\ h[k].left = LargerOf(units - have(front(k)), 0)
         /\ \A a \in B : h[k].moved[a] = IF a \in front(k) THEN moved[a] ELSE 0
    BY <2>7, <2>8, <2>10, <2>12
  <2> QED
    BY <2>13, <2>14
<1>17. n \in T
  <2>1. \A k \in 0..n : k \in T
    <3> HIDE DEF T
    <3> QED
      BY <1>6, <1>15, <1>16, UpTo
  <2>2. n \in 0..n
    BY <1>6
  <2> HIDE DEF T
  <2> QED
    BY <2>1, <2>2
<1>18. front(n) = full
  BY <1>6
<1>19. ASSUME NEW b \in B PROVE h[n].moved[b] = moved[b]
  <2>1. h[n].moved[b] = IF b \in full THEN moved[b] ELSE 0
    BY <1>17, <1>18
  <2>2. CASE b \in full
    BY <2>1, <2>2
  <2>3. CASE b \notin full
    <3>1. has[b] = 0
      BY <1>0, <2>3
    <3>2. have(before(b)) \in Nat
      BY <1>11
    <3> HIDE DEF have, before
    <3>3. moved[b] = 0
      BY <1>14, <3>1, <3>2 DEF SmallerOf, LargerOf
    <3> QED
      BY <2>1, <2>3, <3>3
  <2> QED
    BY <2>2, <2>3
<1>20. h[n].moved \in [B -> Nat] /\ moved = [b \in B |-> moved[b]]
  <2>1. h[n] \in LoopStates(B)
    BY <1>17
  <2> QED
    BY <1>13, <2>1 DEF LoopStates, Moved
<1>21. h[n].moved = moved
  BY <1>19, <1>20
<1> QED
  BY <1>8, <1>13, <1>21
=============================================================================
