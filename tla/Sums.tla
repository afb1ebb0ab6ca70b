-------------------------------- MODULE Sums --------------------------------
(***************************************************************************)
(* What SumFunctionOnSet of the community modules promises, for any finite *)
(* set: it folds the set in an order CHOOSE picks, and these theorems say  *)
(* that the order does not matter.  They are proved by a smallest          *)
(* counterexample: a set of subsets of a finite set has a minimal member   *)
(* under inclusion, so a claim about all subsets that fails fails for some *)
(* m and holds for everything strictly inside m.                           *)
(*                                                                         *)
(* The second half is about what is built one place after another: a       *)
(* recursive function on 0..n is the one its equation says, FlattenSeq     *)
(* joins sequences, and rows with different ranks stand in one line.       *)
(***************************************************************************)
EXTENDS Integers, Sequences, FiniteSets, Functions, SequencesExt, FiniteSetTheorems,
        SequenceTheorems, WellFoundedInduction, TLAPS

(* The fold's pick from a set, its step, and the function it defines. *)
Some(s) == CHOOSE x \in s : TRUE
SumStep(g, fun, s) == IF s = {} THEN 0 ELSE fun[Some(s)] + g[s \ {Some(s)}]
IsSum(g, fun, S) == g = [s \in SUBSET S |-> SumStep(g, fun, s)]

-----------------------------------------------------------------------------
(* SumFunctionOnSet is the value of that function at the whole set. *)
LEMMA SumUnfolds ==
  ASSUME NEW fun, NEW S
  PROVE SumFunctionOnSet(fun, S) = (CHOOSE g : IsSum(g, fun, S))[S]
BY DEF SumFunctionOnSet, FoldFunctionOnSet, MapThenFoldSet, IsSum, SumStep, Some

(* The pick is a member. *)
LEMMA SomeIn == ASSUME NEW s, s # {} PROVE Some(s) \in s
BY DEF Some

(* A set of subsets of a finite set has a smallest member. *)
LEMMA SmallestSubset ==
  ASSUME NEW S, IsFiniteSet(S), NEW T, T \subseteq SUBSET S, T # {}
  PROVE  \E m \in T : \A t \in T : t \subseteq m => t = m
<1>1. IsWellFoundedOn(StrictSubsetOrdering(S), SUBSET S)
  BY FS_StrictSubsetOrderingWellFounded, FS_FiniteSubsetsOfFinite
<1>2. PICK m \in T : \A t \in T : ~ (<<t, m>> \in StrictSubsetOrdering(S))
  BY <1>1, WFMin
<1> QED
  BY <1>2 DEF StrictSubsetOrdering

-----------------------------------------------------------------------------
(* The fold's function is unique, *)
LEMMA SumIsUnique ==
  ASSUME NEW fun, NEW S, IsFiniteSet(S), NEW g, NEW h, IsSum(g, fun, S), IsSum(h, fun, S)
  PROVE  g = h
<1> DEFINE Differ == {s \in SUBSET S : g[s] # h[s]}
<1>1. SUFFICES ASSUME Differ # {} PROVE FALSE
  BY DEF IsSum
<1>2. PICK m \in Differ : \A t \in Differ : t \subseteq m => t = m
  <2>1. Differ \subseteq SUBSET S
    OBVIOUS
  <2> HIDE DEF Differ
  <2> QED
    BY <1>1, <2>1, SmallestSubset
<1>3. g[m] = SumStep(g, fun, m) /\ h[m] = SumStep(h, fun, m)
  BY DEF IsSum
<1>4. m # {}
  BY <1>3 DEF SumStep
<1>5. Some(m) \in m
  BY <1>4, SomeIn
<1>6. m \ {Some(m)} \in SUBSET S /\ m \ {Some(m)} # m
  BY <1>5
<1>7. g[m \ {Some(m)}] = h[m \ {Some(m)}]
  BY <1>2, <1>6
<1> QED
  BY <1>3, <1>4, <1>7 DEF SumStep

(* it gives the sums of the parts of the set too, *)
LEMMA SumOfPart ==
  ASSUME NEW fun, NEW S, IsFiniteSet(S), NEW g, IsSum(g, fun, S), NEW T \in SUBSET S
  PROVE  SumFunctionOnSet(fun, T) = g[T]
<1> DEFINE h == [s \in SUBSET T |-> g[s]]
<1>1. IsSum(h, fun, T)
  <2>1. ASSUME NEW s \in SUBSET T PROVE h[s] = SumStep(h, fun, s)
    <3>1. g[s] = SumStep(g, fun, s)
      BY DEF IsSum
    <3>2. SumStep(g, fun, s) = SumStep(h, fun, s)
      BY DEF SumStep
    <3> QED
      BY <3>1, <3>2
  <2> QED
    BY <2>1 DEF IsSum
<1>2. IsSum((CHOOSE k : IsSum(k, fun, T)), fun, T)
  BY <1>1
<1>3. IsFiniteSet(T)
  BY FS_Subset
<1>4. (CHOOSE k : IsSum(k, fun, T)) = h
  BY <1>1, <1>2, <1>3, SumIsUnique
<1> QED
  BY <1>4, SumUnfolds

(* and it exists. *)
LEMMA SumExists ==
  ASSUME NEW fun, NEW S, IsFiniteSet(S)
  PROVE  \E g : IsSum(g, fun, S)
<1> DEFINE Without == {s \in SUBSET S : ~ \E g : IsSum(g, fun, s)}
<1>1. SUFFICES ASSUME Without # {} PROVE FALSE
  OBVIOUS
<1>2. PICK m \in Without : \A t \in Without : t \subseteq m => t = m
  <2>1. Without \subseteq SUBSET S
    OBVIOUS
  <2> HIDE DEF Without
  <2> QED
    BY <1>1, <2>1, SmallestSubset
<1> DEFINE h == [s \in SUBSET m |-> IF s = {} THEN 0 ELSE fun[Some(s)] + SumFunctionOnSet(fun, s \ {Some(s)})]
<1>3. ASSUME NEW t \in SUBSET m, t # m PROVE h[t] = SumFunctionOnSet(fun, t)
  <2>1. PICK g : IsSum(g, fun, t)
    BY <1>2, <1>3
  <2>2. IsFiniteSet(t)
    BY FS_Subset
  <2>3. SumFunctionOnSet(fun, t) = g[t] /\ SumFunctionOnSet(fun, t \ {Some(t)}) = g[t \ {Some(t)}]
    BY <2>1, <2>2, SumOfPart
  <2>4. g[t] = SumStep(g, fun, t)
    BY <2>1 DEF IsSum
  <2> QED
    BY <2>3, <2>4 DEF SumStep
<1>4. ASSUME NEW s \in SUBSET m PROVE h[s] = SumStep(h, fun, s)
  <2>1. CASE s = {}
    BY <2>1 DEF SumStep
  <2>2. CASE s # {}
    <3>1. Some(s) \in s
      BY <2>2, SomeIn
    <3>2. h[s \ {Some(s)}] = SumFunctionOnSet(fun, s \ {Some(s)})
      BY <3>1, <1>3
    <3> QED
      BY <2>2, <3>2 DEF SumStep
  <2> QED
    BY <2>1, <2>2
<1>5. IsSum(h, fun, m)
  BY <1>4 DEF IsSum
<1> QED
  BY <1>2, <1>5

-----------------------------------------------------------------------------
(* A sum is what the pick has and the sum of the others. *)
LEMMA SumByOne ==
  ASSUME NEW fun, NEW S, IsFiniteSet(S)
  PROVE  SumFunctionOnSet(fun, S) =
           IF S = {} THEN 0 ELSE fun[Some(S)] + SumFunctionOnSet(fun, S \ {Some(S)})
<1>1. PICK g : IsSum(g, fun, S)
  BY SumExists
<1>2. SumFunctionOnSet(fun, S) = g[S] /\ SumFunctionOnSet(fun, S \ {Some(S)}) = g[S \ {Some(S)}]
  BY <1>1, SumOfPart
<1>3. g[S] = SumStep(g, fun, S)
  BY <1>1 DEF IsSum
<1> QED
  BY <1>2, <1>3 DEF SumStep

-----------------------------------------------------------------------------
(* The sum over no members is zero. *)
THEOREM SumOfNone == ASSUME NEW fun PROVE SumFunctionOnSet(fun, {}) = 0
BY SumByOne, FS_EmptySet

(* A sum of integers is an integer. *)
THEOREM SumIsInteger ==
  ASSUME NEW fun, NEW S, IsFiniteSet(S), \A x \in S : fun[x] \in Int
  PROVE  SumFunctionOnSet(fun, S) \in Int
<1> DEFINE Bad == {s \in SUBSET S : SumFunctionOnSet(fun, s) \notin Int}
<1>1. SUFFICES ASSUME Bad # {} PROVE FALSE
  OBVIOUS
<1>2. PICK m \in Bad : \A t \in Bad : t \subseteq m => t = m
  <2>1. Bad \subseteq SUBSET S
    OBVIOUS
  <2> HIDE DEF Bad
  <2> QED
    BY <1>1, <2>1, SmallestSubset
<1>3. IsFiniteSet(m)
  BY FS_Subset
<1>4. m # {}
  BY SumOfNone
<1>5. Some(m) \in m
  BY <1>4, SomeIn
<1>6. SumFunctionOnSet(fun, m \ {Some(m)}) \in Int
  BY <1>2, <1>5
<1> QED
  BY <1>3, <1>4, <1>5, <1>6, SumByOne

(* Only what the function has at the members counts. *)
THEOREM SumOfSame ==
  ASSUME NEW f, NEW g, NEW S, IsFiniteSet(S), \A x \in S : f[x] = g[x]
  PROVE  SumFunctionOnSet(f, S) = SumFunctionOnSet(g, S)
<1> DEFINE Bad == {s \in SUBSET S : SumFunctionOnSet(f, s) # SumFunctionOnSet(g, s)}
<1>1. SUFFICES ASSUME Bad # {} PROVE FALSE
  OBVIOUS
<1>2. PICK m \in Bad : \A t \in Bad : t \subseteq m => t = m
  <2>1. Bad \subseteq SUBSET S
    OBVIOUS
  <2> HIDE DEF Bad
  <2> QED
    BY <1>1, <2>1, SmallestSubset
<1>3. IsFiniteSet(m)
  BY FS_Subset
<1>4. m # {}
  BY SumOfNone
<1>5. Some(m) \in m
  BY <1>4, SomeIn
<1>6. SumFunctionOnSet(f, m \ {Some(m)}) = SumFunctionOnSet(g, m \ {Some(m)})
  BY <1>2, <1>5
<1> QED
  BY <1>3, <1>4, <1>5, <1>6, SumByOne

(* Any member can be taken out, not only the fold's pick. *)
THEOREM SumWithout ==
  ASSUME NEW fun, NEW S, IsFiniteSet(S), \A x \in S : fun[x] \in Int, NEW e \in S
  PROVE  SumFunctionOnSet(fun, S) = fun[e] + SumFunctionOnSet(fun, S \ {e})
<1> DEFINE Bad == {s \in SUBSET S : \E x \in s : SumFunctionOnSet(fun, s) # fun[x] + SumFunctionOnSet(fun, s \ {x})}
<1>1. SUFFICES ASSUME Bad # {} PROVE FALSE
  OBVIOUS
<1>2. PICK m \in Bad : \A t \in Bad : t \subseteq m => t = m
  <2>1. Bad \subseteq SUBSET S
    OBVIOUS
  <2> HIDE DEF Bad
  <2> QED
    BY <1>1, <2>1, SmallestSubset
<1>3. PICK x \in m : SumFunctionOnSet(fun, m) # fun[x] + SumFunctionOnSet(fun, m \ {x})
  BY <1>2
<1>4. \A s \in SUBSET m : IsFiniteSet(s) /\ SumFunctionOnSet(fun, s) \in Int
  BY FS_Subset, SumIsInteger
<1> DEFINE c == Some(m)
<1>5. c \in m
  BY <1>3, SomeIn
<1>6. SumFunctionOnSet(fun, m) = fun[c] + SumFunctionOnSet(fun, m \ {c})
  BY <1>4, <1>5, SumByOne
<1>7. c # x
  BY <1>3, <1>6
<1>8. SumFunctionOnSet(fun, m \ {c}) = fun[x] + SumFunctionOnSet(fun, (m \ {c}) \ {x})
  <2>1. m \ {c} \notin Bad /\ m \ {c} \in SUBSET S /\ x \in m \ {c}
    BY <1>2, <1>5, <1>7
  <2> QED
    BY <2>1
<1>9. SumFunctionOnSet(fun, m \ {x}) = fun[c] + SumFunctionOnSet(fun, (m \ {x}) \ {c})
  <2>1. m \ {x} \notin Bad /\ m \ {x} \in SUBSET S /\ c \in m \ {x}
    BY <1>2, <1>5, <1>7
  <2> QED
    BY <2>1
<1>10. (m \ {c}) \ {x} = (m \ {x}) \ {c}
  OBVIOUS
<1>11. fun[c] \in Int /\ fun[x] \in Int /\ SumFunctionOnSet(fun, (m \ {x}) \ {c}) \in Int
  BY <1>4, <1>5
<1>12. SumFunctionOnSet(fun, m) = fun[c] + (fun[x] + SumFunctionOnSet(fun, (m \ {x}) \ {c}))
  BY <1>6, <1>8, <1>10
<1>13. SumFunctionOnSet(fun, m) # fun[x] + (fun[c] + SumFunctionOnSet(fun, (m \ {x}) \ {c}))
  BY <1>3, <1>9
<1> HIDE DEF c
<1> QED
  BY <1>11, <1>12, <1>13

(* One more member adds what it has. *)
THEOREM SumWithOneMore ==
  ASSUME NEW fun, NEW S, IsFiniteSet(S), \A x \in S : fun[x] \in Int,
         NEW e, e \notin S, fun[e] \in Int
  PROVE  SumFunctionOnSet(fun, S \cup {e}) = fun[e] + SumFunctionOnSet(fun, S)
<1> DEFINE T == S \cup {e}
<1>1. IsFiniteSet(T) /\ (\A x \in T : fun[x] \in Int) /\ e \in T
  BY FS_AddElement
<1>2. T \ {e} = S
  OBVIOUS
<1> HIDE DEF T
<1>3. SumFunctionOnSet(fun, T) = fun[e] + SumFunctionOnSet(fun, T \ {e})
  BY <1>1, SumWithout
<1> QED
  BY <1>2, <1>3 DEF T

(* What the parts of a set add up to is what the set does. *)
THEOREM SumOfParts ==
  ASSUME NEW fun, NEW S, IsFiniteSet(S), \A x \in S : fun[x] \in Int, NEW T, T \subseteq S
  PROVE  SumFunctionOnSet(fun, S) = SumFunctionOnSet(fun, T) + SumFunctionOnSet(fun, S \ T)
<1> DEFINE Bad == {t \in SUBSET S :
                     SumFunctionOnSet(fun, S) # SumFunctionOnSet(fun, t) + SumFunctionOnSet(fun, S \ t)}
<1>1. SUFFICES ASSUME Bad # {} PROVE FALSE
  OBVIOUS
<1>2. PICK m \in Bad : \A t \in Bad : t \subseteq m => t = m
  <2>1. Bad \subseteq SUBSET S
    OBVIOUS
  <2> HIDE DEF Bad
  <2> QED
    BY <1>1, <2>1, SmallestSubset
<1>3. \A t \in SUBSET S : IsFiniteSet(t) /\ SumFunctionOnSet(fun, t) \in Int
  <2> TAKE t \in SUBSET S
  <2>1. IsFiniteSet(t) /\ \A x \in t : fun[x] \in Int
    BY FS_Subset
  <2> QED
    BY <2>1, SumIsInteger
<1>4. m # {}
  <2>1. SumFunctionOnSet(fun, {}) = 0 /\ S \ {} = S /\ SumFunctionOnSet(fun, S) \in Int
    BY <1>3, SumOfNone
  <2> QED
    BY <2>1
<1>5. PICK x \in m : TRUE
  BY <1>4
<1> DEFINE rest == m \ {x}
<1>6. rest \in SUBSET S /\ rest \notin Bad /\ m \in SUBSET S /\ S \ m \in SUBSET S /\ S \ rest \in SUBSET S
  BY <1>2, <1>5
<1>7. SumFunctionOnSet(fun, S) = SumFunctionOnSet(fun, rest) + SumFunctionOnSet(fun, S \ rest)
  BY <1>6
<1>8. SumFunctionOnSet(fun, m) = fun[x] + SumFunctionOnSet(fun, rest)
  <2>1. IsFiniteSet(m) /\ \A y \in m : fun[y] \in Int
    BY <1>3, <1>6
  <2> QED
    BY <1>5, <2>1, SumWithout
<1>9. SumFunctionOnSet(fun, S \ rest) = fun[x] + SumFunctionOnSet(fun, S \ m)
  <2>1. x \in S \ rest /\ (S \ rest) \ {x} = S \ m /\ IsFiniteSet(S \ rest) /\ \A y \in S \ rest : fun[y] \in Int
    BY <1>3, <1>5, <1>6
  <2>2. SumFunctionOnSet(fun, S \ rest) = fun[x] + SumFunctionOnSet(fun, (S \ rest) \ {x})
    BY <2>1, SumWithout
  <2> QED
    BY <2>1, <2>2
<1>10. SumFunctionOnSet(fun, S) # SumFunctionOnSet(fun, m) + SumFunctionOnSet(fun, S \ m)
  BY <1>2
<1>11. /\ SumFunctionOnSet(fun, rest) \in Int /\ SumFunctionOnSet(fun, S \ m) \in Int
       /\ fun[x] \in Int
  BY <1>3, <1>5, <1>6
<1> HIDE DEF rest
<1> QED
  BY <1>7, <1>8, <1>9, <1>10, <1>11

(* A sum of what is not negative is not negative, and no part of it, nor a *)
(* member, has more than the whole.                                        *)
THEOREM SumOfNats ==
  ASSUME NEW fun, NEW S, IsFiniteSet(S), \A x \in S : fun[x] \in Nat
  PROVE  SumFunctionOnSet(fun, S) \in Nat
<1> DEFINE Bad == {s \in SUBSET S : SumFunctionOnSet(fun, s) \notin Nat}
<1>1. SUFFICES ASSUME Bad # {} PROVE FALSE
  OBVIOUS
<1>2. PICK m \in Bad : \A t \in Bad : t \subseteq m => t = m
  <2>1. Bad \subseteq SUBSET S
    OBVIOUS
  <2> HIDE DEF Bad
  <2> QED
    BY <1>1, <2>1, SmallestSubset
<1>3. IsFiniteSet(m)
  BY FS_Subset
<1>4. m # {}
  BY SumOfNone
<1>5. Some(m) \in m
  BY <1>4, SomeIn
<1>6. SumFunctionOnSet(fun, m \ {Some(m)}) \in Nat
  BY <1>2, <1>5
<1> QED
  BY <1>3, <1>4, <1>5, <1>6, SumByOne

(* A part of naturals sums to no more than the whole.                      *)
THEOREM SumOfPartAtMost ==
  ASSUME NEW fun, NEW S, IsFiniteSet(S), \A x \in S : fun[x] \in Nat, NEW T, T \subseteq S
  PROVE  SumFunctionOnSet(fun, T) <= SumFunctionOnSet(fun, S)
<1>1. \A t \in SUBSET S : SumFunctionOnSet(fun, t) \in Nat
  BY FS_Subset, SumOfNats
<1>2. SumFunctionOnSet(fun, S) = SumFunctionOnSet(fun, T) + SumFunctionOnSet(fun, S \ T)
  BY SumOfParts
<1>3. SumFunctionOnSet(fun, T) \in Nat /\ SumFunctionOnSet(fun, S \ T) \in Nat
  BY <1>1
<1> QED
  BY <1>2, <1>3

(* A natural is no more than a sum it is part of.                          *)
THEOREM MemberAtMostSum ==
  ASSUME NEW fun, NEW S, IsFiniteSet(S), \A x \in S : fun[x] \in Nat, NEW e \in S
  PROVE  fun[e] <= SumFunctionOnSet(fun, S)
<1>1. SumFunctionOnSet(fun, S) = fun[e] + SumFunctionOnSet(fun, S \ {e})
  BY SumWithout
<1>2. SumFunctionOnSet(fun, S \ {e}) \in Nat
  BY FS_Subset, SumOfNats
<1> QED
  BY <1>1, <1>2

(* A change at one member changes the sum by as much. *)
THEOREM SumChanged ==
  ASSUME NEW f, NEW g, NEW S, IsFiniteSet(S), \A x \in S : f[x] \in Int /\ g[x] \in Int,
         NEW e \in S, \A x \in S \ {e} : g[x] = f[x]
  PROVE  SumFunctionOnSet(g, S) = SumFunctionOnSet(f, S) + (g[e] - f[e])
<1>1. IsFiniteSet(S \ {e})
  BY FS_Subset
<1>2. /\ SumFunctionOnSet(f, S) = f[e] + SumFunctionOnSet(f, S \ {e})
      /\ SumFunctionOnSet(g, S) = g[e] + SumFunctionOnSet(g, S \ {e})
  BY SumWithout
<1>3. SumFunctionOnSet(g, S \ {e}) = SumFunctionOnSet(f, S \ {e})
  BY <1>1, SumOfSame
<1>4. SumFunctionOnSet(f, S \ {e}) \in Int
  BY <1>1, SumIsInteger
<1> QED
  BY <1>2, <1>3, <1>4

(* Where nothing is there is nothing in all. *)
THEOREM SumOfZeros ==
  ASSUME NEW fun, NEW S, IsFiniteSet(S), \A x \in S : fun[x] = 0
  PROVE  SumFunctionOnSet(fun, S) = 0
<1> DEFINE Bad == {s \in SUBSET S : SumFunctionOnSet(fun, s) # 0}
<1>1. SUFFICES ASSUME Bad # {} PROVE FALSE
  OBVIOUS
<1>2. PICK m \in Bad : \A t \in Bad : t \subseteq m => t = m
  <2>1. Bad \subseteq SUBSET S
    OBVIOUS
  <2> HIDE DEF Bad
  <2> QED
    BY <1>1, <2>1, SmallestSubset
<1>3. IsFiniteSet(m)
  BY FS_Subset
<1>4. m # {}
  BY SumOfNone
<1>5. Some(m) \in m
  BY <1>4, SomeIn
<1>6. SumFunctionOnSet(fun, m \ {Some(m)}) = 0
  BY <1>2, <1>5
<1> QED
  BY <1>3, <1>4, <1>5, <1>6, SumByOne

(* Sums add up member by member. *)
THEOREM SumOfSums ==
  ASSUME NEW f, NEW g, NEW h, NEW S, IsFiniteSet(S),
         \A x \in S : f[x] \in Int /\ g[x] \in Int /\ h[x] = f[x] + g[x]
  PROVE  SumFunctionOnSet(h, S) = SumFunctionOnSet(f, S) + SumFunctionOnSet(g, S)
<1> DEFINE Bad == {s \in SUBSET S :
                     SumFunctionOnSet(h, s) # SumFunctionOnSet(f, s) + SumFunctionOnSet(g, s)}
<1>1. SUFFICES ASSUME Bad # {} PROVE FALSE
  OBVIOUS
<1>2. PICK m \in Bad : \A t \in Bad : t \subseteq m => t = m
  <2>1. Bad \subseteq SUBSET S
    OBVIOUS
  <2> HIDE DEF Bad
  <2> QED
    BY <1>1, <2>1, SmallestSubset
<1>3. IsFiniteSet(m)
  BY FS_Subset
<1>4. m # {}
  <2>1. /\ SumFunctionOnSet(f, {}) = 0 /\ SumFunctionOnSet(g, {}) = 0
        /\ SumFunctionOnSet(h, {}) = 0
    BY SumOfNone
  <2>2. SumFunctionOnSet(h, m) # SumFunctionOnSet(f, m) + SumFunctionOnSet(g, m)
    BY <1>2
  <2>3. 0 = 0 + 0
    OBVIOUS
  <2> HIDE DEF Bad
  <2> QED
    BY <2>1, <2>2, <2>3
<1> DEFINE c == Some(m)
           rest == m \ {c}
<1>5. c \in m
  BY <1>4, SomeIn
<1>6. SumFunctionOnSet(h, rest) = SumFunctionOnSet(f, rest) + SumFunctionOnSet(g, rest)
  BY <1>2, <1>5
<1>7. IsFiniteSet(rest) /\ \A x \in rest : f[x] \in Int /\ g[x] \in Int
  BY <1>3, FS_Subset
<1>8. SumFunctionOnSet(f, rest) \in Int /\ SumFunctionOnSet(g, rest) \in Int
  BY <1>7, SumIsInteger
<1>9. /\ SumFunctionOnSet(f, m) = f[c] + SumFunctionOnSet(f, rest)
      /\ SumFunctionOnSet(g, m) = g[c] + SumFunctionOnSet(g, rest)
      /\ SumFunctionOnSet(h, m) = h[c] + SumFunctionOnSet(h, rest)
  BY <1>3, <1>4, SumByOne
<1>10. f[c] \in Int /\ g[c] \in Int /\ h[c] = f[c] + g[c]
  BY <1>5
<1>11. SumFunctionOnSet(h, m) # SumFunctionOnSet(f, m) + SumFunctionOnSet(g, m)
  BY <1>2
<1> HIDE DEF c, rest
<1> QED
  BY <1>6, <1>8, <1>9, <1>10, <1>11

(* The sum of the negations is the negation of the sum. *)
THEOREM SumOfNegations ==
  ASSUME NEW f, NEW g, NEW S, IsFiniteSet(S), \A x \in S : f[x] \in Int /\ g[x] = -f[x]
  PROVE  SumFunctionOnSet(g, S) = -SumFunctionOnSet(f, S)
<1>1. PICK none : none = [x \in S |-> 0]
  OBVIOUS
<1>2. SumFunctionOnSet(none, S) = SumFunctionOnSet(f, S) + SumFunctionOnSet(g, S)
  <2>1. \A x \in S : f[x] \in Int /\ g[x] \in Int /\ none[x] = f[x] + g[x]
    BY <1>1
  <2> QED
    BY <2>1, SumOfSums
<1>3. SumFunctionOnSet(none, S) = 0
  BY <1>1, SumOfZeros
<1>4. SumFunctionOnSet(f, S) \in Int /\ SumFunctionOnSet(g, S) \in Int
  <2>1. \A x \in S : f[x] \in Int /\ g[x] \in Int
    OBVIOUS
  <2> QED
    BY <2>1, SumIsInteger
<1> QED
  BY <1>2, <1>3, <1>4

(* A function on one more element adds what it gives that element. *)
THEOREM SumExtended ==
  ASSUME NEW f, NEW g, NEW S, IsFiniteSet(S), \A x \in S : f[x] \in Int /\ g[x] = f[x],
         NEW e, e \notin S, g[e] \in Int
  PROVE  SumFunctionOnSet(g, S \cup {e}) = SumFunctionOnSet(f, S) + g[e]
<1>1. \A x \in S : g[x] \in Int
  OBVIOUS
<1>2. SumFunctionOnSet(g, S \cup {e}) = g[e] + SumFunctionOnSet(g, S)
  BY <1>1, SumWithOneMore
<1>3. SumFunctionOnSet(g, S) = SumFunctionOnSet(f, S)
  <2>1. \A x \in S : g[x] = f[x]
    OBVIOUS
  <2> QED
    BY <2>1, SumOfSame
<1>4. SumFunctionOnSet(g, S) \in Int
  BY <1>1, SumIsInteger
<1> QED
  BY <1>2, <1>3, <1>4

(* What a key groups together. *)
Group(S, key, e) == {x \in S : key[x] = e}

(* What is grouped by a key sums up group by group.                        *)
THEOREM SumOfGroups ==
  ASSUME NEW f, NEW g, NEW key, NEW S, NEW E, IsFiniteSet(S), IsFiniteSet(E),
         \A x \in S : f[x] \in Int /\ key[x] \in E,
         \A e \in E : g[e] = SumFunctionOnSet(f, Group(S, key, e))
  PROVE  SumFunctionOnSet(g, E) = SumFunctionOnSet(f, S)
<1> DEFINE Of(t) == {x \in S : key[x] \in t}
           Bad == {t \in SUBSET E : SumFunctionOnSet(g, t) # SumFunctionOnSet(f, Of(t))}
<1>1. Of(E) = S
  OBVIOUS
<1>2. SUFFICES ASSUME Bad # {} PROVE FALSE
  BY <1>1
<1>3. PICK m \in Bad : \A t \in Bad : t \subseteq m => t = m
  <2>1. Bad \subseteq SUBSET E
    OBVIOUS
  <2> HIDE DEF Bad
  <2> QED
    BY <1>2, <2>1, SmallestSubset
<1>4. \A t \in SUBSET S : IsFiniteSet(t) /\ SumFunctionOnSet(f, t) \in Int
  <2> SUFFICES ASSUME NEW t \in SUBSET S PROVE IsFiniteSet(t) /\ SumFunctionOnSet(f, t) \in Int
    OBVIOUS
  <2>1. IsFiniteSet(t)
    BY FS_Subset
  <2> QED
    BY <2>1, SumIsInteger
<1>5. m \subseteq E /\ SumFunctionOnSet(g, m) # SumFunctionOnSet(f, Of(m)) /\ IsFiniteSet(m)
  BY <1>3, FS_Subset
<1>6. m # {}
  <2>1. Of({}) = {}
    OBVIOUS
  <2>2. SumFunctionOnSet(g, {}) = 0 /\ SumFunctionOnSet(f, {}) = 0
    BY SumOfNone
  <2> QED
    BY <1>5, <2>1, <2>2
<1>7. PICK c \in m : TRUE
  BY <1>6
<1>8. SumFunctionOnSet(g, m \ {c}) = SumFunctionOnSet(f, Of(m \ {c}))
  BY <1>3, <1>5, <1>7
<1>9. \A e \in m : g[e] \in Int /\ g[e] = SumFunctionOnSet(f, Group(S, key, e))
  <2> SUFFICES ASSUME NEW e \in m PROVE g[e] \in Int /\ g[e] = SumFunctionOnSet(f, Group(S, key, e))
    OBVIOUS
  <2>1. Group(S, key, e) \in SUBSET S
    BY DEF Group
  <2> QED
    BY <1>4, <1>5, <2>1
<1>10. SumFunctionOnSet(g, m) = g[c] + SumFunctionOnSet(g, m \ {c})
  <2>1. IsFiniteSet(m) /\ c \in m /\ \A x \in m : g[x] \in Int
    BY <1>5, <1>7, <1>9
  <2> HIDE DEF Bad
  <2> QED
    BY ONLY <2>1, SumWithout
<1>11. SumFunctionOnSet(f, Of(m)) = SumFunctionOnSet(f, Group(S, key, c)) + SumFunctionOnSet(f, Of(m \ {c}))
  <2>1. Group(S, key, c) \subseteq Of(m) /\ Of(m) \ Group(S, key, c) = Of(m \ {c})
    BY <1>7 DEF Group
  <2>2. IsFiniteSet(Of(m)) /\ \A x \in Of(m) : f[x] \in Int
    BY <1>4
  <2> HIDE DEF Of
  <2>3. SumFunctionOnSet(f, Of(m)) = SumFunctionOnSet(f, Group(S, key, c))
                                     + SumFunctionOnSet(f, Of(m) \ Group(S, key, c))
    BY ONLY <2>1, <2>2, SumOfParts
  <2> QED
    BY <2>1, <2>3
<1> QED
  BY <1>5, <1>8, <1>9, <1>10, <1>11

-----------------------------------------------------------------------------
(* Functions that are defined from one place to the next.                  *)

(* A set of numbers that has the first and with each the next has all.     *)
LEMMA UpTo ==
    ASSUME NEW n \in Nat, NEW T, 0 \in T, \A i \in 1..n : i - 1 \in T => i \in T
    PROVE  \A i \in 0..n : i \in T
<1> DEFINE Bad == {i \in 0..n : i \notin T}
<1> SUFFICES ASSUME Bad # {} PROVE FALSE
  OBVIOUS
<1>1. Bad \subseteq Nat
  OBVIOUS
<1>2. PICK m \in Bad : \A k \in Bad : ~(k < m)
  <2> HIDE DEF Bad
  <2>1. PICK m \in Bad : \A k \in Bad : <<k, m>> \notin OpToRel(<, Nat)
    BY <1>1, NatLessThanWellFounded, WFMin
  <2> QED
    BY <1>1, <2>1 DEF OpToRel
<1>3. m # 0 /\ m \in 1..n /\ m - 1 \in 0..n
  BY <1>2
<1>4. m - 1 \notin Bad
  BY <1>2, <1>3
<1> QED
  BY <1>2, <1>3, <1>4

(* Two such functions are equal when they start so and go on alike,        *)
LEMMA SameUpTo ==
    ASSUME NEW n \in Nat, NEW f, NEW g, f[0] = g[0], \A i \in 1..n : f[i - 1] = g[i - 1] => f[i] = g[i]
    PROVE  \A i \in 0..n : f[i] = g[i]
<1> DEFINE T == {i \in 0..n : f[i] = g[i]}
<1>1. 0 \in T
  OBVIOUS
<1>2. \A i \in 1..n : i - 1 \in T => i \in T
  OBVIOUS
<1>3. \A i \in 0..n : i \in T
  <2> HIDE DEF T
  <2> QED
    BY <1>1, <1>2, UpTo
<1> QED
  BY <1>3

(* and there is one for every way to go on within a set.                   *)
Follows(f, n, A, a, step) ==
    f \in [0..n -> A] /\ f[0] = a /\ \A i \in 1..n : f[i] = step[i][f[i - 1]]

LEMMA GoesOn ==
    ASSUME NEW n \in Nat, NEW A, NEW a \in A, NEW step \in [1..n -> [A -> A]]
    PROVE  \E f : Follows(f, n, A, a, step)
<1> DEFINE Upto(k) == {f \in [0..n -> A] : f[0] = a /\ \A i \in 1..k : f[i] = step[i][f[i - 1]]}
           T == {k \in 0..n : Upto(k) # {}}
<1>1. 0 \in T
  <2> DEFINE f == [i \in 0..n |-> a]
  <2>1. f \in [0..n -> A] /\ f[0] = a
    OBVIOUS
  <2>2. \A i \in 1..0 : f[i] = step[i][f[i - 1]]
    OBVIOUS
  <2>3. f \in Upto(0)
    BY <2>1, <2>2
  <2> QED
    BY <2>3
<1>2. ASSUME NEW k \in 1..n, k - 1 \in T PROVE k \in T
  <2>1. PICK f \in [0..n -> A] : f[0] = a /\ \A i \in 1..(k - 1) : f[i] = step[i][f[i - 1]]
    BY <1>2
  <2>2. PICK b : b = step[k][f[k - 1]]
    OBVIOUS
  <2>3. k - 1 \in 0..n /\ f[k - 1] \in A /\ b \in A
    BY <2>1, <2>2
  <2> DEFINE g == [f EXCEPT ![k] = b]
  <2>4. g \in [0..n -> A] /\ g[0] = a /\ g[k] = b /\ \A i \in 0..n : i # k => g[i] = f[i]
    BY <2>1, <2>3
  <2> HIDE DEF g
  <2>5. ASSUME NEW i \in 1..k PROVE g[i] = step[i][g[i - 1]]
    <3>1. i - 1 # k /\ i - 1 \in 0..n /\ g[i - 1] = f[i - 1]
      BY <2>4
    <3>2. CASE i = k
      BY <2>2, <2>4, <3>1, <3>2
    <3>3. CASE i # k
      <4>1. i \in 1..(k - 1) /\ i \in 0..n
        BY <3>3
      <4> QED
        BY <2>1, <2>4, <3>1, <3>3, <4>1
    <3> QED
      BY <3>2, <3>3
  <2>6. g \in Upto(k)
    BY <2>4, <2>5
  <2> QED
    BY <2>6
<1>3. n \in T
  <2>1. \A i \in 0..n : i \in T
    <3> HIDE DEF T
    <3> QED
      BY <1>1, <1>2, UpTo
  <2> QED
    BY <2>1
<1> QED
  BY <1>3 DEF Follows

-----------------------------------------------------------------------------
(* FlattenSeq: the pieces one after the other.                             *)
Flattened(f, seqs) == f = [i \in 1..Len(seqs) |-> IF i = 1 THEN seqs[i] ELSE f[i - 1] \o seqs[i]]

LEMMA NothingIsASeq == ASSUME NEW S PROVE <<>> \in Seq(S)
  OBVIOUS

LEMMA FlattenUnfolds ==
    ASSUME NEW seqs, Len(seqs) # 0
    PROVE  FlattenSeq(seqs) = (CHOOSE f : Flattened(f, seqs))[Len(seqs)]
BY DEF FlattenSeq, Flattened

(* The pieces so far.                                                      *)
Joined(h, seqs, n, A) ==
    /\ \A i \in 1..n : h[i] \in A /\ h[i] = IF i = 1 THEN seqs[i] ELSE h[i - 1] \o seqs[i]
    /\ FlattenSeq(seqs) = h[n]

LEMMA FlattenGoesOn ==
    ASSUME NEW S, NEW seqs \in Seq(Seq(S)), NEW n \in Nat \ {0}, n = Len(seqs)
    PROVE  \E h : Joined(h, seqs, n, Seq(S))
<1>0. n = Len(seqs) /\ n # 0
  OBVIOUS
<1>1. PICK A : A = Seq(S)
  OBVIOUS
<1> DEFINE step == [i \in 1..n |-> [q \in A |-> q \o seqs[i]]]
<1>2. ASSUME NEW i \in 1..n PROVE seqs[i] \in A
  BY <1>0, <1>1, ElementOfSeq
<1>3. PICK st \in [1..n -> [A -> A]] : st = step
  <2>1. ASSUME NEW i \in 1..n, NEW q \in A PROVE q \o seqs[i] \in A
    BY <1>1, <1>2, ConcatProperties
  <2> QED
    BY <2>1
<1>4. PICK e \in A : e = <<>>
  BY <1>1, NothingIsASeq, Zenon
<1>5. PICK f : Follows(f, n, A, e, st)
  <2> HIDE DEF step
  <2> QED
    BY GoesOn
<1>6. f \in [0..n -> A] /\ f[0] = <<>>
  BY <1>4, <1>5 DEF Follows
<1>7. ASSUME NEW i \in 1..n PROVE f[i] = f[i - 1] \o seqs[i]
  <2>1. f[i - 1] \in A
    BY <1>6, SMTT(30)
  <2> QED
    BY <1>3, <1>5, <2>1 DEF Follows
<1>8. f[1] = seqs[1]
  <2>1. 1 \in 1..n /\ 1 - 1 = 0
    BY <1>0
  <2>2. f[1] = <<>> \o seqs[1]
    BY <1>6, <1>7, <2>1
  <2>3. seqs[1] \in Seq(S)
    BY <1>1, <1>2, <2>1
  <2>4. <<>> \o seqs[1] = seqs[1]
    BY <2>3, ConcatEmptySeq
  <2> QED
    BY <2>2, <2>4
<1> DEFINE g == [i \in 1..n |-> f[i]]
<1>9. ASSUME NEW i \in 1..n PROVE g[i] = IF i = 1 THEN seqs[i] ELSE g[i - 1] \o seqs[i]
  <2>1. CASE i = 1
    BY <1>8, <2>1
  <2>2. CASE i # 1
    <3>1. i - 1 \in 1..n
      BY <2>2
    <3> QED
      BY <1>7, <2>2, <3>1
  <2> QED
    BY <2>1, <2>2
<1>10. Flattened(g, seqs)
  <2>1. g = [i \in 1..n |-> g[i]]
    OBVIOUS
  <2>2. g = [i \in 1..n |-> IF i = 1 THEN seqs[i] ELSE g[i - 1] \o seqs[i]]
    <3> HIDE DEF g
    <3> QED
      BY <1>9, <2>1
  <2> HIDE DEF g
  <2> QED
    BY <1>0, <2>2 DEF Flattened
<1>11. PICK h : h = CHOOSE k : Flattened(k, seqs)
  OBVIOUS
<1>12. Flattened(h, seqs)
  <2> HIDE DEF g
  <2> QED
    BY <1>10, <1>11
<1>13. \A i \in 1..n : h[i] = IF i = 1 THEN seqs[i] ELSE h[i - 1] \o seqs[i]
  <2>1. h = [i \in 1..n |-> IF i = 1 THEN seqs[i] ELSE h[i - 1] \o seqs[i]]
    BY <1>0, <1>12 DEF Flattened
  <2> QED
    BY <2>1
<1> DEFINE T == {i \in 0..n : i # 0 => h[i] = f[i]}
<1>14. 0 \in T
  OBVIOUS
<1>15. \A i \in 1..n : i - 1 \in T => i \in T
  <2> SUFFICES ASSUME NEW i \in 1..n, i - 1 \in T PROVE h[i] = f[i]
    OBVIOUS
  <2>1. CASE i = 1
    BY <1>8, <1>13, <2>1
  <2>2. CASE i # 1
    <3>1. i - 1 # 0 /\ h[i - 1] = f[i - 1]
      BY <2>2
    <3> QED
      BY <1>7, <1>13, <2>2, <3>1
  <2> QED
    BY <2>1, <2>2
<1>16. \A i \in 0..n : i \in T
  <2> HIDE DEF T
  <2> QED
    BY <1>14, <1>15, UpTo
<1>17. ASSUME NEW i \in 1..n PROVE h[i] \in A
  <2>1. i \in 0..n /\ i # 0
    OBVIOUS
  <2>2. i \in T
    BY <1>16, <2>1
  <2> HIDE DEF step, g
  <2> QED
    BY <1>6, <2>1, <2>2
<1>18. FlattenSeq(seqs) = h[n]
  BY <1>0, <1>11, FlattenUnfolds
<1>19. Joined(h, seqs, n, A)
  <2> HIDE DEF T, g, step
  <2> QED
    BY <1>13, <1>17, <1>18 DEF Joined
<1> QED
  BY <1>1, <1>19

LEMMA FlattenIsTyped ==
    ASSUME NEW S, NEW seqs \in Seq(Seq(S))
    PROVE  FlattenSeq(seqs) \in Seq(S)
<1>0. PICK n \in Nat : n = Len(seqs)
  BY LenProperties
<1>1. CASE n = 0
  <2>1. seqs = <<>>
    BY <1>0, <1>1, EmptySeq
  <2>2. FlattenSeq(seqs) = seqs
    BY <1>0, <1>1 DEF FlattenSeq
  <2> QED
    BY <2>1, <2>2, NothingIsASeq, Zenon
<1>2. CASE n # 0
  <2>1. PICK h : Joined(h, seqs, n, Seq(S))
    BY <1>0, <1>2, FlattenGoesOn
  <2> QED
    BY <1>2, <2>1 DEF Joined
<1> QED
  BY <1>1, <1>2

(* One more piece goes behind the others, *)
LEMMA FlattenOfAppend ==
    ASSUME NEW S, NEW seqs \in Seq(Seq(S)), NEW x \in Seq(S)
    PROVE  FlattenSeq(Append(seqs, x)) = FlattenSeq(seqs) \o x
<1>0. PICK n \in Nat : n = Len(seqs)
  BY LenProperties
<1>1. PICK A : A = Seq(S)
  OBVIOUS
<1>2. PICK all \in Seq(A) : all = Append(seqs, x)
  BY <1>1, AppendProperties
<1>3. Len(all) = n + 1 /\ all[n + 1] = x /\ \A i \in 1..n : all[i] = seqs[i]
  BY <1>0, <1>1, <1>2, AppendProperties
<1>4. PICK h : Joined(h, all, n + 1, A)
  <2>1. all \in Seq(Seq(S)) /\ n + 1 \in Nat \ {0} /\ n + 1 = Len(all)
    BY <1>1, <1>2, <1>3
  <2> QED
    BY <1>1, <2>1, FlattenGoesOn
<1>5. \A i \in 1..(n + 1) : h[i] = IF i = 1 THEN all[i] ELSE h[i - 1] \o all[i]
  BY <1>4 DEF Joined
<1>6. FlattenSeq(all) = h[n + 1]
  BY <1>4 DEF Joined
<1>7. CASE n = 0
  <2>1. h[1] = x
    BY <1>3, <1>5, <1>7
  <2>2. seqs = <<>>
    BY <1>0, <1>1, <1>7, EmptySeq
  <2>3. FlattenSeq(seqs) = <<>>
    BY <1>0, <1>7, <2>2 DEF FlattenSeq
  <2>4. <<>> \o x = x
    BY ConcatEmptySeq
  <2> QED
    BY <1>2, <1>6, <1>7, <2>1, <2>3, <2>4
<1>8. CASE n # 0
  <2>1. PICK g : Joined(g, seqs, n, A)
    BY <1>0, <1>1, <1>8, FlattenGoesOn
  <2>2. \A i \in 1..n : g[i] = IF i = 1 THEN seqs[i] ELSE g[i - 1] \o seqs[i]
    BY <2>1 DEF Joined
  <2>3. FlattenSeq(seqs) = g[n]
    BY <2>1 DEF Joined
  <2> DEFINE T == {i \in 0..n : i # 0 => h[i] = g[i]}
  <2>4. 0 \in T
    OBVIOUS
  <2>5. ASSUME NEW i \in 1..n, i - 1 \in T PROVE i \in T
    <3>1. i \in 1..(n + 1) /\ all[i] = seqs[i] /\ (i # 1 => h[i - 1] = g[i - 1])
      BY <1>3, <2>5
    <3>2. h[i] = g[i]
      <4>1. CASE i = 1
        BY <1>5, <2>2, <3>1, <4>1
      <4>2. CASE i # 1
        BY <1>5, <2>2, <3>1, <4>2
      <4> QED
        BY <4>1, <4>2
    <3> QED
      BY <3>2
  <2>6. \A i \in 0..n : i \in T
    <3> HIDE DEF T
    <3> QED
      BY <2>4, <2>5, UpTo
  <2>7. h[n] = g[n]
    <3>1. n \in 0..n
      OBVIOUS
    <3>2. n \in T
      BY <2>6, <3>1
    <3> QED
      BY <1>8, <3>2
  <2>8. h[n + 1] = h[n] \o x
    <3>1. n + 1 \in 1..(n + 1) /\ n + 1 # 1 /\ (n + 1) - 1 = n
      BY <1>8
    <3> QED
      BY <1>3, <1>5, <3>1
  <2> QED
    BY <1>2, <1>6, <2>3, <2>7, <2>8
<1> QED
  BY <1>7, <1>8

(* and the first comes before the others.                                  *)
LEMMA FlattenOfFirst ==
    ASSUME NEW S, NEW seqs \in Seq(Seq(S)), seqs # <<>>
    PROVE  /\ Tail(seqs) \in Seq(Seq(S)) /\ seqs[1] \in Seq(S)
           /\ FlattenSeq(seqs) = seqs[1] \o FlattenSeq(Tail(seqs))
<1>9. ASSUME NEW u \in Seq(S), NEW v \in Seq(S), NEW w \in Seq(S)
      PROVE  (u \o v) \o w = u \o (v \o w)
  BY SMTT(30)
<1>1. PICK A : A = Seq(S)
  OBVIOUS
<1>0. PICK n \in Nat \ {0} : n = Len(seqs)
  BY <1>1, LenProperties, EmptySeq
<1>2. PICK x, rest : x = seqs[1] /\ rest = Tail(seqs)
  OBVIOUS
<1>3. x \in A /\ rest \in Seq(A) /\ Len(rest) = n - 1 /\ \A i \in 1..(n - 1) : rest[i] = seqs[i + 1]
  <2>1. x \in A
    BY <1>0, <1>1, <1>2, ElementOfSeq
  <2>2. rest \in Seq(A) /\ Len(rest) = n - 1 /\ \A i \in 1..(n - 1) : rest[i] = seqs[i + 1]
    BY <1>0, <1>1, <1>2, HeadTailProperties
  <2> QED
    BY <2>1, <2>2
<1>4. PICK h : Joined(h, seqs, n, A)
  BY <1>0, <1>1, FlattenGoesOn
<1>5. \A i \in 1..n : h[i] \in A /\ h[i] = IF i = 1 THEN seqs[i] ELSE h[i - 1] \o seqs[i]
  BY <1>4 DEF Joined
<1>6. FlattenSeq(seqs) = h[n]
  BY <1>4 DEF Joined
<1>7. CASE n = 1
  <2>1. h[1] = x
    BY <1>2, <1>5, <1>7
  <2>2. rest = <<>>
    BY <1>3, <1>7, EmptySeq
  <2>3. FlattenSeq(rest) = <<>>
    BY <1>3, <1>7, <2>2 DEF FlattenSeq
  <2>4. x \o <<>> = x
    BY <1>1, <1>3, ConcatEmptySeq
  <2> QED
    BY <1>1, <1>2, <1>3, <1>6, <1>7, <2>1, <2>3, <2>4
<1>8. CASE n # 1
  <2>0. n - 1 \in Nat \ {0} /\ n - 1 = Len(rest) /\ rest \in Seq(Seq(S))
    BY <1>1, <1>3, <1>8
  <2>1. PICK g : Joined(g, rest, n - 1, A)
    BY <1>1, <2>0, FlattenGoesOn
  <2>2. \A i \in 1..(n - 1) : g[i] \in A /\ g[i] = IF i = 1 THEN rest[i] ELSE g[i - 1] \o rest[i]
    BY <2>1 DEF Joined
  <2>3. FlattenSeq(rest) = g[n - 1]
    BY <2>1 DEF Joined
  <2> DEFINE T == {i \in 0..(n - 1) : i # 0 => h[i + 1] = x \o g[i]}
  <2>4. 0 \in T
    BY <2>0
  <2>5. ASSUME NEW i \in 1..(n - 1), i - 1 \in T PROVE i \in T
    <3>0. i - 1 # 0 => h[(i - 1) + 1] = x \o g[i - 1]
      BY <2>5
    <3>1. /\ i + 1 \in 1..n /\ i + 1 # 1 /\ (i + 1) - 1 = i /\ rest[i] = seqs[i + 1]
          /\ (i # 1 => h[i] = x \o g[i - 1]) /\ i \in 0..(n - 1)
      <4>1. (i - 1) + 1 = i /\ (i # 1 => i - 1 # 0)
        OBVIOUS
      <4>2. i # 1 => h[i] = x \o g[i - 1]
        BY <3>0, <4>1
      <4>3. i + 1 \in 1..n /\ i + 1 # 1 /\ (i + 1) - 1 = i /\ i \in 0..(n - 1)
        BY <2>0
      <4>4. rest[i] = seqs[i + 1]
        BY <1>3
      <4> HIDE DEF T
      <4> QED
        BY <4>2, <4>3, <4>4
    <3>2. h[i + 1] = h[i] \o rest[i]
      BY <1>5, <3>1
    <3>3. CASE i = 1
      <4>0. 1 \in 1..n /\ 1 \in 1..(n - 1)
        BY <2>0
      <4>1. h[1] = x /\ g[1] = rest[1]
        BY <1>2, <1>5, <2>2, <4>0
      <4>2. h[i + 1] = x \o g[i]
        BY <3>2, <3>3, <4>1
      <4> QED
        BY <3>1, <4>2
    <3>4. CASE i # 1
      <4>1. i - 1 \in 1..(n - 1)
        BY <3>4
      <4>2. g[i] = g[i - 1] \o rest[i] /\ g[i - 1] \in A
        BY <2>2, <3>4, <4>1
      <4>3. rest[i] \in A
        BY <1>3, ElementOfSeq
      <4>4. (x \o g[i - 1]) \o rest[i] = x \o (g[i - 1] \o rest[i])
        <5>1. PICK u \in Seq(S), v \in Seq(S), w \in Seq(S) : u = x /\ v = g[i - 1] /\ w = rest[i]
          BY <1>1, <1>3, <4>2, <4>3
        <5>2. (u \o v) \o w = u \o (v \o w)
          BY <1>9
        <5> QED
          BY <5>1, <5>2
      <4>5. h[i + 1] = x \o g[i]
        BY <3>1, <3>2, <3>4, <4>2, <4>4
      <4> QED
        BY <3>1, <4>5
    <3> QED
      BY <3>3, <3>4
  <2>6. \A i \in 0..(n - 1) : i \in T
    <3>1. n - 1 \in Nat
      BY <2>0
    <3> HIDE DEF T
    <3> QED
      BY <2>4, <2>5, <3>1, UpTo
  <2>7. h[n] = x \o g[n - 1]
    <3>1. n - 1 \in 0..(n - 1) /\ n - 1 # 0 /\ (n - 1) + 1 = n
      BY <2>0
    <3>2. n - 1 \in T
      BY <2>6, <3>1
    <3> QED
      BY <3>1, <3>2
  <2> QED
    BY <1>1, <1>2, <1>3, <1>6, <2>3, <2>7
<1> QED
  BY <1>7, <1>8

-----------------------------------------------------------------------------
(* A set of numbers has a least.                                           *)
LEMMA LeastOf ==
    ASSUME NEW T, T \subseteq Nat, T # {}
    PROVE  \E m \in T : \A k \in T : m <= k
<1>1. PICK m \in T : \A k \in T : <<k, m>> \notin OpToRel(<, Nat)
  BY NatLessThanWellFounded, WFMin
<1>2. ASSUME NEW k \in T PROVE m <= k
  <2>1. k \in Nat /\ m \in Nat
    OBVIOUS
  <2>2. ~(k < m)
    BY <1>1, <2>1 DEF OpToRel
  <2> QED
    BY <2>1, <2>2
<1> QED
  BY <1>2

-----------------------------------------------------------------------------
(* The members of a finite set in line: no two have one key, and the place *)
(* of each is given by how many have a smaller one.                        *)
Below(S, key, m) == {o \in S : key[o] < key[m]}
AtPlace(S, key, i) == CHOOSE m \in S : Cardinality(Below(S, key, m)) = i - 1

(* Each has a place, and they stand in the order of their keys.            *)
LEMMA LinedUp ==
    ASSUME NEW S, IsFiniteSet(S), NEW key \in [S -> Int],
           \A a, b \in S : key[a] = key[b] => a = b,
           NEW n, n = Cardinality(S)
    PROVE  /\ n \in Nat
           /\ \A i \in 1..n : AtPlace(S, key, i) \in S
           /\ \A i, j \in 1..n : i < j => key[AtPlace(S, key, i)] < key[AtPlace(S, key, j)]
           /\ \A m \in S : \E i \in 1..n : AtPlace(S, key, i) = m
<1>1. n \in Nat
  BY FS_CardinalityType
<1> DEFINE rank == [m \in S |-> Cardinality(Below(S, key, m)) + 1]
<1>2. ASSUME NEW m \in S
      PROVE  IsFiniteSet(Below(S, key, m)) /\ Cardinality(Below(S, key, m)) \in 0..(n - 1)
  <2>1. Below(S, key, m) \in SUBSET (S \ {m})
    BY DEF Below
  <2>2. IsFiniteSet(S \ {m}) /\ Cardinality(S \ {m}) = n - 1
    BY FS_RemoveElement
  <2>3. IsFiniteSet(Below(S, key, m)) /\ Cardinality(Below(S, key, m)) <= n - 1
    BY <2>1, <2>2, FS_Subset
  <2>4. Cardinality(Below(S, key, m)) \in Nat
    BY <2>3, FS_CardinalityType
  <2> QED
    BY <1>1, <2>3, <2>4
<1>3. ASSUME NEW a \in S, NEW b \in S, key[a] < key[b] PROVE rank[a] < rank[b]
  <2>1. Below(S, key, a) \in SUBSET Below(S, key, b) /\ a \in Below(S, key, b) /\ a \notin Below(S, key, a)
    BY <1>3 DEF Below
  <2>2. Cardinality(Below(S, key, a)) <= Cardinality(Below(S, key, b))
    BY <1>2, <2>1, FS_Subset
  <2>3. Cardinality(Below(S, key, b)) # Cardinality(Below(S, key, a))
    <3>1. IsFiniteSet(Below(S, key, b))
      BY <1>2
    <3> QED
      BY <2>1, <3>1, FS_Subset, Zenon
  <2>4. Cardinality(Below(S, key, a)) \in Int /\ Cardinality(Below(S, key, b)) \in Int
    BY <1>1, <1>2
  <2> QED
    BY <2>2, <2>3, <2>4
<1>4. rank \in [S -> 1..n]
  BY <1>1, <1>2
<1>5. ASSUME NEW a \in S, NEW b \in S, rank[a] = rank[b] PROVE a = b
  <2>1. ~(key[a] < key[b]) /\ ~(key[b] < key[a])
    BY <1>3, <1>4, <1>5
  <2> QED
    BY <2>1
<1>6. \A i \in 1..n : \E m \in S : rank[m] = i
  <2>1. PICK r : r = rank
    OBVIOUS
  <2> HIDE DEF rank
  <2>2. r \in Injection(S, 1..n)
    BY <1>4, <1>5, <2>1 DEF Injection, IsInjective
  <2>3. IsFiniteSet(1..n) /\ Cardinality(1..n) = n
    BY <1>1, FS_Interval
  <2>4. r \in Surjection(S, 1..n)
    BY <2>2, <2>3, FS_Injection
  <2> QED
    BY <2>1, <2>4 DEF Surjection
<1>7. ASSUME NEW i \in 1..n PROVE AtPlace(S, key, i) \in S /\ rank[AtPlace(S, key, i)] = i
  <2>1. PICK m \in S : rank[m] = i
    BY <1>6
  <2>2. Cardinality(Below(S, key, m)) = i - 1
    BY <1>1, <1>2, <2>1
  <2>3. AtPlace(S, key, i) \in S /\ Cardinality(Below(S, key, AtPlace(S, key, i))) = i - 1
    BY <2>2 DEF AtPlace
  <2> QED
    BY <2>3
<1>8. ASSUME NEW i \in 1..n, NEW j \in 1..n, i < j
      PROVE  key[AtPlace(S, key, i)] < key[AtPlace(S, key, j)]
  <2>1. PICK a \in S, b \in S : a = AtPlace(S, key, i) /\ b = AtPlace(S, key, j)
    BY <1>7
  <2>2. rank[a] = i /\ rank[b] = j
    BY <1>7, <2>1
  <2>3. a # b /\ ~(key[b] < key[a])
    BY <1>3, <1>8, <2>2
  <2>4. key[a] # key[b]
    BY <2>3
  <2> QED
    BY <2>1, <2>3, <2>4
<1>9. ASSUME NEW m \in S PROVE \E i \in 1..n : AtPlace(S, key, i) = m
  <2>1. rank[m] \in 1..n
    BY <1>4
  <2>2. AtPlace(S, key, rank[m]) = m
    BY <1>5, <1>7, <2>1
  <2> QED
    BY <2>1, <2>2
<1> QED
  BY <1>1, <1>7, <1>8, <1>9

=============================================================================
