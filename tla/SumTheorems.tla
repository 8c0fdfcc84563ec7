----------------------------- MODULE SumTheorems -----------------------------
(***************************************************************************)
(* What the proofs need of SumFunctionOnSet: the sum of a function's       *)
(* values over a finite set is there, does not depend on the order they    *)
(* are added in, and grows by what is added.                               *)
(*                                                                         *)
(* A sum is a recursion over the subsets of its set.  Induction goes by    *)
(* the smallest set that would refute a claim.                             *)
(***************************************************************************)
EXTENDS Integers, Functions, FiniteSetTheorems, WellFoundedInduction, TLAPS

(* Of the subsets that refute a claim some are minimal.                    *)
LEMMA LeastSubset ==
  ASSUME NEW S, IsFiniteSet(S), NEW bad \in SUBSET SUBSET S, bad # {}
  PROVE  \E T \in bad : \A U \in SUBSET T : U # T => U \notin bad
<1>1. IsWellFoundedOn(StrictSubsetOrdering(S), SUBSET S)
  BY FS_StrictSubsetOrderingWellFounded, FS_FiniteSubsetsOfFinite
<1>2. PICK T \in bad : \A U \in bad : ~(<<U, T>> \in StrictSubsetOrdering(S))
  BY <1>1, WFMin
<1> QED BY <1>2 DEF StrictSubsetOrdering

(* Induction over the subsets of a finite set.                             *)
LEMMA SetInduction ==
  ASSUME NEW S, IsFiniteSet(S), NEW good, {} \in good,
         ASSUME NEW T \in SUBSET S, T # {}, \A e \in T : T \ {e} \in good
         PROVE  T \in good
  PROVE  S \in good
<1> DEFINE bad == {T \in SUBSET S : T \notin good}
<1>1. SUFFICES ASSUME bad # {} PROVE FALSE
  OBVIOUS
<1>2. PICK T \in bad : \A U \in SUBSET T : U # T => U \notin bad
  <2>1. bad \in SUBSET SUBSET S
    OBVIOUS
  <2> HIDE DEF bad
  <2> QED BY <1>1, <2>1, LeastSubset
<1>3. T # {}
  OBVIOUS
<1>4. \A e \in T : T \ {e} \in good
  BY <1>2
<1> QED BY <1>3, <1>4

(* Induction up to a number.                                               *)
LEMMA Counting ==
  ASSUME NEW n \in Nat, NEW good, 0 \in good,
         ASSUME NEW k \in 0..n - 1, k \in good PROVE k + 1 \in good
  PROVE  n \in good
<1> DEFINE bad == {k \in 0..n : k \notin good}
           Less == {pair \in Nat \X Nat : pair[1] < pair[2]}
<1>1. SUFFICES ASSUME bad # {} PROVE FALSE
  OBVIOUS
<1>2. PICK k \in bad : \A j \in bad : ~(<<j, k>> \in Less)
  <2>1. IsWellFoundedOn(Less, Nat)
    BY NatLessThanWellFounded DEF OpToRel
  <2>2. bad \subseteq Nat
    OBVIOUS
  <2> HIDE DEF Less, bad
  <2> QED BY <1>1, <2>1, <2>2, WFMin
<1>3. k \in 1..n /\ k - 1 \in 0..n - 1 /\ k - 1 \in Nat
  OBVIOUS
<1>4. k - 1 \notin bad
  <2>1. <<k - 1, k>> \in Less
    BY <1>3
  <2> HIDE DEF bad, Less
  <2> QED BY <1>2, <2>1
<1>5. k - 1 \in good
  BY <1>3, <1>4
<1>6. (k - 1) + 1 \in good
  BY <1>3, <1>5
<1> QED BY <1>3, <1>6

\* The recursion, and its choice of what to add first.
Pick(T) == CHOOSE x \in T : TRUE

Adds(f, iter, S) ==
  iter = [T \in SUBSET S |->
            IF T = {} THEN 0 ELSE f[Pick(T)] + iter[T \ {Pick(T)}]]

\* The sum is what the recursion comes to at the whole set.
LEMMA SumIsRecursion ==
  ASSUME NEW f, NEW S
  PROVE  SumFunctionOnSet(f, S) = (CHOOSE iter : Adds(f, iter, S))[S]
BY DEF SumFunctionOnSet, FoldFunctionOnSet, MapThenFoldSet, Adds, Pick

\* What is added first is there.
LEMMA PickIsIn ==
  ASSUME NEW T, T # {}
  PROVE  Pick(T) \in T
BY DEF Pick

\* Two recursions agree wherever both are defined.
LEMMA AddsAgree ==
  ASSUME NEW f, NEW S, IsFiniteSet(S), NEW R, R \subseteq S,
         NEW iter, Adds(f, iter, S), NEW other, Adds(f, other, R)
  PROVE  \A T \in SUBSET R : iter[T] = other[T]
<1> DEFINE bad == {T \in SUBSET R : iter[T] # other[T]}
<1>1. SUFFICES ASSUME bad # {} PROVE FALSE
  OBVIOUS
<1>2. IsFiniteSet(R)
  BY FS_Subset
<1>3. PICK T \in bad : \A U \in SUBSET T : U # T => U \notin bad
  <2>1. bad \in SUBSET SUBSET R
    OBVIOUS
  <2> HIDE DEF bad
  <2> QED BY <1>1, <1>2, <2>1, LeastSubset
<1>4. CASE T = {}
  BY <1>4 DEF Adds
<1>5. CASE T # {}
  <2>1. Pick(T) \in T
    BY <1>5, PickIsIn
  <2>2. T \ {Pick(T)} \in SUBSET T /\ T \ {Pick(T)} # T
    BY <2>1
  <2>3. iter[T \ {Pick(T)}] = other[T \ {Pick(T)}]
    BY <1>3, <2>2
  <2>4. T \in SUBSET S /\ T \in SUBSET R
    OBVIOUS
  <2>5. iter[T] = f[Pick(T)] + iter[T \ {Pick(T)}]
    BY <1>5, <2>4 DEF Adds
  <2>6. other[T] = f[Pick(T)] + other[T \ {Pick(T)}]
    BY <1>5, <2>4 DEF Adds
  <2> QED BY <2>3, <2>5, <2>6
<1> QED BY <1>4, <1>5

\* Where there is a recursion, the sums are its values.
LEMMA SumsOfAdds ==
  ASSUME NEW f, NEW S, IsFiniteSet(S), NEW iter, Adds(f, iter, S),
         NEW T \in SUBSET S
  PROVE  SumFunctionOnSet(f, T) = iter[T]
<1> DEFINE part == [U \in SUBSET T |-> iter[U]]
           chosen == CHOOSE other : Adds(f, other, T)
<1>1. Adds(f, part, T)
  <2>1. ASSUME NEW U \in SUBSET T
        PROVE  iter[U] = IF U = {} THEN 0 ELSE f[Pick(U)] + part[U \ {Pick(U)}]
    <3>1. U \in SUBSET S /\ U \ {Pick(U)} \in SUBSET T
      OBVIOUS
    <3>2. part[U \ {Pick(U)}] = iter[U \ {Pick(U)}]
      BY <3>1
    <3>3. iter[U] = IF U = {} THEN 0 ELSE f[Pick(U)] + iter[U \ {Pick(U)}]
      BY <3>1 DEF Adds
    <3> QED BY <3>2, <3>3
  <2> QED BY <2>1 DEF Adds
<1> HIDE DEF part
<1>2. Adds(f, chosen, T)
  BY <1>1
<1> HIDE DEF chosen
<1>3. iter[T] = chosen[T]
  BY <1>2, AddsAgree
<1> QED BY <1>3, SumIsRecursion DEF chosen

\* There always is one: the sums themselves.
LEMMA AddsExists ==
  ASSUME NEW f, NEW S, IsFiniteSet(S)
  PROVE  \E iter : Adds(f, iter, S)
<1> DEFINE bad == {T \in SUBSET S : ~\E iter : Adds(f, iter, T)}
<1>1. SUFFICES ASSUME bad # {} PROVE FALSE
  OBVIOUS
<1>2. PICK T \in bad : \A U \in SUBSET T : U # T => U \notin bad
  <2>1. bad \in SUBSET SUBSET S
    OBVIOUS
  <2> HIDE DEF bad
  <2> QED BY <1>1, <2>1, LeastSubset
<1>3. T \in SUBSET S /\ ~\E iter : Adds(f, iter, T)
  OBVIOUS
<1>4. ASSUME NEW U \in SUBSET T, U # T
      PROVE  SumFunctionOnSet(f, U) =
               IF U = {} THEN 0
               ELSE f[Pick(U)] + SumFunctionOnSet(f, U \ {Pick(U)})
  <2>1. PICK iter : Adds(f, iter, U)
    BY <1>2, <1>4
  <2>2. IsFiniteSet(U)
    BY <1>3, FS_Subset
  <2>3. SumFunctionOnSet(f, U) = iter[U]
    BY <2>1, <2>2, SumsOfAdds
  <2>4. SumFunctionOnSet(f, U \ {Pick(U)}) = iter[U \ {Pick(U)}]
    BY <2>1, <2>2, SumsOfAdds
  <2> QED BY <2>1, <2>3, <2>4 DEF Adds
<1> DEFINE iter == [U \in SUBSET T |->
                     IF U = {} THEN 0
                     ELSE f[Pick(U)] + SumFunctionOnSet(f, U \ {Pick(U)})]
<1>5. ASSUME NEW U \in SUBSET T, U # {}
      PROVE  iter[U \ {Pick(U)}] = SumFunctionOnSet(f, U \ {Pick(U)})
  <2>1. U \ {Pick(U)} \in SUBSET T /\ U \ {Pick(U)} # T
    BY <1>5, PickIsIn
  <2> QED BY <1>4, <2>1
<1>6. Adds(f, iter, T)
  BY <1>5 DEF Adds
<1> QED BY <1>3, <1>6

-----------------------------------------------------------------------------
(* What the other proofs cite.                                             *)

(* Nothing adds up to zero.                                                *)
LEMMA SumOfNothing ==
  ASSUME NEW f
  PROVE  SumFunctionOnSet(f, {}) = 0
<1>1. IsFiniteSet({})
  BY FS_EmptySet
<1>2. PICK iter : Adds(f, iter, {})
  BY <1>1, AddsExists
<1>3. SumFunctionOnSet(f, {}) = iter[{}]
  BY <1>1, <1>2, SumsOfAdds
<1> QED BY <1>2, <1>3 DEF Adds

(* The first value to be added can be split off.                           *)
LEMMA SumOfPicked ==
  ASSUME NEW f, NEW S, IsFiniteSet(S), S # {}
  PROVE  SumFunctionOnSet(f, S) = f[Pick(S)] + SumFunctionOnSet(f, S \ {Pick(S)})
<1>1. PICK iter : Adds(f, iter, S)
  BY AddsExists
<1>2. SumFunctionOnSet(f, S) = iter[S]
  BY <1>1, SumsOfAdds
<1>3. SumFunctionOnSet(f, S \ {Pick(S)}) = iter[S \ {Pick(S)}]
  BY <1>1, SumsOfAdds
<1> QED BY <1>1, <1>2, <1>3 DEF Adds

(* A sum of natural numbers is one.                                        *)
LEMMA SumIsNat ==
  ASSUME NEW f, NEW S, IsFiniteSet(S), \A x \in S : f[x] \in Nat
  PROVE  SumFunctionOnSet(f, S) \in Nat
<1> DEFINE good == {T \in SUBSET S : SumFunctionOnSet(f, T) \in Nat}
<1>1. {} \in good
  BY SumOfNothing
<1>2. ASSUME NEW T \in SUBSET S, T # {}, \A e \in T : T \ {e} \in good
      PROVE  T \in good
  <2>1. Pick(T) \in T /\ IsFiniteSet(T)
    BY <1>2, PickIsIn, FS_Subset
  <2>2. SumFunctionOnSet(f, T) = f[Pick(T)] + SumFunctionOnSet(f, T \ {Pick(T)})
    BY <1>2, <2>1, SumOfPicked
  <2>3. f[Pick(T)] \in Nat /\ SumFunctionOnSet(f, T \ {Pick(T)}) \in Nat
    BY <1>2, <2>1
  <2> QED BY <2>2, <2>3
<1>3. S \in good
  <2> HIDE DEF good
  <2> QED BY <1>1, <1>2, SetInduction
<1> QED BY <1>3

(* Any value can be split off, whichever the recursion adds first.         *)
LEMMA SumOfAny ==
  ASSUME NEW f, NEW S, IsFiniteSet(S), \A x \in S : f[x] \in Nat, NEW e \in S
  PROVE  SumFunctionOnSet(f, S) = f[e] + SumFunctionOnSet(f, S \ {e})
<1> DEFINE Splits(T) == \A x \in T : SumFunctionOnSet(f, T) =
                                       f[x] + SumFunctionOnSet(f, T \ {x})
           bad == {T \in SUBSET S : ~Splits(T)}
<1>1. SUFFICES ASSUME bad # {} PROVE FALSE
  OBVIOUS
<1>2. PICK T \in bad : \A U \in SUBSET T : U # T => U \notin bad
  <2>1. bad \in SUBSET SUBSET S
    OBVIOUS
  <2> HIDE DEF bad
  <2> QED BY <1>1, <2>1, LeastSubset
<1>3. \A U \in SUBSET T : U # T => Splits(U)
  BY <1>2
<1>4. T \in SUBSET S /\ ~Splits(T)
  OBVIOUS
<1> HIDE DEF bad
<1>5. PICK x \in T : SumFunctionOnSet(f, T) # f[x] + SumFunctionOnSet(f, T \ {x})
  BY <1>4
<1> DEFINE first == Pick(T)
           rest == (T \ {x}) \ {first}
<1>6. IsFiniteSet(T) /\ first \in T
  BY <1>4, <1>5, FS_Subset, PickIsIn
<1>7. SumFunctionOnSet(f, T) = f[first] + SumFunctionOnSet(f, T \ {first})
  BY <1>5, <1>6, SumOfPicked
<1>8. first # x
  BY <1>5, <1>7
<1> HIDE DEF first
<1>9. SumFunctionOnSet(f, T \ {first}) = f[x] + SumFunctionOnSet(f, rest)
  <2>1. Splits(T \ {first})
    BY <1>3, <1>6
  <2>2. (T \ {first}) \ {x} = rest
    OBVIOUS
  <2> QED BY <1>5, <1>8, <2>1, <2>2
<1>10. SumFunctionOnSet(f, T \ {x}) = f[first] + SumFunctionOnSet(f, rest)
  <2>1. Splits(T \ {x})
    BY <1>3, <1>5
  <2> QED BY <1>6, <1>8, <2>1
<1>11. f[first] \in Nat /\ f[x] \in Nat /\ SumFunctionOnSet(f, rest) \in Nat
  <2>1. IsFiniteSet(rest) /\ rest \subseteq S
    BY <1>4, <1>6, FS_Subset
  <2> HIDE DEF rest
  <2> QED BY <1>4, <1>5, <1>6, <2>1, SumIsNat
<1> HIDE DEF rest
<1> QED BY <1>5, <1>7, <1>9, <1>10, <1>11

(* A sum depends on nothing but the values it adds.                        *)
LEMMA SumOfSame ==
  ASSUME NEW S, IsFiniteSet(S), NEW f, NEW g, \A x \in S : f[x] = g[x]
  PROVE  SumFunctionOnSet(f, S) = SumFunctionOnSet(g, S)
<1> DEFINE good == {T \in SUBSET S : SumFunctionOnSet(f, T) = SumFunctionOnSet(g, T)}
<1>1. {} \in good
  BY SumOfNothing
<1>2. ASSUME NEW T \in SUBSET S, T # {}, \A e \in T : T \ {e} \in good
      PROVE  T \in good
  <2>1. Pick(T) \in T /\ IsFiniteSet(T)
    BY <1>2, PickIsIn, FS_Subset
  <2>2. /\ SumFunctionOnSet(f, T) = f[Pick(T)] + SumFunctionOnSet(f, T \ {Pick(T)})
        /\ SumFunctionOnSet(g, T) = g[Pick(T)] + SumFunctionOnSet(g, T \ {Pick(T)})
    BY <1>2, <2>1, SumOfPicked
  <2>3. /\ f[Pick(T)] = g[Pick(T)]
        /\ SumFunctionOnSet(f, T \ {Pick(T)}) = SumFunctionOnSet(g, T \ {Pick(T)})
    BY <1>2, <2>1
  <2> QED BY <2>2, <2>3
<1>3. S \in good
  <2> HIDE DEF good
  <2> QED BY <1>1, <1>2, SetInduction
<1> QED BY <1>3

(* Adding value by value adds the sums.                                    *)
LEMMA SumOfSums ==
  ASSUME NEW S, IsFiniteSet(S), NEW f, NEW g, NEW h,
         \A x \in S : f[x] \in Nat /\ g[x] \in Nat /\ h[x] = f[x] + g[x]
  PROVE  SumFunctionOnSet(h, S) = SumFunctionOnSet(f, S) + SumFunctionOnSet(g, S)
<1> DEFINE good == {T \in SUBSET S : SumFunctionOnSet(h, T) =
                      SumFunctionOnSet(f, T) + SumFunctionOnSet(g, T)}
<1>1. {} \in good
  BY SumOfNothing
<1>2. ASSUME NEW T \in SUBSET S, T # {}, \A e \in T : T \ {e} \in good
      PROVE  T \in good
  <2> DEFINE e == Pick(T)
             rest == T \ {e}
  <2>1. e \in T /\ IsFiniteSet(T) /\ IsFiniteSet(rest) /\ rest \subseteq S
    BY <1>2, PickIsIn, FS_Subset
  <2> HIDE DEF e
  <2>2. /\ SumFunctionOnSet(f, T) = f[e] + SumFunctionOnSet(f, rest)
        /\ SumFunctionOnSet(g, T) = g[e] + SumFunctionOnSet(g, rest)
        /\ SumFunctionOnSet(h, T) = h[e] + SumFunctionOnSet(h, rest)
    BY <1>2, <2>1, SumOfPicked DEF e
  <2>3. SumFunctionOnSet(h, rest) = SumFunctionOnSet(f, rest) + SumFunctionOnSet(g, rest)
    BY <1>2, <2>1
  <2> HIDE DEF rest
  <2>4. SumFunctionOnSet(f, rest) \in Nat /\ SumFunctionOnSet(g, rest) \in Nat
    BY <2>1, SumIsNat
  <2>5. f[e] \in Nat /\ g[e] \in Nat /\ h[e] = f[e] + g[e]
    BY <1>2, <2>1
  <2> QED BY <2>2, <2>3, <2>4, <2>5
<1>3. S \in good
  <2> HIDE DEF good
  <2> QED BY <1>1, <1>2, SetInduction
<1> QED BY <1>3

(* Smaller values add up to no more.                                       *)
LEMMA SumIsMonotonic ==
  ASSUME NEW S, IsFiniteSet(S), NEW f, NEW g,
         \A x \in S : f[x] \in Nat /\ g[x] \in Nat /\ f[x] <= g[x]
  PROVE  SumFunctionOnSet(f, S) <= SumFunctionOnSet(g, S)
<1> DEFINE more == [x \in S |-> g[x] - f[x]]
<1>1. \A x \in S : f[x] \in Nat /\ more[x] \in Nat /\ g[x] = f[x] + more[x]
  OBVIOUS
<1> HIDE DEF more
<1>2. SumFunctionOnSet(g, S) = SumFunctionOnSet(f, S) + SumFunctionOnSet(more, S)
  BY <1>1, SumOfSums
<1>3. SumFunctionOnSet(f, S) \in Nat /\ SumFunctionOnSet(more, S) \in Nat
  BY <1>1, SumIsNat
<1> QED BY <1>2, <1>3

(* A value so often.                                                       *)
LEMMA SumOfConstant ==
  ASSUME NEW S, IsFiniteSet(S), NEW c \in Nat, NEW f, \A x \in S : f[x] = c
  PROVE  SumFunctionOnSet(f, S) = Cardinality(S) * c
<1> DEFINE good == {T \in SUBSET S : SumFunctionOnSet(f, T) = Cardinality(T) * c}
<1>1. {} \in good
  BY SumOfNothing, FS_EmptySet
<1>2. ASSUME NEW T \in SUBSET S, T # {}, \A e \in T : T \ {e} \in good
      PROVE  T \in good
  <2> DEFINE e == Pick(T)
             rest == T \ {e}
  <2>1. e \in T /\ IsFiniteSet(T)
    BY <1>2, PickIsIn, FS_Subset
  <2> HIDE DEF e
  <2>2. SumFunctionOnSet(f, T) = f[e] + SumFunctionOnSet(f, rest)
    BY <1>2, <2>1, SumOfPicked DEF e
  <2>3. SumFunctionOnSet(f, rest) = Cardinality(rest) * c /\ f[e] = c
    BY <1>2, <2>1
  <2>4. Cardinality(rest) = Cardinality(T) - 1 /\ Cardinality(T) \in Nat
    BY <2>1, FS_RemoveElement, FS_CardinalityType
  <2>5. (Cardinality(T) - 1) * c = Cardinality(T) * c - c
    BY <2>4
  <2>6. Cardinality(T) * c \in Nat
    BY <2>4
  <2> HIDE DEF rest
  <2> QED BY <2>2, <2>3, <2>4, <2>5, <2>6
<1>3. S \in good
  <2> HIDE DEF good
  <2> QED BY <1>1, <1>2, SetInduction
<1> QED BY <1>3

(* Values within a bound add up to no more than that bound so often.       *)
LEMMA SumIsWithin ==
  ASSUME NEW S, IsFiniteSet(S), NEW c \in Nat, NEW f,
         \A x \in S : f[x] \in Nat /\ f[x] <= c
  PROVE  SumFunctionOnSet(f, S) <= Cardinality(S) * c
<1> DEFINE most == [x \in S |-> c]
<1>1. SumFunctionOnSet(f, S) <= SumFunctionOnSet(most, S)
  BY SumIsMonotonic
<1>2. SumFunctionOnSet(most, S) = Cardinality(S) * c
  BY SumOfConstant
<1> QED BY <1>1, <1>2

(* A value that grows takes the sum along.                                 *)
LEMMA SumOfUpdated ==
  ASSUME NEW D, NEW S \in SUBSET D, IsFiniteSet(S), NEW e \in D, NEW more \in Nat,
         NEW f, NEW g,
         \A x \in S : f[x] \in Nat /\ g[x] = f[x] + (IF x = e THEN more ELSE 0)
  PROVE  SumFunctionOnSet(g, S) =
           SumFunctionOnSet(f, S) + (IF e \in S THEN more ELSE 0)
<1> DEFINE added == [x \in S |-> IF x = e THEN more ELSE 0]
<1>1. \A x \in S : f[x] \in Nat /\ added[x] \in Nat /\ g[x] = f[x] + added[x]
  OBVIOUS
<1>2. SumFunctionOnSet(g, S) = SumFunctionOnSet(f, S) + SumFunctionOnSet(added, S)
  <2> HIDE DEF added
  <2> QED BY <1>1, SumOfSums
<1>3. SumFunctionOnSet(added, S) = IF e \in S THEN more ELSE 0
  <2>1. ASSUME NEW T \in SUBSET S, e \notin T
        PROVE  SumFunctionOnSet(added, T) = 0
    <3>1. IsFiniteSet(T) /\ \A x \in T : added[x] = 0
      BY <2>1, FS_Subset
    <3>2. SumFunctionOnSet(added, T) = Cardinality(T) * 0 /\ Cardinality(T) \in Nat
      <4> HIDE DEF added
      <4> QED BY <3>1, SumOfConstant, FS_CardinalityType
    <3> QED BY <3>2
  <2>2. CASE e \in S
    <3>1. added[e] = more /\ \A x \in S : added[x] \in Nat
      BY <2>2
    <3>2. SumFunctionOnSet(added, S \ {e}) = 0
      BY <2>1
    <3> HIDE DEF added
    <3>3. SumFunctionOnSet(added, S) = added[e] + SumFunctionOnSet(added, S \ {e})
      BY <2>2, <3>1, SumOfAny
    <3> QED BY <2>2, <3>1, <3>2, <3>3
  <2>3. CASE e \notin S
    BY <2>1, <2>3
  <2> QED BY <2>2, <2>3
<1> QED BY <1>2, <1>3

(* The sum of a sequence that grows by one value.                          *)
LEMMA SumOfLonger ==
  ASSUME NEW n \in Nat, NEW f \in [1..n -> Nat], NEW g \in [1..n + 1 -> Nat],
         \A i \in 1..n : g[i] = f[i]
  PROVE  SumFunction(g) = SumFunction(f) + g[n + 1]
<1>1. IsFiniteSet(1..n + 1) /\ IsFiniteSet(1..n)
  BY FS_Interval
<1>2. n + 1 \in 1..n + 1 /\ (1..n + 1) \ {n + 1} = 1..n
  OBVIOUS
<1>3. SumFunctionOnSet(g, 1..n + 1) = g[n + 1] + SumFunctionOnSet(g, 1..n)
  BY <1>1, <1>2, SumOfAny
<1>4. SumFunctionOnSet(g, 1..n) = SumFunctionOnSet(f, 1..n)
  BY <1>1, SumOfSame
<1>5. SumFunctionOnSet(f, 1..n) \in Nat /\ g[n + 1] \in Nat
  BY <1>1, SumIsNat
<1>6. DOMAIN f = 1..n /\ DOMAIN g = 1..n + 1
  OBVIOUS
<1> QED BY <1>3, <1>4, <1>5, <1>6 DEF SumFunction
=============================================================================
