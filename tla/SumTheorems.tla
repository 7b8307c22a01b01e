------------------------------ MODULE SumTheorems ------------------------------
(***************************************************************************)
(* Facts about SumFunctionOnSet of the community modules: the sum of the    *)
(* values of a function over a finite set does not depend on the order in   *)
(* which the elements are taken, and grows with the set.                    *)
(*                                                                          *)
(* The library's induction over finite sets has an operator for parameter.  *)
(* Its order of subsets has not: of the subsets for which a statement fails *)
(* one is the smallest (SmallestSubset), and there the statement is shown   *)
(* to hold all the same.                                                    *)
(***************************************************************************)
EXTENDS Naturals, Functions, FiniteSetTheorems, TLAPS

\* The element that the sum takes first.
First(s) == CHOOSE x \in s : TRUE

\* g is the function the sum over S recurses with.
Unfolds(g, fun, S) ==
  g = [s \in SUBSET S |->
         IF s = {} THEN 0 ELSE fun[First(s)] + g[s \ {First(s)}]]

LEMMA FirstIsMember ==
  ASSUME NEW s, s # {}
  PROVE  First(s) \in s
BY DEF First

LEMMA SumIsUnfolding ==
  ASSUME NEW fun, NEW S
  PROVE  SumFunctionOnSet(fun, S) = (CHOOSE g : Unfolds(g, fun, S))[S]
BY DEF SumFunctionOnSet, FoldFunctionOnSet, MapThenFoldSet, Unfolds, First

-----------------------------------------------------------------------------
(* Induction over the subsets of a finite set *)

LEMMA SmallestSubset ==
  ASSUME NEW S, IsFiniteSet(S), NEW T, T \subseteq SUBSET S, T # {}
  PROVE  \E x \in T : \A y \in T : y \subseteq x => y = x
<1>1. IsWellFoundedOn(StrictSubsetOrdering(S), SUBSET S)
  BY FS_StrictSubsetOrderingWellFounded, FS_FiniteSubsetsOfFinite
<1>2. PICK x \in T : \A y \in T : ~(<<y, x>> \in StrictSubsetOrdering(S))
  BY <1>1, WFMin
<1>3. ASSUME NEW y \in T, y \subseteq x, y # x
      PROVE  FALSE
  <2>1. <<y, x>> \in (SUBSET S) \X (SUBSET S)
    OBVIOUS
  <2>2. <<y, x>> \in StrictSubsetOrdering(S)
    BY <1>3, <2>1 DEF StrictSubsetOrdering
  <2> QED BY <1>2, <2>2
<1> QED BY <1>3

-----------------------------------------------------------------------------
(* The recursion *)

\* Two functions that unfold the same values agree where both are defined.
LEMMA UnfoldingsAgree ==
  ASSUME NEW S, NEW T, IsFiniteSet(T), T \subseteq S,
         NEW fun, NEW other, \A x \in T : fun[x] = other[x],
         NEW g, NEW h, Unfolds(g, fun, S), Unfolds(h, other, T)
  PROVE  \A s \in SUBSET T : g[s] = h[s]
<1> DEFINE Bad == {s \in SUBSET T : g[s] # h[s]}
<1> SUFFICES ASSUME Bad # {} PROVE FALSE
  OBVIOUS
<1>1. PICK s \in Bad : \A t \in Bad : t \subseteq s => t = s
  <2>1. Bad \subseteq SUBSET T
    OBVIOUS
  <2> HIDE DEF Bad
  <2> QED BY <2>1, SmallestSubset
<1>2. s \in SUBSET T /\ s \in SUBSET S /\ g[s] # h[s]
  BY <1>1
<1> HIDE DEF Bad
<1>3. /\ g[s] = IF s = {} THEN 0 ELSE fun[First(s)] + g[s \ {First(s)}]
      /\ h[s] = IF s = {} THEN 0 ELSE other[First(s)] + h[s \ {First(s)}]
  BY <1>2 DEF Unfolds
<1>4. s # {}
  BY <1>2, <1>3
<1>5. First(s) \in s
  BY <1>4, FirstIsMember
<1>6. s \ {First(s)} \in SUBSET T /\ s \ {First(s)} # s /\ s \ {First(s)} \subseteq s
  BY <1>2, <1>5
<1>7. s \ {First(s)} \notin Bad
  BY <1>1, <1>6
<1>8. g[s \ {First(s)}] = h[s \ {First(s)}]
  BY <1>6, <1>7 DEF Bad
<1>9. fun[First(s)] = other[First(s)]
  BY <1>2, <1>5
<1> QED BY <1>2, <1>3, <1>8, <1>9

\* A function that unfolds gives the sum.
LEMMA UnfoldingIsSum ==
  ASSUME NEW S, IsFiniteSet(S), NEW fun, NEW g, Unfolds(g, fun, S)
  PROVE  /\ SumFunctionOnSet(fun, S) = g[S]
         /\ SumFunctionOnSet(fun, S) =
              IF S = {} THEN 0 ELSE fun[First(S)] + g[S \ {First(S)}]
<1> DEFINE h == CHOOSE k : Unfolds(k, fun, S)
<1>1. Unfolds(h, fun, S)
  OBVIOUS
<1>2. SumFunctionOnSet(fun, S) = h[S]
  BY SumIsUnfolding
<1> HIDE DEF h
<1>3. h[S] = g[S]
  BY <1>1, UnfoldingsAgree
<1>4. g[S] = IF S = {} THEN 0 ELSE fun[First(S)] + g[S \ {First(S)}]
  BY DEF Unfolds
<1> QED BY <1>2, <1>3, <1>4

\* There is such a function for every finite set.
LEMMA UnfoldingExists ==
  ASSUME NEW S, IsFiniteSet(S), NEW fun
  PROVE  \E g : Unfolds(g, fun, S)
<1> DEFINE Bad == {s \in SUBSET S : ~\E g : Unfolds(g, fun, s)}
<1> SUFFICES ASSUME Bad # {} PROVE FALSE
  OBVIOUS
<1>1. PICK t \in Bad : \A s \in Bad : s \subseteq t => s = t
  <2>1. Bad \subseteq SUBSET S
    OBVIOUS
  <2> HIDE DEF Bad
  <2> QED BY <2>1, SmallestSubset
<1>2. t \in SUBSET S /\ ~\E g : Unfolds(g, fun, t)
  BY <1>1
<1>3. ASSUME NEW s \in SUBSET t, s # t
      PROVE  IsFiniteSet(s) /\ \E g : Unfolds(g, fun, s)
  BY <1>1, <1>2, <1>3, FS_Subset
<1> HIDE DEF Bad
<1> DEFINE Below(s) == SumFunctionOnSet(fun, s \ {First(s)})
<1> DEFINE g == [s \in SUBSET t |-> IF s = {} THEN 0 ELSE fun[First(s)] + Below(s)]
<1>4. ASSUME NEW s \in SUBSET t, s # {}
      PROVE  g[s \ {First(s)}] = Below(s)
  <2> DEFINE u == s \ {First(s)}
  <2>1. First(s) \in s
    BY <1>4, FirstIsMember
  <2>2. u \in SUBSET t /\ u # t
    BY <2>1
  <2>3. PICK k : Unfolds(k, fun, u)
    BY <1>3, <2>2
  <2>4. SumFunctionOnSet(fun, u) =
          IF u = {} THEN 0 ELSE fun[First(u)] + k[u \ {First(u)}]
    BY <1>3, <2>2, <2>3, UnfoldingIsSum
  <2>5. g[u] = IF u = {} THEN 0 ELSE fun[First(u)] + Below(u)
    BY <2>2
  <2>6. ASSUME u # {}
        PROVE  k[u \ {First(u)}] = Below(u)
    <3> DEFINE v == u \ {First(u)}
    <3>1. v \in SUBSET u /\ v \in SUBSET t /\ v # t
      BY <2>2
    <3>2. PICK l : Unfolds(l, fun, v)
      BY <1>3, <3>1
    <3>3. IsFiniteSet(v)
      BY <1>3, <3>1
    <3>4. SumFunctionOnSet(fun, v) = l[v]
      BY <3>2, <3>3, UnfoldingIsSum
    <3> HIDE DEF u, v
    <3>5. k[v] = l[v]
      BY <2>3, <3>1, <3>2, <3>3, UnfoldingsAgree
    <3> QED BY <3>4, <3>5 DEF v
  <2> HIDE DEF g, Below
  <2>7. g[u] = SumFunctionOnSet(fun, u)
    BY <2>4, <2>5, <2>6
  <2> QED BY <2>7 DEF Below
<1>5. Unfolds(g, fun, t)
  <2>1. \A s \in SUBSET t :
          (IF s = {} THEN 0 ELSE fun[First(s)] + Below(s)) =
          (IF s = {} THEN 0 ELSE fun[First(s)] + g[s \ {First(s)}])
    <3> HIDE DEF g, Below
    <3> QED BY <1>4
  <2>2. g = [s \in SUBSET t |->
               IF s = {} THEN 0 ELSE fun[First(s)] + g[s \ {First(s)}]]
    <3>1. g = [s \in SUBSET t |-> IF s = {} THEN 0 ELSE fun[First(s)] + Below(s)]
      OBVIOUS
    <3> HIDE DEF g, Below
    <3> QED BY <2>1, <3>1
  <2> HIDE DEF g
  <2> QED BY <2>2 DEF Unfolds
<1> HIDE DEF g
<1> QED BY <1>2, <1>5

LEMMA SumStep ==
  ASSUME NEW S, IsFiniteSet(S), NEW fun, S # {}
  PROVE  SumFunctionOnSet(fun, S) =
           fun[First(S)] + SumFunctionOnSet(fun, S \ {First(S)})
<1> DEFINE T == S \ {First(S)}
<1>1. T \subseteq S /\ IsFiniteSet(T)
  BY FS_Subset
<1>2. PICK g : Unfolds(g, fun, S)
  BY UnfoldingExists
<1>3. PICK h : Unfolds(h, fun, T)
  BY <1>1, UnfoldingExists
<1>4. SumFunctionOnSet(fun, S) = fun[First(S)] + g[T]
  BY <1>2, UnfoldingIsSum
<1>5. SumFunctionOnSet(fun, T) = h[T]
  BY <1>1, <1>3, UnfoldingIsSum
<1> HIDE DEF T
<1>6. g[T] = h[T]
  BY <1>1, <1>2, <1>3, UnfoldingsAgree
<1> QED BY <1>4, <1>5, <1>6 DEF T

-----------------------------------------------------------------------------
(* What a reader of a sum needs *)

\* Nothing sums to nothing.
THEOREM SumOfNone ==
  ASSUME NEW fun
  PROVE  SumFunctionOnSet(fun, {}) = 0
<1>1. PICK g : Unfolds(g, fun, {})
  BY FS_EmptySet, UnfoldingExists
<1> QED BY <1>1, FS_EmptySet, UnfoldingIsSum

\* Only the values on the set matter.
THEOREM SumOfSame ==
  ASSUME NEW S, IsFiniteSet(S), NEW fun, NEW other,
         \A x \in S : fun[x] = other[x]
  PROVE  SumFunctionOnSet(fun, S) = SumFunctionOnSet(other, S)
<1>1. PICK g : Unfolds(g, fun, S)
  BY UnfoldingExists
<1>2. PICK h : Unfolds(h, other, S)
  BY UnfoldingExists
<1>3. g[S] = h[S]
  BY <1>1, <1>2, UnfoldingsAgree
<1> QED BY <1>1, <1>2, <1>3, UnfoldingIsSum

\* Natural numbers have a natural number for a sum.
THEOREM SumIsNat ==
  ASSUME NEW S, IsFiniteSet(S), NEW fun, \A x \in S : fun[x] \in Nat
  PROVE  SumFunctionOnSet(fun, S) \in Nat
<1> DEFINE Bad == {s \in SUBSET S : SumFunctionOnSet(fun, s) \notin Nat}
<1> SUFFICES ASSUME Bad # {} PROVE FALSE
  OBVIOUS
<1>1. PICK s \in Bad : \A t \in Bad : t \subseteq s => t = s
  <2>1. Bad \subseteq SUBSET S
    OBVIOUS
  <2> HIDE DEF Bad
  <2> QED BY <2>1, SmallestSubset
<1>2. s \in SUBSET S /\ SumFunctionOnSet(fun, s) \notin Nat
  BY <1>1
<1>3. s # {}
  BY <1>2, SumOfNone
<1>4. First(s) \in s
  BY <1>3, FirstIsMember
<1>5. s \ {First(s)} \in SUBSET S /\ s \ {First(s)} \notin Bad
  BY <1>1, <1>2, <1>4
<1>6. SumFunctionOnSet(fun, s \ {First(s)}) \in Nat
  BY <1>5
<1>7. IsFiniteSet(s)
  BY <1>2, FS_Subset
<1>8. SumFunctionOnSet(fun, s) =
        fun[First(s)] + SumFunctionOnSet(fun, s \ {First(s)})
  BY <1>3, <1>7, SumStep
<1> QED BY <1>2, <1>4, <1>6, <1>8

\* Any element may be taken out first.
THEOREM SumWithout ==
  ASSUME NEW S, IsFiniteSet(S), NEW fun, \A x \in S : fun[x] \in Nat,
         NEW y \in S
  PROVE  SumFunctionOnSet(fun, S) = fun[y] + SumFunctionOnSet(fun, S \ {y})
<1> DEFINE Sum(s) == SumFunctionOnSet(fun, s)
<1> DEFINE Bad == {s \in SUBSET S : \E x \in s : Sum(s) # fun[x] + Sum(s \ {x})}
<1> SUFFICES ASSUME Bad # {} PROVE FALSE
  OBVIOUS
<1>1. PICK s \in Bad : \A t \in Bad : t \subseteq s => t = s
  <2>1. Bad \subseteq SUBSET S
    OBVIOUS
  <2> HIDE DEF Bad
  <2> QED BY <2>1, SmallestSubset
<1>2. s \in SUBSET S
  BY <1>1
<1>3. PICK x \in s : Sum(s) # fun[x] + Sum(s \ {x})
  BY <1>1
<1> DEFINE z == First(s)
<1>4. z \in s
  BY <1>3, FirstIsMember
<1>5. \A t \in SUBSET S : IsFiniteSet(t) /\ Sum(t) \in Nat
  BY FS_Subset, SumIsNat
<1>6. Sum(s) = fun[z] + Sum(s \ {z})
  BY <1>2, <1>4, <1>5, SumStep
<1>7. x # z
  BY <1>3, <1>6
<1>8. s \ {z} \notin Bad /\ s \ {x} \notin Bad
  BY <1>1, <1>4
<1> HIDE DEF z
<1>9. Sum(s \ {z}) = fun[x] + Sum((s \ {z}) \ {x})
  BY <1>2, <1>7, <1>8
<1>10. Sum(s \ {x}) = fun[z] + Sum((s \ {x}) \ {z})
  BY <1>2, <1>4, <1>7, <1>8
<1>11. (s \ {z}) \ {x} = (s \ {x}) \ {z}
  OBVIOUS
<1>12. fun[x] \in Nat /\ fun[z] \in Nat /\ Sum((s \ {z}) \ {x}) \in Nat
  BY <1>2, <1>4, <1>5
<1> HIDE DEF Sum
<1> QED BY <1>3, <1>6, <1>9, <1>10, <1>11, <1>12

\* A new element adds its value.
THEOREM SumWith ==
  ASSUME NEW S, IsFiniteSet(S), NEW fun, \A x \in S : fun[x] \in Nat,
         NEW y, y \notin S, fun[y] \in Nat
  PROVE  SumFunctionOnSet(fun, S \cup {y}) = SumFunctionOnSet(fun, S) + fun[y]
<1>1. IsFiniteSet(S \cup {y}) /\ (S \cup {y}) \ {y} = S
  BY FS_AddElement
<1>2. SumFunctionOnSet(fun, S \cup {y}) = fun[y] + SumFunctionOnSet(fun, S)
  BY <1>1, SumWithout
<1>3. SumFunctionOnSet(fun, S) \in Nat
  BY SumIsNat
<1> QED BY <1>2, <1>3

\* A part sums to no more than the whole.
THEOREM SumOfPart ==
  ASSUME NEW S, IsFiniteSet(S), NEW fun, \A x \in S : fun[x] \in Nat,
         NEW T \in SUBSET S
  PROVE  SumFunctionOnSet(fun, T) <= SumFunctionOnSet(fun, S)
<1> DEFINE Sum(s) == SumFunctionOnSet(fun, s)
<1> DEFINE Bad == {s \in SUBSET S : T \subseteq s /\ ~(Sum(T) <= Sum(s))}
<1> SUFFICES ASSUME Bad # {} PROVE FALSE
  OBVIOUS
<1>1. PICK s \in Bad : \A t \in Bad : t \subseteq s => t = s
  <2>1. Bad \subseteq SUBSET S
    OBVIOUS
  <2> HIDE DEF Bad
  <2> QED BY <2>1, SmallestSubset
<1>2. s \in SUBSET S /\ T \subseteq s /\ ~(Sum(T) <= Sum(s))
  BY <1>1
<1>3. \A t \in SUBSET S : IsFiniteSet(t) /\ Sum(t) \in Nat
  BY FS_Subset, SumIsNat
<1>4. PICK x \in s : x \notin T
  BY <1>2, <1>3
<1>5. s \ {x} \notin Bad
  BY <1>1
<1>6. Sum(T) <= Sum(s \ {x})
  BY <1>2, <1>4, <1>5
<1>7. Sum(s) = fun[x] + Sum(s \ {x})
  BY <1>2, <1>3, SumWithout
<1>8. fun[x] \in Nat /\ Sum(s \ {x}) \in Nat /\ Sum(T) \in Nat
  BY <1>2, <1>3
<1> HIDE DEF Sum
<1> QED BY <1>2, <1>6, <1>7, <1>8
=============================================================================
