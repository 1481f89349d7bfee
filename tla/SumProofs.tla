------------------------------- MODULE SumProofs -------------------------------
(***************************************************************************)
(* Sums over finite sets, as the models use them: SumFunctionOnSet of the  *)
(* community module Functions, which adds up f over a set by a recursive   *)
(* function that takes one element away at a time.                         *)
(*                                                                         *)
(* That such a function exists and what it computes takes an induction.    *)
(* The induction theorems of the library have an operator as parameter;    *)
(* here the cases that fail are a set, and a smallest of them is picked    *)
(* from the well-founded order on Nat.                                     *)
(***************************************************************************)
EXTENDS Functions, FiniteSets, Integers, FiniteSetTheorems, WellFoundedInduction, TLAPS

\* The element the recursion takes away.
Some(s) == CHOOSE x \in s : TRUE

\* g adds up f over the sets in D, one element after the other.
AddsUp(f, D, g) ==
    g = [s \in D |-> IF s = {} THEN 0 ELSE f[Some(s)] + g[s \ {Some(s)}]]

\* The function the recursion over S defines, and sets of at most n elements.
FoldOver(f, S, g) == AddsUp(f, SUBSET S, g)
UpTo(S, n) == {s \in SUBSET S : Cardinality(s) <= n}

\* A set of numbers has a least one.
LEMMA LeastNumber ==
    ASSUME NEW S \in SUBSET Nat, S # {}
    PROVE  \E n \in S : \A m \in S : n <= m
<1>1. \E n \in S : \A m \in S : ~(<<m, n>> \in OpToRel(<, Nat))
  BY NatLessThanWellFounded, WFMin
<1>2. PICK n \in S : \A m \in S : ~(<<m, n>> \in OpToRel(<, Nat))
  BY <1>1
<1>3. \A m \in S : ~(m < n)
  BY <1>2 DEF OpToRel
<1> QED  BY <1>3

\* Induction over the subsets of a finite set: what holds of a set when it
\* holds of all its proper subsets holds of all of them.  G is the set of those
\* it holds of.
LEMMA SubsetInduction ==
    ASSUME NEW S, IsFiniteSet(S), NEW G,
           \A s \in SUBSET S : (\A t \in SUBSET s : t # s => t \in G) => s \in G
    PROVE  S \in G
<1> DEFINE Sizes == {Cardinality(s) : s \in {t \in SUBSET S : t \notin G}}
<1>1. \A s \in SUBSET S : IsFiniteSet(s) /\ Cardinality(s) \in Nat
  BY FS_Subset, FS_CardinalityType
<1> SUFFICES ASSUME S \notin G PROVE FALSE
  OBVIOUS
<1>2. PICK s \in SUBSET S :
        s \notin G /\ \A t \in SUBSET S : t \notin G => Cardinality(s) <= Cardinality(t)
  <2>1. Sizes \in SUBSET Nat /\ Sizes # {}
    BY <1>1
  <2>2. PICK n \in Sizes : \A k \in Sizes : n <= k
    <3> HIDE DEF Sizes
    <3> QED  BY <2>1, LeastNumber
  <2> QED  BY <2>2
<1>3. ASSUME NEW t \in SUBSET s, t # s PROVE t \in G
  <2>1. Cardinality(t) <= Cardinality(s) /\ Cardinality(t) # Cardinality(s)
    BY <1>1, <1>3, FS_Subset
  <2> QED  BY <1>1, <1>2, <2>1
<1> QED  BY <1>2, <1>3

\* Up to a number of elements, there is such a function.
LEMMA AddsUpTo ==
    ASSUME NEW f, NEW S, IsFiniteSet(S), NEW n \in Nat
    PROVE  \E g : AddsUp(f, UpTo(S, n), g)
<1> USE DEF UpTo
<1> DEFINE D(k) == UpTo(S, k)
           Bad == {k \in Nat : ~ \E g : AddsUp(f, D(k), g)}
<1> SUFFICES ASSUME Bad # {} PROVE FALSE
  OBVIOUS
<1>1. PICK m \in Nat : m \in Bad /\ \A k \in Bad : m <= k
  <2>1. Bad \in SUBSET Nat
    OBVIOUS
  <2> HIDE DEF Bad
  <2> QED  BY <2>1, LeastNumber
<1>2. \A s \in SUBSET S : Cardinality(s) \in Nat
  BY FS_Subset, FS_CardinalityType
<1>3. \A s \in SUBSET S : s # {} =>
        Some(s) \in s /\ Cardinality(s \ {Some(s)}) = Cardinality(s) - 1
  <2> SUFFICES ASSUME NEW s \in SUBSET S, s # {}
               PROVE Some(s) \in s /\ Cardinality(s \ {Some(s)}) = Cardinality(s) - 1
    OBVIOUS
  <2>1. IsFiniteSet(s)
    BY FS_Subset
  <2>2. Some(s) \in s
    BY DEF Some
  <2> QED  BY <2>1, <2>2, FS_RemoveElement
<1>4. CASE m = 0
  <2>1. \A s : s \in D(0) <=> s = {}
    <3>1. Cardinality({}) = 0
      BY FS_EmptySet
    <3>2. ASSUME NEW s \in SUBSET S, Cardinality(s) = 0 PROVE s = {}
      BY <3>2, FS_Subset, FS_EmptySet
    <3>3. {} \in D(0)
        BY <3>1
    <3>4. ASSUME NEW s \in D(0) PROVE s = {}
        BY <1>2, <3>2
    <3> QED  BY <3>3, <3>4
  <2>2. AddsUp(f, D(0), [s \in D(0) |-> 0])
    BY <2>1 DEF AddsUp
  <2> QED  BY <1>1, <1>4, <2>2
<1>5. CASE m # 0
  <2>1. m - 1 \in Nat /\ m - 1 \notin Bad
    <3>1. m - 1 \in Nat /\ ~(m <= m - 1)
      BY <1>5
    <3> HIDE DEF Bad
    <3> QED  BY <1>1, <3>1
  <2>2. PICK g : AddsUp(f, D(m - 1), g)
    BY <2>1
  <2> DEFINE h == [s \in D(m) |-> IF s = {} THEN 0 ELSE f[Some(s)] + g[s \ {Some(s)}]]
  <2>3. \A s \in D(m) : s # {} => s \ {Some(s)} \in D(m - 1) /\ s \ {Some(s)} \in D(m)
    <3>1. ASSUME NEW s \in D(m), s # {}
          PROVE  s \ {Some(s)} \in D(m - 1) /\ s \ {Some(s)} \in D(m)
      <4>1. Cardinality(s) \in Nat /\ Cardinality(s) <= m
        BY <1>2
      <4>2. Cardinality(s \ {Some(s)}) = Cardinality(s) - 1
        BY <1>3, <3>1
      <4> QED  BY <4>1, <4>2
    <3> QED  BY <3>1
  <2>4. \A s \in D(m - 1) : h[s] = g[s]
    <3>1. \A s \in D(m - 1) : s \in D(m)
      <4> SUFFICES ASSUME NEW s \in D(m - 1) PROVE s \in D(m)
        OBVIOUS
      <4>1. Cardinality(s) \in Nat /\ Cardinality(s) <= m - 1
        BY <1>2
      <4> QED  BY <4>1
    <3>2. \A s \in D(m - 1) : g[s] = IF s = {} THEN 0 ELSE f[Some(s)] + g[s \ {Some(s)}]
      BY <2>2 DEF AddsUp
    <3> QED  BY <3>1, <3>2
  <2>5. \A s \in D(m) : h[s] = IF s = {} THEN 0 ELSE f[Some(s)] + h[s \ {Some(s)}]
    BY <2>3, <2>4
  <2>6. AddsUp(f, D(m), h)
    <3> HIDE DEF D
    <3>1. h = [s \in D(m) |-> h[s]]
      OBVIOUS
    <3>2. h = [s \in D(m) |-> IF s = {} THEN 0 ELSE f[Some(s)] + h[s \ {Some(s)}]]
      <4> HIDE DEF h
      <4> QED  BY <3>1, <2>5
    <3> QED  BY <3>2 DEF AddsUp
  <2> QED  BY <1>1, <2>6
<1> QED  BY <1>4, <1>5

\* The recursive function of the fold is there.
LEMMA AddsUpExists ==
    ASSUME NEW f, NEW S, IsFiniteSet(S)
    PROVE  \E g : FoldOver(f, S, g)
<1>1. Cardinality(S) \in Nat
  BY FS_CardinalityType
<1>2. \A s \in SUBSET S : Cardinality(s) <= Cardinality(S)
  BY FS_Subset
<1>3. UpTo(S, Cardinality(S)) = SUBSET S
  BY <1>2 DEF UpTo
<1>4. \E g : AddsUp(f, UpTo(S, Cardinality(S)), g)
  BY <1>1, AddsUpTo
<1> QED  BY <1>3, <1>4 DEF FoldOver

\* And on a smaller domain it is the same.
LEMMA AddsUpUnique ==
    ASSUME NEW f, NEW S, NEW T \in SUBSET S, IsFiniteSet(T),
           NEW g, FoldOver(f, S, g), NEW h, FoldOver(f, T, h)
    PROVE  g[T] = h[T]
<1> DEFINE G == {s \in SUBSET T : g[s] = h[s]}
<1>1. ASSUME NEW s \in SUBSET T, \A t \in SUBSET s : t # s => t \in G
      PROVE  s \in G
  <2>1. /\ g[s] = IF s = {} THEN 0 ELSE f[Some(s)] + g[s \ {Some(s)}]
        /\ h[s] = IF s = {} THEN 0 ELSE f[Some(s)] + h[s \ {Some(s)}]
    BY DEF FoldOver, AddsUp
  <2>2. s # {} => Some(s) \in s
    BY DEF Some
  <2>3. s # {} => s \ {Some(s)} \in G
    BY <1>1, <2>2
  <2> QED  BY <2>1, <2>3
<1> HIDE DEF G
<1>2. T \in G
  BY <1>1, SubsetInduction
<1> QED  BY <1>2 DEF G

\* What SumFunctionOnSet computes.
LEMMA SumStep ==
    ASSUME NEW f, NEW S, IsFiniteSet(S)
    PROVE  SumFunctionOnSet(f, S) =
              IF S = {} THEN 0 ELSE f[Some(S)] + SumFunctionOnSet(f, S \ {Some(S)})
<1> DEFINE G(T) == CHOOSE g : FoldOver(f, T, g)
<1>1. \A T : SumFunctionOnSet(f, T) = G(T)[T]
  BY DEF SumFunctionOnSet, FoldFunctionOnSet, MapThenFoldSet, FoldOver, AddsUp, Some
<1>2. FoldOver(f, S, G(S))
  BY AddsUpExists
<1> DEFINE R == S \ {Some(S)}
<1>3. IsFiniteSet(R) /\ R \in SUBSET S
  BY FS_RemoveElement
<1>4. FoldOver(f, R, G(R))
  BY <1>3, AddsUpExists
<1> HIDE DEF G
<1>5. G(S)[S] = IF S = {} THEN 0 ELSE f[Some(S)] + G(S)[R]
  BY <1>2 DEF FoldOver, AddsUp
<1>6. G(S)[R] = G(R)[R]
  <2> HIDE DEF R
  <2>1. \A g, h : FoldOver(f, S, g) /\ FoldOver(f, R, h) => g[R] = h[R]
    BY <1>3, AddsUpUnique
  <2> QED  BY <1>2, <1>4, <2>1
<1> QED  BY <1>1, <1>5, <1>6

\* The sum over no elements.
LEMMA SumOfNone ==
    ASSUME NEW f
    PROVE  SumFunctionOnSet(f, {}) = 0
BY FS_EmptySet, SumStep

\* Only the values on the set matter.
LEMMA SumSame ==
    ASSUME NEW S, IsFiniteSet(S), NEW f, NEW g, \A x \in S : f[x] = g[x]
    PROVE  SumFunctionOnSet(f, S) = SumFunctionOnSet(g, S)
<1> DEFINE G == {s \in SUBSET S : SumFunctionOnSet(f, s) = SumFunctionOnSet(g, s)}
<1>1. ASSUME NEW s \in SUBSET S, \A t \in SUBSET s : t # s => t \in G
      PROVE  s \in G
  <2>1. IsFiniteSet(s)
    BY FS_Subset
  <2> DEFINE r == s \ {Some(s)}
  <2>2. /\ SumFunctionOnSet(f, s) = IF s = {} THEN 0 ELSE f[Some(s)] + SumFunctionOnSet(f, r)
        /\ SumFunctionOnSet(g, s) = IF s = {} THEN 0 ELSE g[Some(s)] + SumFunctionOnSet(g, r)
    BY <2>1, SumStep
  <2>3. s # {} => Some(s) \in s
    BY DEF Some
  <2>4. s # {} => r \in G
    BY <1>1, <2>3
  <2> QED  BY <2>2, <2>3, <2>4
<1> HIDE DEF G
<1>2. S \in G
  BY <1>1, SubsetInduction
<1> QED  BY <1>2 DEF G

\* Amounts add up to an amount.
LEMMA SumNat ==
    ASSUME NEW S, IsFiniteSet(S), NEW f, \A x \in S : f[x] \in Nat
    PROVE  SumFunctionOnSet(f, S) \in Nat
<1> DEFINE G == {s \in SUBSET S : SumFunctionOnSet(f, s) \in Nat}
<1>1. ASSUME NEW s \in SUBSET S, \A t \in SUBSET s : t # s => t \in G
      PROVE  s \in G
  <2>1. IsFiniteSet(s)
    BY FS_Subset
  <2> DEFINE r == s \ {Some(s)}
  <2>2. SumFunctionOnSet(f, s) = IF s = {} THEN 0 ELSE f[Some(s)] + SumFunctionOnSet(f, r)
    BY <2>1, SumStep
  <2>3. s # {} => Some(s) \in s
    BY DEF Some
  <2>4. s # {} => r \in G
    BY <1>1, <2>3
  <2> QED  BY <2>2, <2>3, <2>4
<1> HIDE DEF G
<1>2. S \in G
  BY <1>1, SubsetInduction
<1> QED  BY <1>2 DEF G

\* Any element may be counted first.
LEMMA SumRemove ==
    ASSUME NEW S, IsFiniteSet(S), NEW f, \A x \in S : f[x] \in Nat, NEW x \in S
    PROVE  SumFunctionOnSet(f, S) = f[x] + SumFunctionOnSet(f, S \ {x})
<1> DEFINE Sum(s) == SumFunctionOnSet(f, s)
           G == {s \in SUBSET S : \A y \in s : Sum(s) = f[y] + Sum(s \ {y})}
<1>1. ASSUME NEW s \in SUBSET S, \A t \in SUBSET s : t # s => t \in G
      PROVE  s \in G
  <2> SUFFICES ASSUME NEW y \in s PROVE Sum(s) = f[y] + Sum(s \ {y})
    OBVIOUS
  <2>1. \A t \in SUBSET S : IsFiniteSet(t) /\ Sum(t) \in Nat
    BY FS_Subset, SumNat
  <2> DEFINE c == Some(s)
  <2>2. c \in s
    BY DEF Some
  <2>3. Sum(s) = f[c] + Sum(s \ {c})
    BY <2>1, SumStep
  <2> HIDE DEF c, Sum
  <2>4. CASE y = c
    BY <2>3, <2>4
  <2>5. CASE y # c
    <3>1. /\ s \ {c} \in G /\ y \in s \ {c}
          /\ s \ {y} \in G /\ c \in s \ {y}
      BY <1>1, <2>2, <2>5
    <3>2. /\ Sum(s \ {c}) = f[y] + Sum((s \ {c}) \ {y})
          /\ Sum(s \ {y}) = f[c] + Sum((s \ {y}) \ {c})
      BY <3>1
    <3>3. (s \ {c}) \ {y} = (s \ {y}) \ {c}
      OBVIOUS
    <3>4. Sum((s \ {c}) \ {y}) \in Nat /\ f[y] \in Nat /\ f[c] \in Nat
      BY <2>1, <2>2
    <3> QED  BY <2>3, <3>2, <3>3, <3>4
  <2> QED  BY <2>4, <2>5
<1> HIDE DEF G
<1>2. S \in G
  BY <1>1, SubsetInduction
<1> QED  BY <1>2 DEF G

\* One element more adds its value.
LEMMA SumAdd ==
    ASSUME NEW S, IsFiniteSet(S), NEW x, x \notin S,
           NEW f, \A y \in S \cup {x} : f[y] \in Nat
    PROVE  SumFunctionOnSet(f, S \cup {x}) = f[x] + SumFunctionOnSet(f, S)
<1>1. IsFiniteSet(S \cup {x}) /\ (S \cup {x}) \ {x} = S
  BY FS_AddElement
<1>2. SumFunctionOnSet(f, S \cup {x}) = f[x] + SumFunctionOnSet(f, (S \cup {x}) \ {x})
  BY <1>1, SumRemove
<1> QED  BY <1>1, <1>2

\* Fewer elements add up to no more.
LEMMA SumSubset ==
    ASSUME NEW S, IsFiniteSet(S), NEW f, \A x \in S : f[x] \in Nat,
           NEW T \in SUBSET S
    PROVE  SumFunctionOnSet(f, T) <= SumFunctionOnSet(f, S)
<1> DEFINE Sum(s) == SumFunctionOnSet(f, s)
           G == {s \in SUBSET S : \A t \in SUBSET s : Sum(t) <= Sum(s)}
<1>1. ASSUME NEW s \in SUBSET S, \A t \in SUBSET s : t # s => t \in G
      PROVE  s \in G
  <2> SUFFICES ASSUME NEW t \in SUBSET s, t # s PROVE Sum(t) <= Sum(s)
    <3>1. \A t \in SUBSET S : Sum(t) \in Nat
      BY FS_Subset, SumNat
    <3> QED  BY <3>1
  <2>1. \A u \in SUBSET S : IsFiniteSet(u) /\ Sum(u) \in Nat
    BY FS_Subset, SumNat
  <2>2. PICK y \in s : y \notin t
    OBVIOUS
  <2>3. Sum(s) = f[y] + Sum(s \ {y})
    BY <2>1, SumRemove
  <2> HIDE DEF Sum
  <2>4. Sum(t) <= Sum(s \ {y})
    BY <1>1, <2>2
  <2> QED  BY <2>1, <2>3, <2>4
<1> HIDE DEF G
<1>2. S \in G
  BY <1>1, SubsetInduction
<1> QED  BY <1>2 DEF G

\* Values of b at most add up to b for each element at most.
LEMMA SumBounded ==
    ASSUME NEW S, IsFiniteSet(S), NEW b \in Nat,
           NEW f, \A x \in S : f[x] \in 0..b
    PROVE  SumFunctionOnSet(f, S) <= b * Cardinality(S)
<1> DEFINE Sum(s) == SumFunctionOnSet(f, s)
           G == {s \in SUBSET S : Sum(s) <= b * Cardinality(s)}
<1>1. ASSUME NEW s \in SUBSET S, \A t \in SUBSET s : t # s => t \in G
      PROVE  s \in G
  <2>1. \A t \in SUBSET S : IsFiniteSet(t) /\ Sum(t) \in Nat /\ Cardinality(t) \in Nat
    BY FS_Subset, SumNat, FS_CardinalityType
  <2>2. CASE s = {}
    BY <2>2, SumOfNone, FS_EmptySet
  <2>3. CASE s # {}
    <3>1. PICK y \in s : TRUE
      BY <2>3
    <3>2. Sum(s) = f[y] + Sum(s \ {y})
      BY <2>1, SumRemove
    <3>3. Cardinality(s \ {y}) = Cardinality(s) - 1
      BY <2>1, FS_RemoveElement
    <3> HIDE DEF Sum
    <3>4. Sum(s \ {y}) <= b * Cardinality(s \ {y})
      BY <1>1
    <3>5. f[y] \in 0..b
      OBVIOUS
    <3>6. b * (Cardinality(s) - 1) = b * Cardinality(s) - b
      BY <2>1
    <3>7. b * Cardinality(s) \in Nat
      BY <2>1
    <3> QED  BY <2>1, <3>2, <3>3, <3>4, <3>5, <3>6, <3>7
  <2> QED  BY <2>2, <2>3
<1> HIDE DEF G
<1>2. S \in G
  BY <1>1, SubsetInduction
<1> QED  BY <1>2 DEF G
================================================================================
