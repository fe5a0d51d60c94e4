-------------------------- MODULE CollectionsProofs --------------------------
(***************************************************************************)
(* What the other proofs need of sums, of lists and of induction.          *)
(*                                                                         *)
(* The induction theorems of the library have a predicate for a parameter, *)
(* which the provers cannot instantiate.  Here induction is stated with a  *)
(* set in its place: a set that has zero, and with every number the next,  *)
(* has all the numbers.  It follows from every nonempty set of numbers     *)
(* having a least one, which the library states about sets.                *)
(***************************************************************************)
EXTENDS Collections, FiniteSetTheorems, SequenceTheorems, WellFoundedInduction, TLAPS

LEMMA NatSetInduction ==
    ASSUME NEW N, 0 \in N, \A n \in Nat : n \in N => n + 1 \in N
    PROVE  \A n \in Nat : n \in N
<1> DEFINE Less == OpToRel(<, Nat)
           Missing == Nat \ N
<1>1. IsWellFoundedOn(Less, Nat)
    BY NatLessThanWellFounded
<1>2. \A m, n \in Nat : m < n => <<m, n>> \in Less
    BY DEF OpToRel
<1> HIDE DEF Less
<1>3. SUFFICES ASSUME Missing # {} PROVE FALSE
    OBVIOUS
<1>4. PICK n \in Missing : \A m \in Missing : <<m, n>> \notin Less
    BY <1>1, <1>3, WFMin
<1>5. n \in Nat /\ n - 1 \in Nat /\ n - 1 < n
    OBVIOUS
<1>6. n - 1 \in N
    BY <1>2, <1>4, <1>5
<1>7. (n - 1) + 1 \in N
    BY <1>5, <1>6
<1> QED
    BY <1>5, <1>7

\* A set of sets that has the empty one, and grows by one element at a time
\* inside S, has S.
LEMMA FiniteSetInduction ==
    ASSUME NEW S, IsFiniteSet(S), NEW Good, {} \in Good,
           \A T \in SUBSET S : \A x \in S \ T : T \in Good => T \cup {x} \in Good
    PROVE  S \in Good
<1> DEFINE N == {n \in Nat : \A T \in SUBSET S : Cardinality(T) = n => T \in Good}
<1>1. \A T \in SUBSET S : IsFiniteSet(T) /\ Cardinality(T) \in Nat
    BY FS_Subset, FS_CardinalityType
<1>2. 0 \in N
    BY <1>1, FS_EmptySet
<1>3. ASSUME NEW n \in Nat, n \in N
      PROVE  n + 1 \in N
  <2>1. ASSUME NEW T \in SUBSET S, Cardinality(T) = n + 1
        PROVE  T \in Good
    <3>1. Cardinality(T) # 0
        BY <2>1
    <3>2. PICK x \in T : TRUE
        BY <3>1, FS_EmptySet
    <3>3. Cardinality(T \ {x}) = Cardinality(T) - 1
        BY <1>1, FS_RemoveElement
    <3>4. T \ {x} \in Good
        BY <1>3, <2>1, <3>3
    <3>5. (T \ {x}) \cup {x} = T
        OBVIOUS
    <3> QED
        BY <3>4, <3>5
  <2> QED
      BY <2>1
<1> HIDE DEF N
<1>4. \A n \in Nat : n \in N
    BY <1>2, <1>3, NatSetInduction
<1> QED
    BY <1>1, <1>4 DEF N

-----------------------------------------------------------------------------
(* The recursion behind the sum. *)

First(s) == CHOOSE x \in s : TRUE
SumStep(f, g, s) == IF s = {} THEN 0 ELSE f[First(s)] + g[s \ {First(s)}]
AddsUp(f, S, g) == g = [s \in SUBSET S |-> SumStep(f, g, s)]

LEMMA SumByRecursion ==
    ASSUME NEW f, NEW S
    PROVE  SumOver(f, S) = (CHOOSE g : AddsUp(f, S, g))[S]
BY DEF SumOver, Fn!SumFunctionOnSet, Fn!FoldFunctionOnSet, Fn!MapThenFoldSet, AddsUp, SumStep, First

LEMMA FirstIsThere ==
    ASSUME NEW s, s # {}
    PROVE  First(s) \in s
BY DEF First

LEMMA SubsetsAreFinite ==
    ASSUME NEW S, IsFiniteSet(S)
    PROVE  /\ \A s \in SUBSET S : IsFiniteSet(s) /\ Cardinality(s) \in Nat
           /\ \A s \in SUBSET S : Cardinality(s) <= Cardinality(S)
           /\ \A s \in SUBSET S : \A x \in s :
                 s \ {x} \in SUBSET S /\ Cardinality(s \ {x}) = Cardinality(s) - 1
           /\ \A s \in SUBSET S : s = {} <=> Cardinality(s) = 0
<1>1. \A s \in SUBSET S : IsFiniteSet(s) /\ Cardinality(s) \in Nat
    BY FS_Subset, FS_CardinalityType
<1>2. \A s \in SUBSET S : Cardinality(s) <= Cardinality(S)
    BY FS_Subset
<1>3. \A s \in SUBSET S : \A x \in s : Cardinality(s \ {x}) = Cardinality(s) - 1
    BY <1>1, FS_RemoveElement
<1>4. \A s \in SUBSET S : s = {} <=> Cardinality(s) = 0
    BY <1>1, FS_EmptySet
<1> QED
    BY <1>1, <1>2, <1>3, <1>4

\* There is a function that satisfies it: up to any size of the sets, and so
\* up to the size of S.
LEMMA RecursionHasFunction ==
    ASSUME NEW S, IsFiniteSet(S), NEW f
    PROVE  \E g : AddsUp(f, S, g)
<1> DEFINE Upto(g, n) == /\ g = [s \in SUBSET S |-> g[s]]
                         /\ \A s \in SUBSET S : Cardinality(s) <= n => g[s] = SumStep(f, g, s)
           N == {n \in Nat : \E g : Upto(g, n)}
<1>1. 0 \in N
  <2> DEFINE g == [s \in SUBSET S |-> 0]
  <2>1. \A s \in SUBSET S : Cardinality(s) <= 0 => s = {}
      BY SubsetsAreFinite
  <2>2. Upto(g, 0)
      BY <2>1 DEF SumStep
  <2> QED
      BY <2>2
<1>2. ASSUME NEW n \in Nat, n \in N
      PROVE  n + 1 \in N
  <2>1. PICK g : Upto(g, n)
      BY <1>2
  <2> DEFINE h == [s \in SUBSET S |-> IF Cardinality(s) <= n THEN g[s] ELSE SumStep(f, g, s)]
  <2>2. \A s \in SUBSET S : h[s] = IF Cardinality(s) <= n THEN g[s] ELSE SumStep(f, g, s)
      OBVIOUS
  <2>3. h = [s \in SUBSET S |-> h[s]]
      OBVIOUS
  <2> HIDE DEF h
  <2>4. ASSUME NEW s \in SUBSET S, Cardinality(s) <= n + 1
        PROVE  h[s] = SumStep(f, h, s)
    <3>1. h[s] = SumStep(f, g, s)
        BY <2>1, <2>2
    <3>2. CASE s = {}
        BY <3>1, <3>2 DEF SumStep
    <3>3. CASE s # {}
      <4> DEFINE x == First(s)
      <4>1. x \in s
          BY <3>3, FirstIsThere
      <4> HIDE DEF x
      <4>2. s \ {x} \in SUBSET S /\ Cardinality(s \ {x}) <= n
          BY <2>4, <4>1, SubsetsAreFinite
      <4>3. h[s \ {x}] = g[s \ {x}]
          BY <2>2, <4>2
      <4> QED
          BY <3>1, <3>3, <4>3 DEF SumStep, x
    <3> QED
        BY <3>2, <3>3
  <2>5. Upto(h, n + 1)
      BY <2>3, <2>4
  <2> HIDE DEF Upto
  <2> QED
      BY <2>5
<1> HIDE DEF N
<1>3. Cardinality(S) \in N
    BY <1>1, <1>2, NatSetInduction, FS_CardinalityType
<1>4. PICK g : Upto(g, Cardinality(S))
    BY <1>3 DEF N
<1>5. \A s \in SUBSET S : g[s] = SumStep(f, g, s)
    BY <1>4, SubsetsAreFinite
<1> QED
    BY <1>4, <1>5 DEF AddsUp

\* It takes the elements in any order.
LEMMA RecursionInAnyOrder ==
    ASSUME NEW S, IsFiniteSet(S), NEW f, \A x \in S : f[x] \in Int, NEW g, AddsUp(f, S, g)
    PROVE  \A s \in SUBSET S :
               g[s] \in Int /\ \A y \in s : g[s] = f[y] + g[s \ {y}]
<1> DEFINE Fine(s) == g[s] \in Int /\ \A y \in s : g[s] = f[y] + g[s \ {y}]
           N == {n \in Nat : \A s \in SUBSET S : Cardinality(s) <= n => Fine(s)}
<1>1. \A s \in SUBSET S : g[s] = SumStep(f, g, s)
    BY DEF AddsUp
<1>2. Fine({})
    BY <1>1 DEF SumStep
<1>3. 0 \in N
  <2>1. \A s \in SUBSET S : Cardinality(s) <= 0 => s = {}
      BY SubsetsAreFinite
  <2> QED
      BY <1>2, <2>1
<1>4. ASSUME NEW n \in Nat, n \in N, NEW s \in SUBSET S, Cardinality(s) <= n + 1, s # {}
      PROVE  Fine(s)
  <2> DEFINE x == First(s)
  <2>1. x \in s
      BY <1>4, FirstIsThere
  <2>2. g[s] = f[x] + g[s \ {x}]
      BY <1>1, <1>4 DEF SumStep
  <2> HIDE DEF x
  <2>3. \A z \in s : s \ {z} \in SUBSET S /\ Cardinality(s \ {z}) = Cardinality(s) - 1
      BY SubsetsAreFinite
  <2>4. \A z \in s : s \ {z} \in SUBSET S /\ Cardinality(s \ {z}) <= n
      BY <1>4, <2>3, SubsetsAreFinite
  <2>5. \A z \in s : Fine(s \ {z}) /\ f[z] \in Int
      BY <1>4, <2>4
  <2>6. ASSUME NEW y \in s, y # x
        PROVE  g[s] = f[y] + g[s \ {y}]
    <3> DEFINE rest == (s \ {x}) \ {y}
    <3>1. rest = (s \ {y}) \ {x} /\ y \in s \ {x} /\ x \in s \ {y}
        BY <2>1, <2>6
    <3>2. g[s \ {x}] = f[y] + g[rest]
        BY <2>1, <2>5, <3>1
    <3>3. g[s \ {y}] = f[x] + g[rest]
        BY <2>5, <3>1
    <3>4. rest \in SUBSET S /\ Cardinality(rest) <= n
      <4>1. rest \in SUBSET S /\ Cardinality(rest) = Cardinality(s \ {x}) - 1
          BY <2>1, <2>4, <3>1, SubsetsAreFinite
      <4>2. Cardinality(s \ {x}) \in Nat /\ Cardinality(s \ {x}) <= n
          BY <2>1, <2>4, SubsetsAreFinite
      <4> QED
          BY <4>1, <4>2
    <3>5. g[rest] \in Int
        BY <1>4, <3>4
    <3> HIDE DEF rest
    <3>6. f[x] \in Int /\ f[y] \in Int
        BY <2>1, <2>5
    <3> QED
        BY <2>2, <3>2, <3>3, <3>5, <3>6
  <2>7. g[s] \in Int
    <3>1. f[x] \in Int /\ g[s \ {x}] \in Int
        BY <2>1, <2>5
    <3> QED
        BY <2>2, <3>1
  <2> QED
      BY <2>2, <2>6, <2>7
<1>5. \A n \in Nat : n \in N => n + 1 \in N
  <2> SUFFICES ASSUME NEW n \in Nat, n \in N PROVE n + 1 \in N
      OBVIOUS
  <2>1. \A s \in SUBSET S : Cardinality(s) <= n + 1 => Fine(s)
      BY <1>2, <1>4
  <2> HIDE DEF Fine
  <2> QED
      BY <2>1
<1> HIDE DEF N
<1>6. Cardinality(S) \in N
    BY <1>3, <1>5, NatSetInduction, FS_CardinalityType
<1> QED
    BY <1>6, SubsetsAreFinite DEF N

\* It depends on nothing but the amounts of the elements.
LEMMA RecursionIsUnique ==
    ASSUME NEW S, IsFiniteSet(S), NEW T, IsFiniteSet(T), NEW f, NEW h,
           NEW g, AddsUp(f, S, g), NEW k, AddsUp(h, T, k),
           NEW U, U \subseteq S, U \subseteq T, \A x \in U : f[x] = h[x]
    PROVE  g[U] = k[U]
<1> DEFINE N == {n \in Nat : \A s \in SUBSET U : Cardinality(s) = n => g[s] = k[s]}
<1>1. \A s \in SUBSET U : g[s] = SumStep(f, g, s) /\ k[s] = SumStep(h, k, s)
    BY DEF AddsUp
<1>2. IsFiniteSet(U)
    BY FS_Subset
<1>3. 0 \in N
    BY <1>1, <1>2, SubsetsAreFinite DEF SumStep
<1>4. ASSUME NEW n \in Nat, n \in N
      PROVE  n + 1 \in N
  <2>1. ASSUME NEW s \in SUBSET U, Cardinality(s) = n + 1
        PROVE  g[s] = k[s]
    <3> DEFINE x == First(s)
    <3>1. s # {}
        BY <1>2, <2>1, SubsetsAreFinite
    <3>2. x \in s
        BY <3>1, FirstIsThere
    <3>3. g[s] = f[x] + g[s \ {x}] /\ k[s] = h[x] + k[s \ {x}]
        BY <1>1, <3>1 DEF SumStep
    <3> HIDE DEF x
    <3>4. s \ {x} \in SUBSET U /\ Cardinality(s \ {x}) = Cardinality(s) - 1
        BY <1>2, <3>2, SubsetsAreFinite
    <3>5. g[s \ {x}] = k[s \ {x}]
        BY <1>4, <2>1, <3>4
    <3> QED
        BY <3>2, <3>3, <3>5
  <2> QED
      BY <2>1
<1> HIDE DEF N
<1>5. Cardinality(U) \in N
    BY <1>2, <1>3, <1>4, NatSetInduction, FS_CardinalityType
<1> QED
    BY <1>2, <1>5 DEF N

-----------------------------------------------------------------------------
(* The sum. *)

LEMMA SumFunctionOf ==
    ASSUME NEW S, IsFiniteSet(S), NEW f
    PROVE  \E g : AddsUp(f, S, g) /\ SumOver(f, S) = g[S]
<1> DEFINE g == CHOOSE g : AddsUp(f, S, g)
<1>1. AddsUp(f, S, g)
    BY RecursionHasFunction
<1> QED
    BY <1>1, SumByRecursion

LEMMA SumOverEmpty == \A f : SumOver(f, {}) = 0
<1> TAKE f
<1>1. PICK g : AddsUp(f, {}, g) /\ SumOver(f, {}) = g[{}]
    BY SumFunctionOf, FS_EmptySet
<1>2. g[{}] = SumStep(f, g, {})
    BY <1>1 DEF AddsUp
<1> QED
    BY <1>1, <1>2 DEF SumStep

LEMMA SumOverType ==
    ASSUME NEW S, IsFiniteSet(S), NEW f, \A x \in S : f[x] \in Int
    PROVE  SumOver(f, S) \in Int
<1>1. PICK g : AddsUp(f, S, g) /\ SumOver(f, S) = g[S]
    BY SumFunctionOf
<1> QED
    BY <1>1, RecursionInAnyOrder

LEMMA SumOverSame ==
    ASSUME NEW S, IsFiniteSet(S), NEW f, NEW h, \A x \in S : f[x] = h[x]
    PROVE  SumOver(f, S) = SumOver(h, S)
<1>1. PICK g : AddsUp(f, S, g) /\ SumOver(f, S) = g[S]
    BY SumFunctionOf
<1>2. PICK k : AddsUp(h, S, k) /\ SumOver(h, S) = k[S]
    BY SumFunctionOf
<1>3. g[S] = k[S]
    BY <1>1, <1>2, RecursionIsUnique
<1> QED
    BY <1>1, <1>2, <1>3

LEMMA SumOverAdd ==
    ASSUME NEW S, IsFiniteSet(S), NEW x, x \notin S, NEW f, f[x] \in Int, \A y \in S : f[y] \in Int
    PROVE  SumOver(f, S \cup {x}) = SumOver(f, S) + f[x]
<1> DEFINE T == S \cup {x}
<1>1. IsFiniteSet(T)
    BY FS_AddElement
<1>2. PICK g : AddsUp(f, T, g) /\ SumOver(f, T) = g[T]
    BY <1>1, SumFunctionOf
<1>3. PICK k : AddsUp(f, S, k) /\ SumOver(f, S) = k[S]
    BY SumFunctionOf
<1>4. g[S] = k[S]
    BY <1>1, <1>2, <1>3, RecursionIsUnique
<1>5. g[T] = f[x] + g[T \ {x}] /\ g[T \ {x}] \in Int
    BY <1>1, <1>2, RecursionInAnyOrder
<1>6. T \ {x} = S
    OBVIOUS
<1>7. g[T] = f[x] + g[S] /\ g[S] \in Int
    BY <1>5, <1>6
<1> HIDE DEF T
<1>8. SumOver(f, T) = SumOver(f, S) + f[x]
    BY <1>2, <1>3, <1>4, <1>7
<1> QED
    BY <1>8 DEF T

LEMMA SumOverRemove ==
    ASSUME NEW S, IsFiniteSet(S), NEW x \in S, NEW f, \A y \in S : f[y] \in Int
    PROVE  SumOver(f, S) = SumOver(f, S \ {x}) + f[x]
<1>1. IsFiniteSet(S \ {x}) /\ (S \ {x}) \cup {x} = S /\ x \notin S \ {x}
    BY FS_RemoveElement
<1> QED
    BY <1>1, SumOverAdd

\* Where one amount changes, the sum changes by as much.
LEMMA SumOverChange ==
    ASSUME NEW S, IsFiniteSet(S), NEW x \in S, NEW f, NEW h,
           \A y \in S : f[y] \in Int /\ h[y] \in Int,
           \A y \in S \ {x} : h[y] = f[y]
    PROVE  SumOver(h, S) = SumOver(f, S) + h[x] - f[x]
<1>1. IsFiniteSet(S \ {x})
    BY FS_RemoveElement
<1>2. SumOver(h, S \ {x}) = SumOver(f, S \ {x})
    BY <1>1, SumOverSame
<1>3. SumOver(f, S \ {x}) \in Int
    BY <1>1, SumOverType
<1>4. SumOver(f, S) = SumOver(f, S \ {x}) + f[x] /\ SumOver(h, S) = SumOver(h, S \ {x}) + h[x]
    BY SumOverRemove
<1> QED
    BY <1>2, <1>3, <1>4

\* Sums of amounts that add up, add up; sums of smaller amounts are smaller.
LEMMA SumOverPlus ==
    ASSUME NEW S, IsFiniteSet(S), NEW f, NEW h, NEW k,
           \A x \in S : f[x] \in Int /\ h[x] \in Int /\ k[x] = f[x] + h[x]
    PROVE  SumOver(k, S) = SumOver(f, S) + SumOver(h, S)
<1> DEFINE Good == {T \in SUBSET S : SumOver(k, T) = SumOver(f, T) + SumOver(h, T)}
<1>1. {} \in Good
    BY SumOverEmpty
<1>2. ASSUME NEW T \in SUBSET S, NEW x \in S \ T, T \in Good
      PROVE  T \cup {x} \in Good
  <2>1. IsFiniteSet(T)
      BY FS_Subset
  <2>2. SumOver(f, T) \in Int /\ SumOver(h, T) \in Int
      BY <2>1, SumOverType
  <2>3. /\ SumOver(f, T \cup {x}) = SumOver(f, T) + f[x]
        /\ SumOver(h, T \cup {x}) = SumOver(h, T) + h[x]
      BY <2>1, SumOverAdd
  <2>4. SumOver(k, T \cup {x}) = SumOver(k, T) + k[x]
    <3>1. \A y \in T \cup {x} : k[y] \in Int
        OBVIOUS
    <3> QED
        BY <2>1, <3>1, SumOverAdd
  <2> QED
      BY <1>2, <2>2, <2>3, <2>4
<1> HIDE DEF Good
<1>3. S \in Good
    BY <1>1, <1>2, FiniteSetInduction
<1> QED
    BY <1>3 DEF Good

LEMMA SumOverNat ==
    ASSUME NEW S, IsFiniteSet(S), NEW f, \A x \in S : f[x] \in Nat
    PROVE  SumOver(f, S) \in Nat
<1> DEFINE Good == {T \in SUBSET S : SumOver(f, T) \in Nat}
<1>1. {} \in Good
    BY SumOverEmpty
<1>2. ASSUME NEW T \in SUBSET S, NEW x \in S \ T, T \in Good
      PROVE  T \cup {x} \in Good
  <2>1. IsFiniteSet(T) /\ \A y \in T \cup {x} : f[y] \in Int
      BY FS_Subset
  <2>2. SumOver(f, T \cup {x}) = SumOver(f, T) + f[x]
      BY <2>1, SumOverAdd
  <2> QED
      BY <1>2, <2>2
<1> HIDE DEF Good
<1>3. S \in Good
    BY <1>1, <1>2, FiniteSetInduction
<1> QED
    BY <1>3 DEF Good

LEMMA SumOverMonotone ==
    ASSUME NEW S, IsFiniteSet(S), NEW f, NEW h,
           \A x \in S : f[x] \in Int /\ h[x] \in Int /\ f[x] <= h[x]
    PROVE  SumOver(f, S) <= SumOver(h, S)
<1> DEFINE d == [x \in S |-> h[x] - f[x]]
<1>1. \A x \in S : d[x] \in Nat /\ d[x] \in Int /\ h[x] = f[x] + d[x]
    OBVIOUS
<1> HIDE DEF d
<1>2. SumOver(h, S) = SumOver(f, S) + SumOver(d, S)
    BY <1>1, SumOverPlus
<1>3. SumOver(d, S) \in Nat /\ SumOver(f, S) \in Int
    BY <1>1, SumOverNat, SumOverType
<1> QED
    BY <1>2, <1>3

\* A part of nonnegative amounts is at most the whole.
LEMMA SumOverSubset ==
    ASSUME NEW S, IsFiniteSet(S), NEW T, T \subseteq S, NEW f, \A x \in S : f[x] \in Nat
    PROVE  SumOver(f, T) <= SumOver(f, S)
<1> DEFINE part == [x \in S |-> IF x \in T THEN f[x] ELSE 0]
           Good == {U \in SUBSET S : SumOver(part, U) = SumOver(f, U \cap T)}
<1>1. \A x \in S : part[x] \in Int /\ f[x] \in Int /\ part[x] <= f[x]
                   /\ part[x] = IF x \in T THEN f[x] ELSE 0
    OBVIOUS
<1> HIDE DEF part
<1>2. {} \in Good
    BY SumOverEmpty
<1>3. ASSUME NEW U \in SUBSET S, NEW x \in S \ U, U \in Good
      PROVE  U \cup {x} \in Good
  <2>1. IsFiniteSet(U) /\ IsFiniteSet(U \cap T)
      BY FS_Subset
  <2>2. SumOver(part, U \cup {x}) = SumOver(part, U) + part[x]
      BY <1>1, <2>1, SumOverAdd
  <2>3. SumOver(part, U) \in Int
      BY <1>1, <2>1, SumOverType
  <2>4. CASE x \in T
    <3>1. (U \cup {x}) \cap T = (U \cap T) \cup {x}
        BY <2>4
    <3>2. SumOver(f, (U \cap T) \cup {x}) = SumOver(f, U \cap T) + f[x]
        BY <1>1, <2>1, SumOverAdd
    <3> QED
        BY <1>1, <1>3, <2>2, <2>4, <3>1, <3>2
  <2>5. CASE x \notin T
    <3>1. (U \cup {x}) \cap T = U \cap T
        BY <2>5
    <3>2. SumOver(part, U \cup {x}) = SumOver(part, U)
        BY <1>1, <2>2, <2>3, <2>5
    <3> QED
        BY <1>3, <3>1, <3>2
  <2> QED
      BY <2>4, <2>5
<1> HIDE DEF Good
<1>4. S \in Good
    BY <1>2, <1>3, FiniteSetInduction
<1>5. S \cap T = T
    OBVIOUS
<1>6. SumOver(part, S) <= SumOver(f, S)
    BY <1>1, SumOverMonotone
<1> QED
    BY <1>4, <1>5, <1>6 DEF Good

\* The sum of all amounts of a function.
LEMMA SumIsOverDomain == \A f : Sum(f) = SumOver(f, DOMAIN f)
BY DEF Sum, SumOver, Fn!SumFunction

-----------------------------------------------------------------------------
(* Spreading an amount over places in order: each gives what it has, as far  *)
(* as the places before it left some to give.                                *)

IsOrder(R, S) ==
    /\ \A x \in S : <<x, x>> \notin R
    /\ \A x, y, z \in S : <<x, y>> \in R /\ <<y, z>> \in R => <<x, z>> \in R
    /\ \A x, y \in S : x # y => <<x, y>> \in R \/ <<y, x>> \in R

Share(need, open, R, S, b) ==
    LET left == need - SumOver(open, {c \in S : <<c, b>> \in R})
        due == IF left < 0 THEN 0 ELSE left
    IN IF open[b] < due THEN open[b] ELSE due

IsSpread(parts, need, open, R, S) ==
    /\ IsFiniteSet(S) /\ IsOrder(R, S)
    /\ need \in Nat
    /\ \A b \in S : open[b] \in Nat /\ parts[b] = Share(need, open, R, S, b)

LEMMA LastOfFinite ==
    ASSUME NEW S, IsFiniteSet(S), NEW R, IsOrder(R, S), S # {}
    PROVE  \E m \in S : \A x \in S \ {m} : <<x, m>> \in R
<1> DEFINE Last(T, m) == \A x \in T \ {m} : <<x, m>> \in R
           Good == {T \in SUBSET S : T = {} \/ \E m \in T : Last(T, m)}
<1>1. {} \in Good
    OBVIOUS
<1>2. ASSUME NEW T \in SUBSET S, NEW x \in S \ T, T \in Good
      PROVE  T \cup {x} \in Good
  <2>1. CASE T = {}
      BY <2>1
  <2>2. CASE T # {}
    <3>1. PICK m \in T : Last(T, m)
        BY <1>2, <2>2
    <3>2. CASE <<m, x>> \in R
      <4>1. \A y \in T : <<y, x>> \in R
          BY <3>1, <3>2 DEF IsOrder
      <4> QED
          BY <4>1
    <3>3. CASE <<x, m>> \in R
      <4>1. Last(T \cup {x}, m)
          BY <3>1, <3>3
      <4> QED
          BY <4>1
    <3> QED
        BY <3>2, <3>3 DEF IsOrder
  <2> QED
      BY <2>1, <2>2
<1> HIDE DEF Good
<1>3. S \in Good
    BY <1>1, <1>2, FiniteSetInduction
<1> QED
    BY <1>3 DEF Good

LEMMA SharesOfFinite ==
    ASSUME NEW S, IsFiniteSet(S), NEW R, IsOrder(R, S), NEW need \in Nat,
           NEW open, \A b \in S : open[b] \in Nat
    PROVE  SumOver([b \in S |-> Share(need, open, R, S, b)], S)
              = IF SumOver(open, S) < need THEN SumOver(open, S) ELSE need
<1> DEFINE Given(T) == [b \in T |-> Share(need, open, R, T, b)]
           All(T) == SumOver(open, T)
           Right(T) == SumOver(Given(T), T) = IF All(T) < need THEN All(T) ELSE need
           N == {n \in Nat : \A T \in SUBSET S : Cardinality(T) = n => Right(T)}
<1>1. \A T \in SUBSET S : IsFiniteSet(T) /\ All(T) \in Nat
  <2> SUFFICES ASSUME NEW T \in SUBSET S PROVE IsFiniteSet(T) /\ All(T) \in Nat
      OBVIOUS
  <2>1. IsFiniteSet(T)
      BY FS_Subset
  <2> QED
      BY <2>1, SumOverNat
<1>2. \A T \in SUBSET S : \A b \in T : Share(need, open, R, T, b) \in Nat
  <2> SUFFICES ASSUME NEW T \in SUBSET S, NEW b \in T PROVE Share(need, open, R, T, b) \in Nat
      OBVIOUS
  <2>1. {c \in T : <<c, b>> \in R} \in SUBSET S
      OBVIOUS
  <2>2. SumOver(open, {c \in T : <<c, b>> \in R}) \in Nat
      BY <1>1, <2>1
  <2> QED
      BY <2>2 DEF Share
<1>3. 0 \in N
  <2>1. \A T \in SUBSET S : Cardinality(T) = 0 => T = {}
      BY SubsetsAreFinite
  <2>2. Right({})
    <3>1. SumOver(Given({}), {}) = 0 /\ All({}) = 0
        BY SumOverEmpty
    <3> QED
        BY <3>1
  <2> HIDE DEF Right
  <2> QED
      BY <2>1, <2>2
<1>4. ASSUME NEW n \in Nat, n \in N, NEW T \in SUBSET S, Cardinality(T) = n + 1
      PROVE  Right(T)
  <2>1. T # {}
    <3>1. Cardinality(T) # 0
        BY <1>4
    <3> QED
        BY <3>1, FS_EmptySet
  <2>2. IsFiniteSet(T) /\ IsOrder(R, T)
      BY <1>1 DEF IsOrder
  <2>3. PICK m \in T : \A x \in T \ {m} : <<x, m>> \in R
      BY <2>1, <2>2, LastOfFinite
  <2> DEFINE U == T \ {m}
  <2>4. U \in SUBSET S /\ IsFiniteSet(U) /\ Cardinality(U) = n
    <3>1. U \in SUBSET S /\ Cardinality(U) = Cardinality(T) - 1
        BY SubsetsAreFinite
    <3>2. Cardinality(U) = n
        BY <1>4, <3>1
    <3> QED
        BY <1>1, <3>1, <3>2
  <2>5. Right(U)
      BY <1>4, <2>4
  <2>6. \A b \in U : {c \in T : <<c, b>> \in R} = {c \in U : <<c, b>> \in R}
      BY <2>3 DEF IsOrder
  <2>7. {c \in T : <<c, m>> \in R} = U
      BY <2>3 DEF IsOrder
  <2>8. \A b \in U : Given(T)[b] = Given(U)[b] /\ Given(T)[b] \in Int
    <3>1. \A b \in U : Share(need, open, R, T, b) = Share(need, open, R, U, b)
        BY <2>6 DEF Share
    <3>2. \A b \in U : Share(need, open, R, T, b) \in Int
        BY <1>2
    <3> QED
        BY <3>1, <3>2
  <2>9. SumOver(Given(T), U) = SumOver(Given(U), U)
    <3> HIDE DEF Given, U
    <3> QED
        BY <2>4, <2>8, SumOverSame
  <2>10. /\ Given(T)[m] \in Int
         /\ Given(T)[m] = LET due == IF need - All(U) < 0 THEN 0 ELSE need - All(U)
                          IN IF open[m] < due THEN open[m] ELSE due
    <3>1. Given(T)[m] = Share(need, open, R, T, m)
        OBVIOUS
    <3>2. Share(need, open, R, T, m) =
              LET due == IF need - SumOver(open, U) < 0 THEN 0 ELSE need - SumOver(open, U)
              IN IF open[m] < due THEN open[m] ELSE due
        BY <2>7 DEF Share
    <3>3. Share(need, open, R, T, m) \in Int
        BY <1>2
    <3> QED
        BY <3>1, <3>2, <3>3
  <2>11. SumOver(Given(T), T) = SumOver(Given(T), U) + Given(T)[m]
    <3>1. \A b \in T : Given(T)[b] \in Int
        BY <2>8, <2>10
    <3> HIDE DEF Given
    <3> QED
        BY <2>2, <3>1, SumOverRemove
  <2>12. All(T) = All(U) + open[m] /\ open[m] \in Nat /\ All(U) \in Nat
    <3>1. \A b \in T : open[b] \in Int
        OBVIOUS
    <3>2. SumOver(open, T) = SumOver(open, U) + open[m]
        BY <2>2, <3>1, SumOverRemove
    <3> QED
        BY <1>1, <2>4, <3>2
  <2>13. SumOver(Given(U), U) = IF All(U) < need THEN All(U) ELSE need
      BY <2>5
  <2>14. SumOver(Given(T), T) = IF All(T) < need THEN All(T) ELSE need
    <3> HIDE DEF U, All, Given
    <3> DEFINE due == IF need - All(U) < 0 THEN 0 ELSE need - All(U)
    <3>2. Given(T)[m] = IF open[m] < due THEN open[m] ELSE due
        BY <2>10
    <3>3. SumOver(Given(T), T) = SumOver(Given(U), U) + Given(T)[m]
        BY <2>9, <2>11
    <3>4. CASE All(U) < need
      <4>1. SumOver(Given(U), U) = All(U)
          BY <3>4, <2>13
      <4>2. due = need - All(U)
          BY <3>4, <2>12
      <4>3. Given(T)[m] = IF open[m] < need - All(U) THEN open[m] ELSE need - All(U)
          BY <4>2, <3>2
      <4> QED
          BY <4>1, <4>3, <3>3, <2>12
    <3>5. CASE ~(All(U) < need)
      <4>1. SumOver(Given(U), U) = need
          BY <3>5, <2>13
      <4>2. due = 0
          BY <3>5, <2>12
      <4>3. Given(T)[m] = 0
          BY <4>2, <3>2, <2>12
      <4> QED
          BY <4>1, <4>3, <3>3, <3>5, <2>12
    <3> QED
        BY <3>4, <3>5
  <2> QED
      BY <2>14
<1>5. \A n \in Nat : n \in N => n + 1 \in N
  <2> SUFFICES ASSUME NEW n \in Nat, n \in N PROVE n + 1 \in N
      OBVIOUS
  <2>1. \A T \in SUBSET S : Cardinality(T) = n + 1 => Right(T)
      BY <1>4
  <2> HIDE DEF Right
  <2> QED
      BY <2>1
<1> HIDE DEF N
<1>6. Cardinality(S) \in N
    BY <1>3, <1>5, NatSetInduction, FS_CardinalityType
<1>7. Right(S)
  <2> HIDE DEF Right
  <2> QED
      BY <1>6 DEF N
<1> QED
    BY <1>7

\* Together they give what is needed, or all they have.
LEMMA SharesAddUp ==
    ASSUME NEW parts, NEW need, NEW open, NEW R, NEW S, IsSpread(parts, need, open, R, S)
    PROVE  SumOver(parts, S) = IF SumOver(open, S) < need THEN SumOver(open, S) ELSE need
<1> DEFINE shares == [b \in S |-> Share(need, open, R, S, b)]
<1>1. SumOver(shares, S) = IF SumOver(open, S) < need THEN SumOver(open, S) ELSE need
    BY SharesOfFinite DEF IsSpread
<1>2. IsFiniteSet(S) /\ \A b \in S : parts[b] = shares[b]
    BY DEF IsSpread
<1> HIDE DEF shares
<1>3. SumOver(parts, S) = SumOver(shares, S)
    BY <1>2, SumOverSame
<1> QED
    BY <1>1, <1>3

-----------------------------------------------------------------------------
(* Lists of which some is passed over. *)

\* The filter, up to each place of the list.
KeptStep(list, S, g, n) ==
    IF n = 0 THEN <<>>
    ELSE IF list[n] \in S THEN Append(g[n - 1], list[n]) ELSE g[n - 1]
KeepsUpTo(list, S, g) == g = [n \in 0..Len(list) |-> KeptStep(list, S, g, n)]

LEMMA KeptByRecursion ==
    ASSUME NEW list, NEW S
    PROVE  Kept(list, S) = (CHOOSE g : KeepsUpTo(list, S, g))[Len(list)]
BY DEF Kept, KeepsUpTo, KeptStep

LEMMA KeptHasFunction ==
    ASSUME NEW list, NEW S, Len(list) \in Nat
    PROVE  \E g : KeepsUpTo(list, S, g)
<1> DEFINE Upto(g, m) == /\ g = [n \in 0..Len(list) |-> g[n]]
                         /\ \A n \in 0..Len(list) : n <= m => g[n] = KeptStep(list, S, g, n)
           N == {m \in Nat : \E g : Upto(g, m)}
<1>1. 0 \in N
  <2> DEFINE g == [n \in 0..Len(list) |-> <<>>]
  <2>1. Upto(g, 0)
      BY DEF KeptStep
  <2> QED
      BY <2>1
<1>2. ASSUME NEW m \in Nat, m \in N
      PROVE  m + 1 \in N
  <2>1. PICK g : Upto(g, m)
      BY <1>2
  <2> DEFINE h == [n \in 0..Len(list) |-> IF n <= m THEN g[n] ELSE KeptStep(list, S, g, n)]
  <2>2. \A n \in 0..Len(list) : h[n] = IF n <= m THEN g[n] ELSE KeptStep(list, S, g, n)
      OBVIOUS
  <2>3. h = [n \in 0..Len(list) |-> h[n]]
      OBVIOUS
  <2> HIDE DEF h
  <2>4. ASSUME NEW n \in 0..Len(list), n <= m + 1
        PROVE  h[n] = KeptStep(list, S, h, n)
    <3>1. h[n] = KeptStep(list, S, g, n)
        BY <2>1, <2>2, <2>4
    <3>2. n # 0 => h[n - 1] = g[n - 1]
        BY <2>2, <2>4
    <3> QED
        BY <3>1, <3>2 DEF KeptStep
  <2>5. Upto(h, m + 1)
      BY <2>3, <2>4
  <2> QED
      BY <2>5
<1> HIDE DEF N
<1>3. \A m \in Nat : m \in N
    BY <1>1, <1>2, NatSetInduction
<1>4. PICK g : Upto(g, Len(list))
    BY <1>3 DEF N
<1>5. KeepsUpTo(list, S, g)
    BY <1>4 DEF KeepsUpTo
<1> QED
    BY <1>5

LEMMA KeptIsFunction ==
    ASSUME NEW list, NEW S, Len(list) \in Nat
    PROVE  \E g : /\ Kept(list, S) = g[Len(list)]
                  /\ \A n \in 0..Len(list) : g[n] = KeptStep(list, S, g, n)
<1> DEFINE g == CHOOSE g : KeepsUpTo(list, S, g)
<1>1. KeepsUpTo(list, S, g)
    BY KeptHasFunction
<1>2. Kept(list, S) = g[Len(list)]
    BY KeptByRecursion
<1> HIDE DEF g
<1>3. \A n \in 0..Len(list) : g[n] = KeptStep(list, S, g, n)
    BY <1>1 DEF KeepsUpTo
<1> QED
    BY <1>2, <1>3

\* A filter is a list of what it lets through.
LEMMA KeptType ==
    ASSUME NEW X, NEW list \in Seq(X), NEW S
    PROVE  Kept(list, S) \in Seq(X \cap S)
<1>1. Len(list) \in Nat /\ \A n \in 1..Len(list) : list[n] \in X
    OBVIOUS
<1>2. PICK g : /\ Kept(list, S) = g[Len(list)]
               /\ \A n \in 0..Len(list) : g[n] = KeptStep(list, S, g, n)
    BY <1>1, KeptIsFunction
<1> DEFINE N == {n \in Nat : n <= Len(list) => g[n] \in Seq(X \cap S)}
<1>3. 0 \in N
  <2>1. g[0] = <<>>
      BY <1>1, <1>2 DEF KeptStep
  <2>2. <<>> \in Seq(X \cap S)
      OBVIOUS
  <2> QED
      BY <2>1, <2>2
<1>4. ASSUME NEW n \in Nat, n \in N
      PROVE  n + 1 \in N
  <2> SUFFICES ASSUME n + 1 <= Len(list) PROVE g[n + 1] \in Seq(X \cap S)
      OBVIOUS
  <2>1. n + 1 \in 0..Len(list) /\ n + 1 \in 1..Len(list) /\ n + 1 # 0 /\ (n + 1) - 1 = n
      BY <1>1
  <2>2. g[n + 1] = IF list[n + 1] \in S THEN Append(g[n], list[n + 1]) ELSE g[n]
      BY <1>2, <2>1 DEF KeptStep
  <2>3. g[n] \in Seq(X \cap S)
      BY <1>1, <1>4
  <2> QED
      BY <1>1, <2>1, <2>2, <2>3
<1> HIDE DEF N
<1>5. \A n \in Nat : n \in N
    BY <1>3, <1>4, NatSetInduction
<1> QED
    BY <1>1, <1>2, <1>5 DEF N

\* Nothing that is in a list once is in what is kept of it twice.
LEMMA KeptOnce ==
    ASSUME NEW X, NEW list \in Seq(X), NEW S,
           \A i, j \in 1..Len(list) : list[i] = list[j] => i = j
    PROVE  \A i, j \in DOMAIN Kept(list, S) : Kept(list, S)[i] = Kept(list, S)[j] => i = j
<1>1. Len(list) \in Nat /\ \A n \in 1..Len(list) : list[n] \in X
    OBVIOUS
<1>2. PICK g : /\ Kept(list, S) = g[Len(list)]
               /\ \A n \in 0..Len(list) : g[n] = KeptStep(list, S, g, n)
    BY <1>1, KeptIsFunction
<1> DEFINE From(n) == \A i \in DOMAIN g[n] : \E j \in 1..n : g[n][i] = list[j]
           Once(n) == \A i, j \in DOMAIN g[n] : g[n][i] = g[n][j] => i = j
           N == {n \in Nat : n <= Len(list) => g[n] \in Seq(X) /\ From(n) /\ Once(n)}
<1>3. 0 \in N
  <2>1. g[0] = <<>>
      BY <1>1, <1>2 DEF KeptStep
  <2>2. <<>> \in Seq(X) /\ DOMAIN <<>> = {}
      OBVIOUS
  <2>3. g[0] \in Seq(X) /\ DOMAIN g[0] = {}
      BY <2>1, <2>2
  <2>4. From(0) /\ Once(0)
      BY <2>3
  <2> QED
      BY <2>3, <2>4
<1>4. ASSUME NEW n \in Nat, n \in N
      PROVE  n + 1 \in N
  <2> SUFFICES ASSUME n + 1 <= Len(list)
               PROVE  g[n + 1] \in Seq(X) /\ From(n + 1) /\ Once(n + 1)
      OBVIOUS
  <2>1. n + 1 \in 0..Len(list) /\ n + 1 \in 1..Len(list) /\ n + 1 # 0 /\ (n + 1) - 1 = n
        /\ n <= Len(list) /\ n + 1 \in 1..(n + 1)
        /\ \A j \in 1..n : j \in 1..Len(list) /\ j # n + 1 /\ j \in 1..(n + 1)
      BY <1>1
  <2>2. g[n + 1] = IF list[n + 1] \in S THEN Append(g[n], list[n + 1]) ELSE g[n]
      BY <1>2, <2>1 DEF KeptStep
  <2>3. g[n] \in Seq(X) /\ From(n) /\ Once(n)
      BY <1>4, <2>1
  <2>4. CASE list[n + 1] \notin S
    <3>1. g[n + 1] = g[n]
        BY <2>2, <2>4
    <3>2. From(n + 1)
        BY <2>1, <2>3, <3>1
    <3> QED
        BY <2>3, <3>1, <3>2
  <2>5. CASE list[n + 1] \in S
    <3>1. PICK p : p = g[n]
        OBVIOUS
    <3>2. PICK x : x = list[n + 1]
        OBVIOUS
    <3>3. g[n + 1] = Append(p, x) /\ p \in Seq(X) /\ x \in X
        BY <1>1, <2>1, <2>2, <2>3, <2>5, <3>1, <3>2
    <3>4. /\ g[n + 1] \in Seq(X) /\ DOMAIN g[n + 1] = 1..(Len(p) + 1) /\ DOMAIN p = 1..Len(p)
          /\ Len(p) \in Nat /\ g[n + 1][Len(p) + 1] = x
          /\ \A i \in 1..Len(p) : g[n + 1][i] = p[i]
        BY <3>3
    <3>5. \A i \in 1..Len(p) : p[i] # x
        BY <1>1, <2>1, <2>3, <3>1, <3>2, <3>4, SMTT(30)
    <3> HIDE DEF From, Once
    <3>6. ASSUME NEW i \in 1..(Len(p) + 1)
          PROVE  \E j \in 1..(n + 1) : g[n + 1][i] = list[j]
      <4>1. CASE i = Len(p) + 1
          BY <4>1, <2>1, <3>2, <3>4
      <4>2. CASE i \in 1..Len(p)
        <5>1. \E j \in 1..n : p[i] = list[j]
            BY <2>3, <3>1, <3>4, <4>2 DEF From
        <5> QED
            BY <5>1, <2>1, <3>4, <4>2
      <4> QED
          BY <4>1, <4>2, <3>4
    <3>7. ASSUME NEW i \in 1..(Len(p) + 1), NEW j \in 1..(Len(p) + 1),
                 g[n + 1][i] = g[n + 1][j]
          PROVE  i = j
      <4>1. \A k, l \in 1..Len(p) : p[k] = p[l] => k = l
          BY <2>3, <3>1, <3>4 DEF Once
      <4>2. \A k \in 1..(Len(p) + 1) : k \in 1..Len(p) \/ k = Len(p) + 1
          BY <3>4
      <4> QED
          BY <4>1, <4>2, <3>4, <3>5, <3>7
    <3>8. From(n + 1) /\ Once(n + 1)
        BY <3>4, <3>6, <3>7 DEF From, Once
    <3> QED
        BY <3>4, <3>8
  <2> QED
      BY <2>4, <2>5
<1> HIDE DEF N
<1>5. \A n \in Nat : n \in N
    BY <1>3, <1>4, NatSetInduction
<1>6. Once(Len(list))
    BY <1>1, <1>5 DEF N
<1> QED
    BY <1>2, <1>6

\* A filter that lets through what lies behind a place, and nothing before it,
\* cuts the list there.
LEMMA KeptBehind ==
    ASSUME NEW X, NEW list \in Seq(X), NEW S, NEW m \in 0..Len(list),
           \A n \in 1..Len(list) : list[n] \in S <=> n > m
    PROVE  /\ Kept(list, S) \in Seq(X)
           /\ Len(Kept(list, S)) = Len(list) - m
           /\ \A n \in 1..(Len(list) - m) : Kept(list, S)[n] = list[m + n]
<1>1. Len(list) \in Nat /\ m \in Nat /\ m <= Len(list) /\ \A n \in 1..Len(list) : list[n] \in X
    OBVIOUS
<1>2. PICK g : /\ Kept(list, S) = g[Len(list)]
               /\ \A n \in 0..Len(list) : g[n] = KeptStep(list, S, g, n)
    BY <1>1, KeptIsFunction
<1> DEFINE Cut(n) == /\ g[n] \in Seq(X)
                     /\ n <= m => g[n] = <<>>
                     /\ n >= m => /\ Len(g[n]) = n - m
                                  /\ \A k \in 1..(n - m) : g[n][k] = list[m + k]
           N == {n \in Nat : n <= Len(list) => Cut(n)}
<1>3. 0 \in N
  <2>1. g[0] = <<>>
      BY <1>1, <1>2 DEF KeptStep
  <2>2. <<>> \in Seq(X) /\ Len(<<>>) = 0
      OBVIOUS
  <2>3. 0 >= m => 0 - m = 0 /\ 1..(0 - m) = {}
      BY <1>1
  <2>4. Cut(0)
      BY <2>1, <2>2, <2>3
  <2> QED
      BY <2>4
<1>4. ASSUME NEW n \in Nat, n \in N
      PROVE  n + 1 \in N
  <2> SUFFICES ASSUME n + 1 <= Len(list) PROVE Cut(n + 1)
      OBVIOUS
  <2>1. n + 1 \in 0..Len(list) /\ n + 1 \in 1..Len(list) /\ n + 1 # 0 /\ (n + 1) - 1 = n
      BY <1>1
  <2>2. g[n + 1] = IF n + 1 > m THEN Append(g[n], list[n + 1]) ELSE g[n]
      BY <1>2, <2>1 DEF KeptStep
  <2>3. Cut(n)
      BY <1>1, <1>4
  <2>4. CASE n + 1 <= m
      BY <1>1, <2>2, <2>3, <2>4
  <2>5. CASE n + 1 > m
    <3>1. n >= m /\ g[n + 1] = Append(g[n], list[n + 1])
        BY <1>1, <2>2, <2>5
    <3>2. /\ g[n] \in Seq(X) /\ Len(g[n]) = n - m
          /\ \A k \in 1..(n - m) : g[n][k] = list[m + k]
        BY <2>3, <3>1
    <3>3. list[n + 1] \in X
        BY <1>1, <2>1
    <3>4. /\ g[n + 1] \in Seq(X) /\ Len(g[n + 1]) = (n - m) + 1
          /\ \A k \in 1..(n - m) : g[n + 1][k] = g[n][k]
          /\ g[n + 1][(n - m) + 1] = list[n + 1]
        BY <3>1, <3>2, <3>3, AppendProperties
    <3>5. \A k \in 1..((n + 1) - m) : g[n + 1][k] = list[m + k]
      <4> TAKE k \in 1..((n + 1) - m)
      <4>1. k \in 1..(n - m) \/ (k = (n - m) + 1 /\ m + k = n + 1)
          BY <1>1, <3>1
      <4> QED
          BY <3>2, <3>4, <4>1
    <3>6. (n - m) + 1 = (n + 1) - m
        BY <1>1
    <3> QED
        BY SMTT(30), <2>5, <3>1, <3>4, <3>5, <3>6, <1>1
  <2> QED
      BY <1>1, <2>4, <2>5
<1> HIDE DEF N, Cut
<1>5. \A n \in Nat : n \in N
    BY <1>3, <1>4, NatSetInduction
<1>6. Cut(Len(list))
    BY <1>1, <1>5 DEF N
<1> QED
    BY <1>1, <1>2, <1>6 DEF Cut

-----------------------------------------------------------------------------
(* The same of functions as a whole. *)

\* Nothing comes to nothing.
LEMMA ZeroSum ==
    ASSUME NEW f, IsFiniteSet(DOMAIN f), \A x \in DOMAIN f : f[x] = 0
    PROVE  Sum(f) = 0
<1>1. \A x \in DOMAIN f : f[x] \in Int /\ f[x] = f[x] + f[x]
    OBVIOUS
<1>2. SumOver(f, DOMAIN f) = SumOver(f, DOMAIN f) + SumOver(f, DOMAIN f)
    BY <1>1, SumOverPlus
<1>3. SumOver(f, DOMAIN f) \in Int
    BY <1>1, SumOverType
<1>4. \A n \in Int : n = n + n => n = 0
    OBVIOUS
<1> QED
    BY <1>2, <1>3, <1>4, SumIsOverDomain

LEMMA NatSum ==
    ASSUME NEW S, IsFiniteSet(S), NEW f \in [S -> Nat]
    PROVE  Sum(f) \in Nat
<1>1. \A x \in S : f[x] \in Nat
    OBVIOUS
<1>2. DOMAIN f = S
    OBVIOUS
<1> QED
    BY <1>1, <1>2, SumOverNat, SumIsOverDomain

LEMMA IntSum ==
    ASSUME NEW S, IsFiniteSet(S), NEW f \in [S -> Int]
    PROVE  Sum(f) \in Int
<1>1. \A x \in S : f[x] \in Int
    OBVIOUS
<1>2. DOMAIN f = S
    OBVIOUS
<1> QED
    BY <1>1, <1>2, SumOverType, SumIsOverDomain

\* Where one figure changes, the sum changes by as much.
OneChanged(f, h, S, x) ==
    /\ IsFiniteSet(S) /\ f \in [S -> Int] /\ h \in [S -> Int] /\ x \in S
    /\ \A y \in S \ {x} : h[y] = f[y]

LEMMA OneChanges ==
    ASSUME NEW f, NEW h, NEW S, NEW x, OneChanged(f, h, S, x)
    PROVE  Sum(h) = Sum(f) + h[x] - f[x] /\ Sum(f) \in Int /\ Sum(h) \in Int
<1>0. IsFiniteSet(S) /\ f \in [S -> Int] /\ h \in [S -> Int] /\ x \in S
    BY DEF OneChanged
<1>1. \A y \in S : f[y] \in Int /\ h[y] \in Int
    BY <1>0
<1>2. DOMAIN f = S /\ DOMAIN h = S
    BY <1>0
<1>3. SumOver(h, S) = SumOver(f, S) + h[x] - f[x]
  <2>1. \A y \in S \ {x} : h[y] = f[y]
      BY DEF OneChanged
  <2> QED
      BY <1>0, <1>1, <2>1, SumOverChange
<1> QED
    BY <1>0, <1>2, <1>3, IntSum, SumIsOverDomain

LessEach(k, f, h, S) ==
    /\ IsFiniteSet(S) /\ f \in [S -> Int] /\ h \in [S -> Int] /\ k \in [S -> Int]
    /\ \A y \in S : k[y] = f[y] - h[y]

LEMMA LessSum ==
    ASSUME NEW k, NEW f, NEW h, NEW S, LessEach(k, f, h, S)
    PROVE  Sum(k) = Sum(f) - Sum(h) /\ Sum(f) \in Int /\ Sum(h) \in Int
<1>0. IsFiniteSet(S) /\ f \in [S -> Int] /\ h \in [S -> Int] /\ k \in [S -> Int]
    BY DEF LessEach
<1>1. \A y \in S : k[y] \in Int /\ h[y] \in Int /\ f[y] = k[y] + h[y]
    BY <1>0 DEF LessEach
<1>2. DOMAIN f = S /\ DOMAIN h = S /\ DOMAIN k = S
    BY <1>0
<1>3. SumOver(f, S) = SumOver(k, S) + SumOver(h, S)
    BY <1>0, <1>1, SumOverPlus
<1>4. Sum(f) = Sum(k) + Sum(h) /\ Sum(f) \in Int /\ Sum(h) \in Int /\ Sum(k) \in Int
    BY <1>0, <1>2, <1>3, IntSum, SumIsOverDomain
<1> QED
    BY <1>4

\* Earliest first, an amount is spread over what there is, and no further.
LEMMA InOrderShares ==
    ASSUME NEW S, IsFiniteSet(S), S \subseteq Int, NEW room \in [S -> Int], NEW need \in Nat
    PROVE  /\ InOrder(need, room) \in [S -> Nat]
           /\ \A b \in S : InOrder(need, room)[b] <= NotNegative(room[b])
           /\ Sum(InOrder(need, room)) = Lesser(Sum([b \in S |-> NotNegative(room[b])]), need)
<1> DEFINE open == [b \in S |-> NotNegative(room[b])]
           R == {e \in S \X S : e[1] < e[2]}
           before(b) == {c \in S : c < b}
           left(b) == NotNegative(need - SumOver(open, before(b)))
           parts == [b \in S |-> Lesser(open[b], left(b))]
<1>1. InOrder(need, room) = parts
    BY DEF InOrder, Spread
<1>2. \A b \in S : open[b] \in Nat
    BY DEF NotNegative
<1>3. \A b \in S : {c \in S : <<c, b>> \in R} = before(b)
    OBVIOUS
<1>4. \A b \in S : SumOver(open, before(b)) \in Nat
  <2> SUFFICES ASSUME NEW b \in S PROVE SumOver(open, before(b)) \in Nat
      OBVIOUS
  <2>1. IsFiniteSet(before(b)) /\ \A c \in before(b) : open[c] \in Nat
      BY <1>2, FS_Subset
  <2> HIDE DEF open, before
  <2> QED
      BY <2>1, SumOverNat
<1>5. \A b \in S : parts[b] = Share(need, open, R, S, b)
  <2> SUFFICES ASSUME NEW b \in S PROVE parts[b] = Share(need, open, R, S, b)
      OBVIOUS
  <2>1. Share(need, open, R, S, b) =
            LET l == need - SumOver(open, before(b))
                due == IF l < 0 THEN 0 ELSE l
            IN IF open[b] < due THEN open[b] ELSE due
      BY <1>3 DEF Share
  <2>2. parts[b] = Lesser(open[b], left(b))
      OBVIOUS
  <2> HIDE DEF parts, open, before, R
  <2> QED
      BY <2>1, <2>2 DEF Lesser, NotNegative
<1>6. \A b \in S : left(b) \in Nat
  <2> HIDE DEF open, before
  <2> QED
      BY <1>4 DEF NotNegative
<1>7. \A b \in S : parts[b] \in Nat /\ parts[b] <= open[b]
  <2> SUFFICES ASSUME NEW b \in S PROVE parts[b] \in Nat /\ parts[b] <= open[b]
      OBVIOUS
  <2>1. parts[b] = Lesser(open[b], left(b)) /\ open[b] \in Nat /\ left(b) \in Nat
      BY <1>2, <1>6
  <2> HIDE DEF parts, open, left
  <2> QED
      BY <2>1 DEF Lesser
<1>8. IsOrder(R, S)
  <2>1. \A x, y \in S : <<x, y>> \in R <=> x < y
      OBVIOUS
  <2>2. \A x \in S : x \in Int
      OBVIOUS
  <2> HIDE DEF R
  <2>3. \A x \in S : <<x, x>> \notin R
      BY <2>1, <2>2
  <2>4. \A x, y, z \in S : <<x, y>> \in R /\ <<y, z>> \in R => <<x, z>> \in R
      BY <2>1, <2>2
  <2>5. \A x, y \in S : x # y => <<x, y>> \in R \/ <<y, x>> \in R
      BY <2>1, <2>2
  <2> QED
      BY <2>3, <2>4, <2>5 DEF IsOrder
<1>9. DOMAIN parts = S /\ DOMAIN open = S
    OBVIOUS
<1>10. \A b \in S : open[b] = NotNegative(room[b])
    OBVIOUS
<1>11. parts \in [S -> Nat]
  <2>1. parts = [b \in S |-> parts[b]]
      OBVIOUS
  <2> HIDE DEF parts
  <2> QED
      BY <1>7, <2>1
<1>12. Sum(parts) = IF Sum(open) < need THEN Sum(open) ELSE need
  <2> HIDE DEF parts, open, R
  <2>1. IsSpread(parts, need, open, R, S)
      BY <1>2, <1>5, <1>8 DEF IsSpread
  <2>2. SumOver(parts, S) = IF SumOver(open, S) < need THEN SumOver(open, S) ELSE need
      BY <2>1, SharesAddUp
  <2> QED
      BY <1>9, <2>2, SumIsOverDomain
<1>13. \A b \in S : parts[b] <= NotNegative(room[b])
  <2> HIDE DEF parts, open
  <2> QED
      BY <1>7, <1>10
<1> QED
    BY <1>1, <1>11, <1>12, <1>13 DEF Lesser
=============================================================================
