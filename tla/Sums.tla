-------------------------------- MODULE Sums --------------------------------
(***************************************************************************)
(* Sums of natural numbers over finite sets, for the proofs about sizes    *)
(* and memory.  A sum is defined with a fold, by recursion on subsets,     *)
(* and no induction principle over data can be used with the provers at    *)
(* hand.  So a sum is shown to be a cardinality, of a set with one element *)
(* for each unit that is added, and what is known of cardinalities becomes *)
(* known of sums.                                                          *)
(***************************************************************************)
EXTENDS Integers, FiniteSetsExt, FiniteSetTheorems, WellFoundedInduction, TLAPS

(***************************************************************************)
(* The sum of natural numbers f[x], for x in S, is the number of these     *)
(* pairs: one for every unit of every f[x].                                *)
(***************************************************************************)
Units(f, S) == {u \in S \X Nat : u[2] < f[u[1]]}

\* The element that the folds of the community modules take first.
pick(s) == CHOOSE x \in s : TRUE

\* g adds up f the way MapThenFoldSet does: one picked element at a time.
Adds(g, f, S) ==
    g = [s \in SUBSET S |-> IF s = {} THEN 0 ELSE f[pick(s)] + g[s \ {pick(s)}]]

\* An element of weight n has n units.
LEMMA UnitsOfOne ==
    ASSUME NEW x, NEW f, f[x] \in Nat
    PROVE  IsFiniteSet(Units(f, {x})) /\ Cardinality(Units(f, {x})) = f[x]
<1>1. PICK n \in Nat : n = f[x]
  OBVIOUS
<1>2. Units(f, {x}) = {x} \X (0 .. (n - 1))
  BY <1>1 DEF Units
<1>3. IsFiniteSet(0 .. (n - 1)) /\ Cardinality(0 .. (n - 1)) = n
  <2>1. PICK m \in Int : m = n - 1
    BY <1>1
  <2>2. IsFiniteSet(0 .. m) /\ Cardinality(0 .. m) = IF 0 > m THEN 0 ELSE m - 0 + 1
    <3>1. 0 \in Int
      OBVIOUS
    <3> QED BY <3>1, FS_Interval
  <2> QED BY <2>1, <2>2
<1>4. IsFiniteSet({x}) /\ Cardinality({x}) = 1
  BY FS_Singleton
<1>5. IsFiniteSet({x} \X (0 .. (n - 1)))
      /\ Cardinality({x} \X (0 .. (n - 1))) = Cardinality({x}) * n
  BY <1>3, <1>4, FS_Product
<1>6. Cardinality({x}) * n = n
  BY <1>4
<1> QED BY <1>1, <1>2, <1>5, <1>6, Zenon

\* Taking an element out of a set takes its units away, and no others.
LEMMA UnitsAdd ==
    ASSUME NEW S, NEW x \in S, NEW f, f[x] \in Nat, IsFiniteSet(Units(f, S \ {x}))
    PROVE  /\ IsFiniteSet(Units(f, S))
           /\ Cardinality(Units(f, S)) = f[x] + Cardinality(Units(f, S \ {x}))
<1>1. Units(f, S) = Units(f, S \ {x}) \cup Units(f, {x})
  BY DEF Units
<1>2. Units(f, S \ {x}) \cap Units(f, {x}) = {}
  BY DEF Units
<1>3. IsFiniteSet(Units(f, {x})) /\ Cardinality(Units(f, {x})) = f[x]
  BY UnitsOfOne
<1>4. Cardinality(Units(f, S \ {x})) \in Nat
  BY FS_CardinalityType
<1>5. /\ IsFiniteSet(Units(f, S \ {x}) \cup Units(f, {x}))
      /\ Cardinality(Units(f, S \ {x}) \cup Units(f, {x})) =
            Cardinality(Units(f, S \ {x})) + Cardinality(Units(f, {x}))
              - Cardinality(Units(f, S \ {x}) \cap Units(f, {x}))
  BY <1>3, FS_Union
<1>6. Cardinality(Units(f, S \ {x}) \cap Units(f, {x})) = 0
  BY <1>2, FS_EmptySet
<1> QED BY <1>1, <1>3, <1>4, <1>5, <1>6

\* Finitely many natural numbers have finitely many units.
LEMMA UnitsFinite ==
    ASSUME NEW S, IsFiniteSet(S), NEW f, \A x \in S : f[x] \in Nat
    PROVE  IsFiniteSet(Units(f, S))
<1> DEFINE bad == {s \in SUBSET S : ~IsFiniteSet(Units(f, s))}
<1> SUFFICES ASSUME bad # {} PROVE FALSE
  OBVIOUS
<1>1. bad \subseteq FiniteSubsetsOf(S)
  BY FS_Subset DEF FiniteSubsetsOf
<1>2. PICK s \in bad : \A t \in bad : <<t, s>> \notin StrictSubsetOrdering(S)
  <2> HIDE DEF bad
  <2>1. IsWellFoundedOn(StrictSubsetOrdering(S), FiniteSubsetsOf(S))
    BY FS_StrictSubsetOrderingWellFounded
  <2> QED BY <1>1, <2>1, WFMin
<1>3. \A t \in SUBSET s : t # s => t \notin bad
  BY <1>2 DEF StrictSubsetOrdering
<1>4. s # {}
  <2>1. Units(f, {}) = {}
    BY DEF Units
  <2> QED BY <2>1, FS_EmptySet
<1>5. PICK x \in s : TRUE
  BY <1>4
<1>6. IsFiniteSet(Units(f, s \ {x}))
  BY <1>3, <1>5
<1>7. f[x] \in Nat
  BY <1>5
<1>8. IsFiniteSet(Units(f, s))
  BY <1>5, <1>6, <1>7, UnitsAdd
<1> QED BY <1>8

(***************************************************************************)
(* Whatever adds up f arrives at the number of its units: by induction on  *)
(* the subsets of S, on a smallest one for which it does not.              *)
(***************************************************************************)
LEMMA AddsUnits ==
    ASSUME NEW S, IsFiniteSet(S), NEW f, \A x \in S : f[x] \in Nat, NEW g, Adds(g, f, S)
    PROVE  g[S] = Cardinality(Units(f, S))
<1> DEFINE bad == {s \in SUBSET S : g[s] # Cardinality(Units(f, s))}
<1> SUFFICES ASSUME bad # {} PROVE FALSE
  OBVIOUS
<1>1. bad \subseteq FiniteSubsetsOf(S)
  BY FS_Subset DEF FiniteSubsetsOf
<1>2. PICK s \in bad : \A t \in bad : <<t, s>> \notin StrictSubsetOrdering(S)
  <2> HIDE DEF bad
  <2>1. IsWellFoundedOn(StrictSubsetOrdering(S), FiniteSubsetsOf(S))
    BY FS_StrictSubsetOrderingWellFounded
  <2> QED BY <1>1, <2>1, WFMin
<1>3. \A t \in SUBSET s : t # s => t \notin bad
  BY <1>2 DEF StrictSubsetOrdering
<1>4. s # {}
  <2>1. Units(f, {}) = {}
    BY DEF Units
  <2>2. g[{}] = 0
    BY DEF Adds
  <2> QED BY <2>1, <2>2, FS_EmptySet
<1>5. pick(s) \in s
  BY <1>4 DEF pick
<1>6. g[s] = f[pick(s)] + g[s \ {pick(s)}]
  BY <1>4 DEF Adds
<1>7. g[s \ {pick(s)}] = Cardinality(Units(f, s \ {pick(s)}))
  BY <1>3, <1>5
<1>8. IsFiniteSet(Units(f, s \ {pick(s)}))
  <2>1. IsFiniteSet(s \ {pick(s)})
    BY FS_Subset
  <2> QED BY <2>1, UnitsFinite
<1>9. Cardinality(Units(f, s)) = f[pick(s)] + Cardinality(Units(f, s \ {pick(s)}))
  BY <1>5, <1>8, UnitsAdd
<1> QED BY <1>6, <1>7, <1>9

(***************************************************************************)
(* There is a function that adds up f, so the CHOOSE in MapThenFoldSet has *)
(* one to choose.                                                          *)
(***************************************************************************)
LEMMA UnitsAdds ==
    ASSUME NEW S, IsFiniteSet(S), NEW f, \A x \in S : f[x] \in Nat
    PROVE  Adds([s \in SUBSET S |-> Cardinality(Units(f, s))], f, S)
<1> SUFFICES ASSUME NEW s \in SUBSET S
             PROVE Cardinality(Units(f, s)) =
                     IF s = {} THEN 0 ELSE f[pick(s)] + Cardinality(Units(f, s \ {pick(s)}))
  <2>1. \A s \in SUBSET S : s \ {pick(s)} \in SUBSET S
    OBVIOUS
  <2> QED BY <2>1 DEF Adds
<1>1. CASE s = {}
  <2>1. Units(f, {}) = {}
    BY DEF Units
  <2> QED BY <1>1, <2>1, FS_EmptySet
<1>2. CASE s # {}
  <2>1. pick(s) \in s
    BY <1>2 DEF pick
  <2>2. IsFiniteSet(Units(f, s \ {pick(s)}))
    <3>1. IsFiniteSet(s \ {pick(s)})
      BY FS_Subset
    <3> QED BY <3>1, UnitsFinite
  <2> QED BY <1>2, <2>1, <2>2, UnitsAdd
<1> QED BY <1>1, <1>2

\* The sum of f over S, by the definition of the community modules.
SumOf(f, S) == MapThenSumSet(LAMBDA x : f[x], S)

(***************************************************************************)
(* The sum is the number of units, which makes the theorems about          *)
(* cardinality theorems about sums.                                        *)
(***************************************************************************)
LEMMA SumIsCardinality ==
    ASSUME NEW S, IsFiniteSet(S), NEW f, \A x \in S : f[x] \in Nat
    PROVE  SumOf(f, S) = Cardinality(Units(f, S)) /\ SumOf(f, S) \in Nat
<1>1. \E g : Adds(g, f, S)
  BY UnitsAdds
<1>2. SumOf(f, S) = (CHOOSE g : Adds(g, f, S))[S]
  BY DEF SumOf, MapThenSumSet, MapThenFoldSet, Adds, pick
<1>3. Adds(CHOOSE g : Adds(g, f, S), f, S)
  BY <1>1
<1>4. SumOf(f, S) = Cardinality(Units(f, S))
  BY <1>2, <1>3, AddsUnits
<1> QED BY <1>4, UnitsFinite, FS_CardinalityType

LEMMA SumEmpty == ASSUME NEW f PROVE SumOf(f, {}) = 0
<1>1. Units(f, {}) = {}
  BY DEF Units
<1>2. SumOf(f, {}) = Cardinality(Units(f, {}))
  BY FS_EmptySet, SumIsCardinality
<1> QED BY <1>1, <1>2, FS_EmptySet

\* What taking one element out, or several, does to a sum.
LEMMA SumRemove ==
    ASSUME NEW S, IsFiniteSet(S), NEW f, \A x \in S : f[x] \in Nat, NEW x \in S
    PROVE  SumOf(f, S) = f[x] + SumOf(f, S \ {x}) /\ SumOf(f, S \ {x}) \in Nat
<1>1. IsFiniteSet(S \ {x})
  BY FS_Subset
<1>2. SumOf(f, S) = Cardinality(Units(f, S))
  BY SumIsCardinality
<1>3. SumOf(f, S \ {x}) = Cardinality(Units(f, S \ {x})) /\ SumOf(f, S \ {x}) \in Nat
  BY <1>1, SumIsCardinality
<1>4. IsFiniteSet(Units(f, S \ {x}))
  BY <1>1, UnitsFinite
<1>5. f[x] \in Nat
  OBVIOUS
<1>6. Cardinality(Units(f, S)) = f[x] + Cardinality(Units(f, S \ {x}))
  BY <1>4, <1>5, UnitsAdd
<1> QED BY <1>2, <1>3, <1>6

LEMMA SumSubset ==
    ASSUME NEW S, IsFiniteSet(S), NEW f, \A x \in S : f[x] \in Nat, NEW T \in SUBSET S
    PROVE  SumOf(f, T) <= SumOf(f, S)
<1>1. IsFiniteSet(T)
  BY FS_Subset
<1>2. SumOf(f, S) = Cardinality(Units(f, S)) /\ SumOf(f, T) = Cardinality(Units(f, T))
  BY <1>1, SumIsCardinality
<1>3. Units(f, T) \in SUBSET Units(f, S)
  BY DEF Units
<1> QED BY <1>2, <1>3, UnitsFinite, FS_Subset

\* A sum depends on nothing but the values that are added.
LEMMA SumAgree ==
    ASSUME NEW S, IsFiniteSet(S), NEW f, \A x \in S : f[x] \in Nat,
           NEW h, \A x \in S : h[x] = f[x]
    PROVE  SumOf(h, S) = SumOf(f, S)
<1>1. Units(h, S) = Units(f, S)
  BY DEF Units
<1> QED BY <1>1, SumIsCardinality

\* So does a sum that a model writes as a recursive function of its own.
LEMMA AddsSum ==
    ASSUME NEW S, IsFiniteSet(S), NEW f, \A x \in S : f[x] \in Nat, NEW g, Adds(g, f, S)
    PROVE  g[S] = SumOf(f, S)
  BY AddsUnits, SumIsCardinality

(***************************************************************************)
(* Every nonempty set of natural numbers has a least one: what takes the   *)
(* place of induction in the proofs that use it.                           *)
(***************************************************************************)
LEMMA LeastNatural ==
    ASSUME NEW N \in SUBSET Nat, N # {}
    PROVE  \E n \in N : \A m \in N : n <= m
<1>1. PICK n \in N : \A m \in N : <<m, n>> \notin OpToRel(<, Nat)
  BY NatLessThanWellFounded, WFMin
<1>2. \A u, v \in Nat : <<u, v>> \notin OpToRel(<, Nat) => v <= u
  BY DEF OpToRel
<1> QED BY <1>1, <1>2

\* Renaming the elements does not change the sum.
LEMMA SumBijection ==
    ASSUME NEW S, IsFiniteSet(S), NEW T, NEW h \in Bijection(T, S),
           NEW f, \A x \in S : f[x] \in Nat, NEW g, \A y \in T : g[y] = f[h[y]]
    PROVE  /\ IsFiniteSet(T) /\ Cardinality(T) = Cardinality(S)
           /\ SumOf(g, T) = SumOf(f, S)
<1>1. /\ h \in [T -> S] /\ \A y, z \in T : h[y] = h[z] => y = z
      /\ \A x \in S : \E y \in T : h[y] = x
  BY DEF Bijection, Injection, Surjection, IsInjective
<1>2. IsFiniteSet(T) /\ Cardinality(T) = Cardinality(S)
  <2>1. h \in Injection(T, S) /\ h \in Surjection(T, S)
    BY DEF Bijection
  <2> QED BY <2>1, FS_Injection
<1>3. \A y \in T : g[y] \in Nat
  BY <1>1
<1>4. SumOf(g, T) = Cardinality(Units(g, T)) /\ SumOf(f, S) = Cardinality(Units(f, S))
  BY <1>2, <1>3, SumIsCardinality
<1>5. ExistsBijection(Units(g, T), Units(f, S))
  <2> DEFINE m == [u \in Units(g, T) |-> <<h[u[1]], u[2]>>]
  <2>1. \A u \in Units(g, T) : /\ u[1] \in T /\ u[2] \in Nat /\ u = <<u[1], u[2]>>
                               /\ u[2] < f[h[u[1]]]
    BY DEF Units
  <2>2. m \in [Units(g, T) -> Units(f, S)]
    BY <1>1, <2>1 DEF Units
  <2>3. \A u, v \in Units(g, T) : m[u] = m[v] => u = v
    BY <1>1, <2>1
  <2>4. \A w \in Units(f, S) : \E u \in Units(g, T) : m[u] = w
    <3> SUFFICES ASSUME NEW w \in Units(f, S) PROVE \E u \in Units(g, T) : m[u] = w
      OBVIOUS
    <3>1. w[1] \in S /\ w[2] \in Nat /\ w = <<w[1], w[2]>> /\ w[2] < f[w[1]]
      BY DEF Units
    <3>2. PICK y \in T : h[y] = w[1]
      BY <1>1, <3>1
    <3>3. <<y, w[2]>> \in Units(g, T)
      BY <3>1, <3>2 DEF Units
    <3>4. m[<<y, w[2]>>] = w
      BY <3>1, <3>2, <3>3
    <3> QED BY <3>3, <3>4
  <2> HIDE DEF m
  <2> QED BY <2>2, <2>3, <2>4 DEF ExistsBijection, Bijection, Injection, Surjection, IsInjective
<1>6. IsFiniteSet(Units(g, T))
  BY <1>2, <1>3, UnitsFinite
<1> QED BY <1>2, <1>4, <1>5, <1>6, FS_Bijection

=============================================================================
