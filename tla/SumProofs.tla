----------------------------- MODULE SumProofs ------------------------------
(***************************************************************************)
(* What the proofs about budgets use of the library's sum over a set,      *)
(* SumFunctionOnSet, for functions whose values are natural numbers.       *)
(*                                                                         *)
(* The library defines the sum by a recursive function, so the first thing *)
(* to show is that a function with that recursion exists.  It does: it     *)
(* counts the pairs of an element and a number up to its value.  The sum   *)
(* is then that cardinality, and what finite sets are known to do, sums do.*)
(***************************************************************************)
EXTENDS Functions, FiniteSetTheorems, TLAPS

\* f's values on S are natural numbers, and there are finitely many of them.
Summable(f, S) == IsFiniteSet(S) /\ \A x \in S : f[x] \in Nat

\* One pair for every unit that the sum of f over S counts.
Units(f, S) == UNION {{x} \X (1 .. f[x]) : x \in S}

LEMMA UnitsAre == \A f, S, u : u \in Units(f, S) <=> u \in S \X Nat /\ u[2] \in 1 .. f[u[1]]
BY DEF Units

\* The units of one element are as many as its value.
LEMMA UnitsOfOne ==
  ASSUME NEW f, NEW x, f[x] \in Nat
  PROVE  IsFiniteSet({x} \X (1 .. f[x])) /\ Cardinality({x} \X (1 .. f[x])) = f[x]
<1>1. IsFiniteSet({x}) /\ Cardinality({x}) = 1
  BY FS_Singleton
<1>2. IsFiniteSet(1 .. f[x]) /\ Cardinality(1 .. f[x]) = f[x]
  BY FS_Interval
<1>3. 1 * f[x] = f[x]
  OBVIOUS
<1>4. /\ IsFiniteSet({x} \X (1 .. f[x]))
      /\ Cardinality({x} \X (1 .. f[x])) = Cardinality({x}) * Cardinality(1 .. f[x])
  BY <1>1, <1>2, FS_Product
<1>. QED
  BY <1>1, <1>2, <1>3, <1>4

\* The units of a finite set are finite.
LEMMA UnitsAreFinite ==
  ASSUME NEW f, NEW S, Summable(f, S)
  PROVE  IsFiniteSet(Units(f, S))
<1>. DEFINE Of == [x \in S |-> {x} \X (1 .. f[x])]
            All == {{x} \X (1 .. f[x]) : x \in S}
<1>1. Of \in Surjection(S, All)
  BY DEF Surjection
<1>2. IsFiniteSet(All)
  BY <1>1, FS_Surjection DEF Summable
<1>3. \A T \in All : IsFiniteSet(T)
  BY UnitsOfOne DEF Summable
<1>. QED
  BY <1>2, <1>3, FS_UNION DEF Units

\* Counted apart, the units of two disjoint sets are the units of their union.
LEMMA UnitsOfUnion ==
  ASSUME NEW f, NEW S, NEW T, Summable(f, S), Summable(f, T), S \cap T = {}
  PROVE  Cardinality(Units(f, S \cup T)) = Cardinality(Units(f, S)) + Cardinality(Units(f, T))
<1>1. Units(f, S \cup T) = Units(f, S) \cup Units(f, T)
  BY DEF Units
<1>2. Units(f, S) \cap Units(f, T) = {}
  BY UnitsAre
<1>3. IsFiniteSet(Units(f, S)) /\ IsFiniteSet(Units(f, T))
  BY UnitsAreFinite
<1>4. Cardinality(Units(f, S)) \in Nat /\ Cardinality(Units(f, T)) \in Nat
  BY <1>3, FS_CardinalityType
<1>. DEFINE A == Units(f, S)
            B == Units(f, T)
<1>5. Cardinality(A \cup B) = (Cardinality(A) + Cardinality(B)) - Cardinality(A \cap B)
  <2>. HIDE DEF A, B
  <2>1. IsFiniteSet(A) /\ IsFiniteSet(B)
    BY <1>3 DEF A, B
  <2>2. Cardinality(A) \in Nat /\ Cardinality(B) \in Nat /\ Cardinality(A \cap B) \in Nat
    BY <2>1, FS_CardinalityType, FS_Intersection
  <2>. QED
    BY <2>1, <2>2, FS_Union
<1>6. Cardinality(A \cap B) = 0
  BY <1>2, FS_EmptySet
<1>7. Units(f, S \cup T) = A \cup B
  BY <1>1
<1>. HIDE DEF A, B
<1>8. Cardinality(A) \in Nat /\ Cardinality(B) \in Nat
  BY <1>4 DEF A, B
<1>9. Cardinality(A \cup B) = Cardinality(A) + Cardinality(B)
  BY <1>5, <1>6, <1>8
<1>. QED
  BY <1>7, <1>9 DEF A, B

\* One element more adds its value.
LEMMA UnitsWithout ==
  ASSUME NEW f, NEW S, Summable(f, S), NEW x \in S
  PROVE  Cardinality(Units(f, S)) = f[x] + Cardinality(Units(f, S \ {x}))
<1>1. Summable(f, {x}) /\ Summable(f, S \ {x})
  BY FS_Singleton, FS_Subset DEF Summable
<1>2. S = {x} \cup (S \ {x}) /\ {x} \cap (S \ {x}) = {}
  OBVIOUS
<1>3. Cardinality(Units(f, {x})) = f[x]
  <2>1. Units(f, {x}) = {x} \X (1 .. f[x])
    BY DEF Units
  <2>. QED
    BY <2>1, UnitsOfOne DEF Summable
<1>. QED
  BY <1>1, <1>2, <1>3, UnitsOfUnion

-----------------------------------------------------------------------------

Some(s) == CHOOSE x \in s : TRUE

\* The recursion of the sum: g gives every subset of S its sum.
Sums(f, S, g) ==
  g = [s \in SUBSET S |-> IF s = {} THEN 0 ELSE f[Some(s)] + g[s \ {Some(s)}]]

\* The sum is the number of units.
LEMMA SumIsUnits ==
  ASSUME NEW f, NEW S, Summable(f, S)
  PROVE  SumFunctionOnSet(f, S) = Cardinality(Units(f, S))
<1>. DEFINE g == [s \in SUBSET S |-> Cardinality(Units(f, s))]
            h == CHOOSE e : Sums(f, S, e)
<1>1. SumFunctionOnSet(f, S) = h[S]
  BY DEF SumFunctionOnSet, FoldFunctionOnSet, MapThenFoldSet, Sums, Some
<1>2. \A s \in SUBSET S : Summable(f, s)
  BY FS_Subset DEF Summable
<1>3. \A s \in SUBSET S : s # {} =>
        Cardinality(Units(f, s)) = f[Some(s)] + Cardinality(Units(f, s \ {Some(s)}))
  <2>1. \A s \in SUBSET S : s # {} => Some(s) \in s
    BY DEF Some
  <2>. QED
    BY <1>2, <2>1, UnitsWithout
<1>4. Cardinality(Units(f, {})) = 0
  BY FS_EmptySet DEF Units
<1>5. Sums(f, S, g)
  <2>1. \A s \in SUBSET S : g[s] = IF s = {} THEN 0 ELSE f[Some(s)] + g[s \ {Some(s)}]
    BY <1>3, <1>4
  <2>. QED
    BY <2>1 DEF Sums
<1>6. Sums(f, S, h)
  BY <1>5
<1>. HIDE DEF h
<1>7. \A s \in SUBSET S : h[s] = IF s = {} THEN 0 ELSE f[Some(s)] + h[s \ {Some(s)}]
  BY <1>6 DEF Sums
<1>8. ASSUME NEW s \in SUBSET S, h[s] # Cardinality(Units(f, s))
      PROVE  FALSE
  <2>. DEFINE Wrong == {r \in SUBSET S : h[r] # Cardinality(Units(f, r))}
  <2>1. Wrong \subseteq FiniteSubsetsOf(S) /\ Wrong # {}
    BY <1>2, <1>8 DEF FiniteSubsetsOf, Summable
  <2>2. PICK r \in Wrong : \A q \in Wrong : <<q, r>> \notin StrictSubsetOrdering(S)
    <3>. HIDE DEF Wrong
    <3>. QED
      BY <2>1, FS_StrictSubsetOrderingWellFounded, WFMin
  <2>3. r # {}
    BY <1>4, <1>7
  <2>4. r \ {Some(r)} \in SUBSET S /\ r \ {Some(r)} # r
    BY <2>3 DEF Some
  <2>5. <<r \ {Some(r)}, r>> \in StrictSubsetOrdering(S)
    BY <2>4 DEF StrictSubsetOrdering
  <2>6. h[r \ {Some(r)}] = Cardinality(Units(f, r \ {Some(r)}))
    BY <2>2, <2>4, <2>5
  <2>. QED
    BY <1>3, <1>7, <2>3, <2>6
<1>. QED
  BY <1>1, <1>8

-----------------------------------------------------------------------------
(* The facts about sums that the budgets rest on.                          *)

LEMMA SumOfNone == ASSUME NEW f PROVE SumFunctionOnSet(f, {}) = 0
BY SumIsUnits, FS_EmptySet DEF Units, Summable

LEMMA SumOfZeros ==
  ASSUME NEW f, NEW S, IsFiniteSet(S), \A x \in S : f[x] = 0
  PROVE  Summable(f, S) /\ SumFunctionOnSet(f, S) = 0
<1>1. Summable(f, S)
  BY DEF Summable
<1>2. Units(f, S) = {}
  <2>1. 1 .. 0 = {}
    OBVIOUS
  <2>. QED
    BY <2>1 DEF Units
<1>. QED
  BY <1>1, <1>2, SumIsUnits, FS_EmptySet

LEMMA SumIsNat ==
  ASSUME NEW f, NEW S, Summable(f, S)
  PROVE  SumFunctionOnSet(f, S) \in Nat
BY SumIsUnits, UnitsAreFinite, FS_CardinalityType

LEMMA SumOfUnion ==
  ASSUME NEW f, NEW S, NEW T, Summable(f, S), Summable(f, T), S \cap T = {}
  PROVE  SumFunctionOnSet(f, S \cup T) = SumFunctionOnSet(f, S) + SumFunctionOnSet(f, T)
<1>1. Summable(f, S \cup T)
  BY FS_Union DEF Summable
<1>. QED
  BY <1>1, SumIsUnits, UnitsOfUnion

LEMMA SumWithout ==
  ASSUME NEW f, NEW S, Summable(f, S), NEW x \in S
  PROVE  /\ Summable(f, S \ {x})
         /\ SumFunctionOnSet(f, S) = f[x] + SumFunctionOnSet(f, S \ {x})
<1>1. Summable(f, S \ {x})
  BY FS_Subset DEF Summable
<1>. QED
  BY <1>1, SumIsUnits, UnitsWithout

\* A sum is no larger than one whose terms are at least as large.
LEMMA SumIsMonotone ==
  ASSUME NEW f, NEW g, NEW S, NEW T, Summable(f, S), Summable(g, T),
         S \subseteq T, \A x \in S : f[x] <= g[x]
  PROVE  SumFunctionOnSet(f, S) <= SumFunctionOnSet(g, T)
<1>1. ASSUME NEW u \in Units(f, S)
      PROVE  u \in Units(g, T)
  <2>1. PICK x \in S : u \in {x} \X (1 .. f[x])
    BY <1>1 DEF Units
  <2>2. f[x] \in Nat /\ g[x] \in Nat /\ f[x] <= g[x]
    BY DEF Summable
  <2>3. 1 .. f[x] \subseteq 1 .. g[x]
    BY <2>2
  <2>. QED
    BY <2>1, <2>3 DEF Units
<1>2. Units(f, S) \in SUBSET Units(g, T)
  BY <1>1
<1>. QED
  BY <1>2, SumIsUnits, UnitsAreFinite, FS_Subset

LEMMA SumOfEqual ==
  ASSUME NEW f, NEW g, NEW S, Summable(f, S), \A x \in S : f[x] = g[x]
  PROVE  SumFunctionOnSet(f, S) = SumFunctionOnSet(g, S)
<1>1. Summable(g, S)
  BY DEF Summable
<1>2. Units(f, S) = Units(g, S)
  BY DEF Units
<1>. QED
  BY <1>1, <1>2, SumIsUnits

\* A change of one term changes the sum by as much.
LEMMA SumWithOther ==
  ASSUME NEW f, NEW g, NEW S, Summable(f, S), NEW x \in S, g[x] \in Nat,
         \A y \in S \ {x} : g[y] = f[y]
  PROVE  /\ Summable(g, S)
         /\ SumFunctionOnSet(g, S) = SumFunctionOnSet(f, S) + (g[x] - f[x])
<1>1. Summable(g, S)
  BY DEF Summable
<1>2. SumFunctionOnSet(f, S \ {x}) = SumFunctionOnSet(g, S \ {x})
  BY SumWithout, SumOfEqual
<1>3. SumFunctionOnSet(f, S \ {x}) \in Nat /\ f[x] \in Nat
  BY SumWithout, SumIsNat DEF Summable
<1>. QED
  BY <1>1, <1>2, <1>3, SumWithout
=============================================================================
