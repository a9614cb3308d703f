------------------------------- MODULE KeySum -------------------------------
(***************************************************************************)
(* Sums of natural numbers over a finite set of keys, written as the       *)
(* cardinality of a set with one element per unit: key k contributes       *)
(* <<k, 1>>, ..., <<k, f[k]>>.  TLC evaluates it, and its facts - its      *)
(* type, its value when everything is zero, and how it changes when one    *)
(* key's contribution does - follow from what is known of finite sets,     *)
(* without induction over the keys.                                        *)
(***************************************************************************)
EXTENDS Integers, FiniteSets, FiniteSetTheorems, TLAPS

Units(f, k) == {k} \X (1 .. f[k])

AllUnits(f, S) == UNION {Units(f, k) : k \in S}

\* The sum of f[k] for k in S.
SumOver(f, S) == Cardinality(AllUnits(f, S))

-----------------------------------------------------------------------------
\* One key's units are finitely many, as many as its contribution.
LEMMA UnitsCardinality ==
    ASSUME NEW f, NEW k, f[k] \in Nat
    PROVE  /\ IsFiniteSet(Units(f, k))
           /\ Cardinality(Units(f, k)) = f[k]
<1>1. IsFiniteSet({k}) /\ Cardinality({k}) = 1
  BY FS_Singleton
<1>2. IsFiniteSet(1 .. f[k]) /\ Cardinality(1 .. f[k]) = f[k]
  <2>1. 1 \in Int /\ f[k] \in Int
    OBVIOUS
  <2>2. IsFiniteSet(1 .. f[k]) /\ Cardinality(1 .. f[k]) = IF 1 > f[k] THEN 0 ELSE f[k] - 1 + 1
    BY <2>1, FS_Interval
  <2> QED
    BY <2>2
<1>3. IsFiniteSet({k} \X (1 .. f[k])) /\ Cardinality({k} \X (1 .. f[k])) = 1 * f[k]
  BY ONLY <1>1, <1>2, FS_Product, ZenonT(60)
<1> QED
  BY <1>3 DEF Units

\* All units together are finitely many.
LEMMA AllUnitsFinite ==
    ASSUME NEW S, IsFiniteSet(S), NEW f, \A k \in S : f[k] \in Nat
    PROVE  IsFiniteSet(AllUnits(f, S))
<1> DEFINE h == [k \in S |-> Units(f, k)]
           T == {Units(f, k) : k \in S}
<1>1. h \in Surjection(S, T)
  BY DEF Surjection
<1>2. IsFiniteSet(T)
  BY <1>1, FS_Surjection
<1>3. \A t \in T : IsFiniteSet(t)
  BY UnitsCardinality
<1>4. IsFiniteSet(UNION T)
  <2> HIDE DEF T
  <2> QED BY <1>2, <1>3, FS_UNION
<1> QED
  BY <1>4 DEF AllUnits

\* A sum of natural numbers is a natural number.
LEMMA SumType ==
    ASSUME NEW S, IsFiniteSet(S), NEW f, \A k \in S : f[k] \in Nat
    PROVE  SumOver(f, S) \in Nat
BY AllUnitsFinite, FS_CardinalityType DEF SumOver

\* The sum of zeros is zero.
LEMMA SumZero ==
    ASSUME NEW S, NEW f, \A k \in S : f[k] = 0
    PROVE  SumOver(f, S) = 0
<1>1. \A k \in S : Units(f, k) = {}
  BY DEF Units
<1>2. AllUnits(f, S) = {}
  BY <1>1 DEF AllUnits
<1> QED
  BY <1>2, FS_EmptySet DEF SumOver

\* A sum is one key's contribution and that of the rest.
LEMMA SumSplit ==
    ASSUME NEW S, IsFiniteSet(S), NEW f, \A k \in S : f[k] \in Nat, NEW k \in S
    PROVE  SumOver(f, S) = SumOver(f, S \ {k}) + f[k]
<1> DEFINE R == AllUnits(f, S \ {k})
           U == Units(f, k)
<1>1. IsFiniteSet(S \ {k})
  BY FS_Difference
<1>2. IsFiniteSet(R)
  BY <1>1, AllUnitsFinite
<1>3. IsFiniteSet(U) /\ Cardinality(U) = f[k]
  BY UnitsCardinality
<1>4. AllUnits(f, S) = R \cup U
  BY DEF AllUnits
<1>5. R \cap U = {}
  BY DEF AllUnits, Units
<1>6. Cardinality(R \cap U) = 0
  BY <1>5, FS_EmptySet
<1>7. Cardinality(R \cup U) = Cardinality(R) + Cardinality(U) - Cardinality(R \cap U)
  <2> HIDE DEF R, U
  <2> QED BY <1>2, <1>3, FS_Union
<1>8. Cardinality(R) \in Nat
  BY <1>2, FS_CardinalityType
<1> QED
  BY <1>3, <1>4, <1>6, <1>7, <1>8 DEF SumOver

\* Sums of equal contributions are equal.
LEMMA SumEqual ==
    ASSUME NEW S, NEW f, NEW g, \A k \in S : f[k] = g[k]
    PROVE  SumOver(f, S) = SumOver(g, S)
<1>1. \A k \in S : Units(f, k) = Units(g, k)
  BY DEF Units
<1>2. AllUnits(f, S) = AllUnits(g, S)
  BY <1>1 DEF AllUnits
<1> QED
  BY <1>2 DEF SumOver

\* When one key's contribution changes, the sum changes by the difference.
LEMMA SumChange ==
    ASSUME NEW S, IsFiniteSet(S), NEW f, NEW g, NEW k \in S,
           \A j \in S : f[j] \in Nat,
           \A j \in S : g[j] \in Nat,
           \A j \in S \ {k} : g[j] = f[j]
    PROVE  SumOver(g, S) = SumOver(f, S) + g[k] - f[k]
<1>1. SumOver(f, S) = SumOver(f, S \ {k}) + f[k]
  BY SumSplit
<1>2. SumOver(g, S) = SumOver(g, S \ {k}) + g[k]
  BY SumSplit
<1>3. SumOver(f, S \ {k}) = SumOver(g, S \ {k})
  BY SumEqual
<1>4. IsFiniteSet(S \ {k})
  BY FS_Difference
<1>5. SumOver(f, S \ {k}) \in Nat
  BY <1>4, SumType
<1> QED
  BY <1>1, <1>2, <1>3, <1>5

\* A key contributes at most the whole sum.
LEMMA SumBound ==
    ASSUME NEW S, IsFiniteSet(S), NEW f, \A k \in S : f[k] \in Nat, NEW k \in S
    PROVE  f[k] <= SumOver(f, S)
<1>1. SumOver(f, S) = SumOver(f, S \ {k}) + f[k]
  BY SumSplit
<1>2. IsFiniteSet(S \ {k})
  BY FS_Difference
<1>3. SumOver(f, S \ {k}) \in Nat
  BY <1>2, SumType
<1> QED
  BY <1>1, <1>3
=============================================================================
