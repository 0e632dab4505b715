-------------------------- MODULE CapacityTheorems --------------------------
(***************************************************************************)
(* Facts about the arithmetic of CapacityMath, for every width and scale.  *)
(***************************************************************************)
EXTENDS CapacityMath, FiniteSetTheorems, TLAPS

-----------------------------------------------------------------------------
(* Sums as sets of units                                                   *)

(* The units of a finite set of members form a finite set.                 *)
LEMMA UnitsFinite ==
    ASSUME NEW f, NEW S, IsFiniteSet(S)
    PROVE  IsFiniteSet(UnitsHeld(f, S)) /\ UnitSum(f, S) \in Nat
<1>1. IsFiniteSet(1..MaxU64)
    BY FS_Interval, WidthAssumption
<1>2. IsFiniteSet(S \X (1..MaxU64))
    BY <1>1, FS_Product
<1>3. UnitsHeld(f, S) \in SUBSET (S \X (1..MaxU64))
    BY DEF UnitsHeld
<1>4. IsFiniteSet(UnitsHeld(f, S))
    BY <1>2, <1>3, FS_Subset
<1> QED
    BY <1>4, FS_CardinalityType DEF UnitSum

(* Nobody holds nothing.                                                   *)
LEMMA UnitSumEmpty == ASSUME NEW f PROVE UnitSum(f, {}) = 0
<1>1. UnitsHeld(f, {}) = {}
    BY DEF UnitsHeld
<1> QED
    BY <1>1, FS_EmptySet DEF UnitSum

(* A sum reads its function only at the members.                           *)
LEMMA UnitSumLocal ==
    ASSUME NEW f, NEW g, NEW S, \A i \in S : f[i] = g[i]
    PROVE  UnitSum(f, S) = UnitSum(g, S)
<1>1. UnitsHeld(f, S) = UnitsHeld(g, S)
    BY DEF UnitsHeld
<1> QED
    BY <1>1 DEF UnitSum

(* Fewer members hold no more: a release never raises a sum.               *)
LEMMA UnitSumMonotone ==
    ASSUME NEW f, NEW T, IsFiniteSet(T), NEW S \in SUBSET T
    PROVE  UnitSum(f, S) <= UnitSum(f, T)
<1>1. UnitsHeld(f, S) \in SUBSET UnitsHeld(f, T)
    BY DEF UnitsHeld
<1>2. IsFiniteSet(UnitsHeld(f, T))
    BY UnitsFinite
<1> QED
    BY <1>1, <1>2, FS_Subset DEF UnitSum

(* One member holds what its function says.                                *)
LEMMA UnitSumOne ==
    ASSUME NEW f, NEW i, f[i] \in U64
    PROVE  UnitSum(f, {i}) = f[i]
<1>1. UnitsHeld(f, {i}) = {i} \X (1..f[i])
    BY WidthAssumption DEF UnitsHeld, U64
<1>2. IsFiniteSet(1..f[i]) /\ Cardinality(1..f[i]) = f[i]
  <2>1. f[i] \in Nat
      BY WidthAssumption DEF U64
  <2>2. 1 > f[i] => f[i] = 0
      BY <2>1
  <2> QED
      BY <2>1, <2>2, FS_Interval
<1>3. IsFiniteSet({i}) /\ Cardinality({i}) = 1
    BY FS_Singleton
<1>4. Cardinality({i} \X (1..f[i])) = 1 * f[i]
    BY <1>2, <1>3, FS_Product
<1>5. f[i] \in Nat
    BY WidthAssumption DEF U64
<1>6. 1 * f[i] = f[i]
    BY <1>5
<1>7. Cardinality(UnitsHeld(f, {i})) = f[i]
    BY <1>1, <1>4, <1>6, Zenon
<1> QED
    BY <1>7 DEF UnitSum

(* A new member adds exactly what it holds: the effect of a grant.         *)
LEMMA UnitSumAdd ==
    ASSUME NEW f, NEW S, IsFiniteSet(S), NEW i, i \notin S, f[i] \in U64
    PROVE  UnitSum(f, S \cup {i}) = UnitSum(f, S) + f[i]
<1> DEFINE A == UnitsHeld(f, S)
           B == UnitsHeld(f, {i})
<1>1. UnitsHeld(f, S \cup {i}) = A \cup B
    BY DEF UnitsHeld
<1>2. A \cap B = {}
    BY DEF UnitsHeld
<1>3. IsFiniteSet(A) /\ IsFiniteSet(B)
    BY UnitsFinite, FS_Singleton
<1>4. Cardinality(A) \in Nat /\ Cardinality(B) \in Nat
    BY <1>3, FS_CardinalityType
<1>5. Cardinality(A \cup B) = Cardinality(A) + Cardinality(B)
  <2>1. Cardinality(A \cap B) = 0
      BY <1>2, FS_EmptySet
  <2> HIDE DEF A, B
  <2>2. Cardinality(A \cup B)
          = Cardinality(A) + Cardinality(B) - Cardinality(A \cap B)
      BY <1>3, FS_Union
  <2> QED
      BY <2>1, <2>2, <1>4
<1>6. Cardinality(B) = f[i]
    BY UnitSumOne DEF UnitSum
<1> QED
    BY <1>1, <1>5, <1>6 DEF UnitSum

-----------------------------------------------------------------------------
(* Availability                                                            *)

(* A saturating subtraction never exceeds the true difference.             *)
LEMMA SatSubBound ==
    ASSUME NEW a \in Nat, NEW b \in Nat
    PROVE  SatSub(a, b) \in Nat /\ (SatSub(a, b) = 0 \/ SatSub(a, b) + b = a)
BY DEF SatSub

(* A cap only lowers availability.                                         *)
LEMMA CappedBound ==
    ASSUME NEW available \in Nat, NEW cap \in Nat, NEW reserved \in Nat
    PROVE  /\ CappedAvailable(available, cap, reserved) \in Nat
           /\ CappedAvailable(available, cap, reserved) <= available
BY DEF CappedAvailable

(* The product of two naturals is one.                                     *)
LEMMA NatProduct == ASSUME NEW a \in Nat, NEW b \in Nat PROVE a * b \in Nat
OBVIOUS

(* A share in parts per million is a natural number.                       *)
LEMMA PpmValueNat ==
    ASSUME NEW total \in Nat, NEW ppm \in Nat
    PROVE  PpmValue(total, ppm) \in Nat
<1>1. total \div PpmScale \in Nat /\ total % PpmScale \in Nat
    BY PpmScaleAssumption
<1>2. (total \div PpmScale) * ppm \in Nat
    BY <1>1, NatProduct
<1>3. (total % PpmScale) * ppm \in Nat
    BY <1>1, NatProduct
<1> DEFINE n == (total % PpmScale) * ppm
<1>4. n \div PpmScale \in Nat
  <2> HIDE DEF n
  <2>1. n \in Nat
      BY <1>3 DEF n
  <2> QED
      BY <2>1, PpmScaleAssumption
<1> QED
    BY <1>2, <1>4 DEF PpmValue

(* A ceiling division of naturals stays below its dividend.                *)
LEMMA CeilDivBound ==
    ASSUME NEW a \in Nat, NEW b \in Nat \ {0}
    PROVE  CeilDiv(a, b) \in Nat /\ CeilDiv(a, b) <= a
<1> DEFINE q == a \div b
           r == a % b
<1>1. q \in Nat /\ r \in Nat /\ r < b /\ a = b * q + r
    OBVIOUS
<1>2. b * q >= q
    BY <1>1
<1> HIDE DEF q, r
<1>3. q + (IF r # 0 THEN 1 ELSE 0) \in Nat
    BY <1>1
<1>4. b * q \in Nat
    BY <1>1, NatProduct
<1>5. q + (IF r # 0 THEN 1 ELSE 0) <= a
    BY <1>1, <1>2, <1>4
<1> QED
    BY <1>3, <1>5 DEF CeilDiv, q, r
=============================================================================
