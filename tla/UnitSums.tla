------------------------------- MODULE UnitSums -------------------------------
(***************************************************************************)
(* Sums of natural numbers as numbers of units: a row of amount n stands   *)
(* for the pairs <<row, 1>>, ..., <<row, n>>, and the sum of all rows is   *)
(* the number of pairs.  A sum whose rows are sets needs no recursion, so  *)
(* that what a change of one row does to it can be proved.                 *)
(***************************************************************************)
EXTENDS Naturals, FiniteSets, FiniteSetTheorems, TLAPS

\* The units of the rows I, whose amounts are a, of which no row counts more than m.
Units(I, m, a) == {u \in I \X (1 .. m) : u[2] <= a[u[1]]}

\* A column of units has as many as its height.
LEMMA ColumnSize ==
  ASSUME NEW n \in Nat, NEW r
  PROVE  IsFiniteSet({r} \X (1 .. n)) /\ Cardinality({r} \X (1 .. n)) = n
<1>1. IsFiniteSet(1 .. n) /\ Cardinality(1 .. n) = n
  <2>1. n \in Int /\ 1 \in Int
    OBVIOUS
  <2>2. IsFiniteSet(1 .. n) /\ Cardinality(1 .. n) = IF 1 > n THEN 0 ELSE n - 1 + 1
    BY <2>1, FS_Interval
  <2>3. (IF 1 > n THEN 0 ELSE n - 1 + 1) = n
    OBVIOUS
  <2> QED
    BY <2>2, <2>3
<1>2. IsFiniteSet({r}) /\ Cardinality({r}) = 1
  BY FS_Singleton
<1>3. IsFiniteSet({r} \X (1 .. n)) /\ Cardinality({r} \X (1 .. n)) = 1 * n
  BY <1>1, <1>2, FS_Product
<1> QED
  BY <1>3

\* Disjoint sets of units add up.
LEMMA DisjointAdds ==
  ASSUME NEW S, NEW T, IsFiniteSet(S), IsFiniteSet(T), S \cap T = {}
  PROVE  Cardinality(S \cup T) = Cardinality(S) + Cardinality(T)
<1>1. Cardinality(S \cap T) = 0
  BY FS_EmptySet
<1>2. Cardinality(S) \in Nat /\ Cardinality(T) \in Nat
  BY FS_CardinalityType
<1>3. Cardinality(S \cup T) = Cardinality(S) + Cardinality(T) - Cardinality(S \cap T)
  BY FS_Union
<1> QED
  BY <1>1, <1>2, <1>3

\* A sum over finitely many rows is a natural number.
LEMMA UnitsAreFinite ==
  ASSUME NEW I, IsFiniteSet(I), NEW m \in Nat, NEW a
  PROVE  IsFiniteSet(Units(I, m, a)) /\ Cardinality(Units(I, m, a)) \in Nat
<1>1. IsFiniteSet(1 .. m)
  BY FS_Interval
<1>2. IsFiniteSet(I \X (1 .. m))
  BY <1>1, FS_Product
<1>3. Units(I, m, a) \subseteq I \X (1 .. m)
  BY DEF Units
<1> QED
  BY <1>2, <1>3, FS_Subset, FS_CardinalityType

\* The sum of no amounts.
LEMMA UnitsOfNothing ==
  ASSUME NEW I, NEW m \in Nat, NEW a, \A i \in I : a[i] = 0
  PROVE  Cardinality(Units(I, m, a)) = 0
<1>1. Units(I, m, a) = {}
  BY DEF Units
<1> QED
  BY <1>1, FS_EmptySet

\* A row that grows by n adds at most n to the sum, and n if all of it counts.
LEMMA UnitsGrow ==
  ASSUME NEW I, IsFiniteSet(I), NEW m \in Nat, NEW a \in [I -> Nat], NEW b \in [I -> Nat],
         NEW i \in I, NEW n \in Nat, \A j \in I \ {i} : b[j] = a[j], b[i] = a[i] + n
  PROVE  /\ Cardinality(Units(I, m, b)) <= Cardinality(Units(I, m, a)) + n
         /\ a[i] + n <= m => Cardinality(Units(I, m, b)) = Cardinality(Units(I, m, a)) + n
<1> DEFINE old == Units(I, m, a)
           now == Units(I, m, b)
           new == now \ old
<1>1. IsFiniteSet(old) /\ IsFiniteSet(now) /\ IsFiniteSet(new)
  BY UnitsAreFinite, FS_Difference
<1>2. PICK k \in Nat : k = a[i]
  OBVIOUS
<1>3. ASSUME NEW u \in old PROVE u \in now
  <2>1. u \in I \X (1 .. m) /\ u[2] <= a[u[1]]
    BY DEF Units
  <2>2. u[2] <= b[u[1]]
    BY <2>1, <1>2
  <2> QED
    BY <2>1, <2>2 DEF Units
<1>4. now = old \cup new /\ old \cap new = {}
  BY <1>3
<1>5. Cardinality(now) = Cardinality(old) + Cardinality(new)
  BY <1>1, <1>4, DisjointAdds
<1>6. new \subseteq {i} \X ((k + 1) .. (k + n))
  <2> SUFFICES ASSUME NEW u \in new PROVE u \in {i} \X ((k + 1) .. (k + n))
    OBVIOUS
  <2>1. u \in I \X (1 .. m) /\ u[2] <= b[u[1]] /\ ~(u[2] <= a[u[1]])
    BY DEF Units
  <2>2. u[1] = i
    BY <2>1
  <2> QED
    BY <1>2, <2>1, <2>2
<1>7. IsFiniteSet({i} \X ((k + 1) .. (k + n))) /\ Cardinality({i} \X ((k + 1) .. (k + n))) = n
  <2>1. IsFiniteSet((k + 1) .. (k + n))
        /\ Cardinality((k + 1) .. (k + n)) = IF k + 1 > k + n THEN 0 ELSE (k + n) - (k + 1) + 1
    <3>1. k + 1 \in Int /\ k + n \in Int
      OBVIOUS
    <3> QED
      BY <3>1, FS_Interval
  <2>2. (IF k + 1 > k + n THEN 0 ELSE (k + n) - (k + 1) + 1) = n
    OBVIOUS
  <2>3. IsFiniteSet({i}) /\ Cardinality({i}) = 1
    BY FS_Singleton
  <2>4. PICK T : T = (k + 1) .. (k + n)
    OBVIOUS
  <2>5. IsFiniteSet(T) /\ Cardinality(T) = n
    BY <2>1, <2>2, <2>4
  <2>6. IsFiniteSet({i} \X T) /\ Cardinality({i} \X T) = 1 * n
    BY <2>3, <2>5, FS_Product
  <2> QED
    BY <2>4, <2>6
<1>8. Cardinality(new) <= n /\ Cardinality(new) \in Nat /\ Cardinality(old) \in Nat
  BY <1>1, <1>6, <1>7, FS_Subset, FS_CardinalityType
<1>9. ASSUME a[i] + n <= m PROVE Cardinality(new) = n
  <2>1. new = {i} \X ((k + 1) .. (k + n))
    <3>1. ASSUME NEW u \in {i} \X ((k + 1) .. (k + n)) PROVE u \in new
      <4>1. u = <<i, u[2]>> /\ u[1] = i /\ u[2] \in (k + 1) .. (k + n)
        BY <3>1
      <4>2. u[2] \in 1 .. m /\ u[2] <= b[i] /\ ~(u[2] <= a[i])
        BY <1>2, <1>9, <4>1
      <4> QED
        BY <4>1, <4>2 DEF Units
    <3> QED
      BY <1>6, <3>1
  <2> QED
    BY <1>7, <2>1
<1> HIDE DEF old, now, new
<1>10. Cardinality(now) <= Cardinality(old) + n
  BY <1>5, <1>8
<1>11. ASSUME a[i] + n <= m PROVE Cardinality(now) = Cardinality(old) + n
  BY <1>5, <1>9, <1>11
<1> QED
  BY <1>10, <1>11 DEF old, now

\* Amounts that are the same make the same sum.
LEMMA UnitsSame ==
  ASSUME NEW I, NEW m, NEW a, NEW b, \A i \in I : a[i] = b[i]
  PROVE  Units(I, m, a) = Units(I, m, b)
BY DEF Units
=============================================================================
