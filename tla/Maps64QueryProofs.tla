------------------------- MODULE Maps64QueryProofs -------------------------
(***************************************************************************)
(* The queries and the files of a Roaring64Map answer for its values       *)
(* alone, for all numbers of high and of low halves.                       *)
(***************************************************************************)
EXTENDS Maps64Proofs

\* The values at one key.
Row(k, vals) == {uniteBytes(k, v) : v \in vals}

\* The values at the keys K, when those at key k have the low halves W[k].
Rows(K, W) == UNION {Row(k, W[k]) : k \in K}

\* There are as many values at a key as low halves, all of that key.
LEMMA RowFacts ==
  ASSUME NEW k \in Halves, NEW vals \in SUBSET Lowers
  PROVE  /\ Row(k, vals) \in SUBSET Values
         /\ \A x \in Row(k, vals) : highBytes(x) = k /\ lowBytes(x) \in vals
         /\ IsFiniteSet(Row(k, vals)) /\ Cardinality(Row(k, vals)) = Cardinality(vals)
         /\ IsFiniteSet(vals)
<1>1. \A v \in vals : /\ uniteBytes(k, v) \in Values
                      /\ highBytes(uniteBytes(k, v)) = k /\ lowBytes(uniteBytes(k, v)) = v
  BY United
<1>2. IsFiniteSet(vals)
  <2>1. IsFiniteSet(Lowers)
    BY Bounds, FS_Interval DEF Lowers, uint32_max
  <2> QED
    BY <2>1, FS_Subset
<1> DEFINE f == [v \in vals |-> uniteBytes(k, v)]
           R == Row(k, vals)
<1>3. f \in Bijection(vals, R)
  <2>1. f \in [vals -> R]
    BY DEF Row
  <2>2. \A u, v \in vals : f[u] = f[v] => u = v
    BY <1>1
  <2>3. \A x \in R : \E v \in vals : f[v] = x
    BY DEF Row
  <2> HIDE DEF f, R
  <2> QED
    BY <2>1, <2>2, <2>3 DEF Bijection, Injection, Surjection, IsInjective
<1>4. ExistsBijection(vals, R)
  BY <1>3 DEF ExistsBijection
<1>5. IsFiniteSet(R) /\ Cardinality(R) = Cardinality(vals)
  BY <1>2, <1>4, FS_Bijection
<1> QED
  BY <1>1, <1>2, <1>5 DEF Row

\* The values at some keys.
LEMMA RowsFacts ==
  ASSUME NEW K \in SUBSET Halves, NEW W \in [K -> SUBSET Lowers]
  PROVE  /\ Rows(K, W) \in SUBSET Values
         /\ \A h \in Halves, l \in Lowers : uniteBytes(h, l) \in Rows(K, W) <=> h \in K /\ l \in W[h]
         /\ \A x \in Values : x \in Rows(K, W) <=> highBytes(x) \in K /\ lowBytes(x) \in W[highBytes(x)]
         /\ IsFiniteSet(Rows(K, W)) /\ IsFiniteSet(Values) /\ IsFiniteSet(K)
<1>1. IsFiniteSet(K)
  <2>1. IsFiniteSet(Halves)
    BY Bounds, FS_Interval DEF Halves
  <2> QED
    BY <2>1, FS_Subset
<1>2. IsFiniteSet(Values)
  <2>1. Highs * Lows - 1 \in Int
    BY Bounds
  <2> QED
    BY <2>1, FS_Interval DEF Values
<1>3. \A k \in K : W[k] \in SUBSET Lowers /\ k \in Halves
  OBVIOUS
<1>4. \A k \in K : Row(k, W[k]) \in SUBSET Values
  BY <1>3, RowFacts
<1>5. Rows(K, W) \in SUBSET Values
  BY <1>4 DEF Rows
<1>6. ASSUME NEW h \in Halves, NEW l \in Lowers
      PROVE  uniteBytes(h, l) \in Rows(K, W) <=> h \in K /\ l \in W[h]
  <2>1. highBytes(uniteBytes(h, l)) = h /\ lowBytes(uniteBytes(h, l)) = l
    BY United
  <2> DEFINE x == uniteBytes(h, l)
  <2>2. ASSUME x \in Rows(K, W) PROVE h \in K /\ l \in W[h]
    <3>1. PICK k \in K : x \in Row(k, W[k])
      BY <2>2 DEF Rows
    <3>2. highBytes(x) = k /\ lowBytes(x) \in W[k]
      BY <1>3, <3>1, RowFacts
    <3> QED
      BY <2>1, <3>2
  <2>3. ASSUME h \in K, l \in W[h] PROVE x \in Rows(K, W)
    BY <2>3 DEF Rows, Row
  <2> QED
    BY <2>2, <2>3
<1>7. ASSUME NEW x \in Values PROVE x \in Rows(K, W) <=> highBytes(x) \in K /\ lowBytes(x) \in W[highBytes(x)]
  <2>1. highBytes(x) \in Halves /\ lowBytes(x) \in Lowers /\ uniteBytes(highBytes(x), lowBytes(x)) = x
    BY Halved
  <2> QED
    BY <1>6, <2>1
<1> QED
  BY <1>1, <1>2, <1>5, <1>6, <1>7, FS_Subset

\* The values at some keys of a map.
LEMMA MemberRows ==
  ASSUME NEW m \in Maps, NEW K \in SUBSET Keys(m)
  PROVE  Rows(K, [k \in K |-> Vals(m, k)]) = {x \in Members(m) : highBytes(x) \in K}
<1> DEFINE W == [k \in K |-> Vals(m, k)]
           S == {x \in Members(m) : highBytes(x) \in K}
<1>1. K \in SUBSET Halves /\ W \in [K -> SUBSET Lowers]
  BY MapParts
<1>2. S \in SUBSET Values
  BY MembersAreValues
<1>3. \A k \in K : W[k] = ValsOrNone(m, k)
  BY DEF ValsOrNone
<1> HIDE DEF W
<1>4. ASSUME NEW h \in Halves, NEW l \in Lowers PROVE uniteBytes(h, l) \in Rows(K, W) <=> uniteBytes(h, l) \in S
  <2>1. uniteBytes(h, l) \in Members(m) <=> l \in ValsOrNone(m, h)
    BY MemberHalves
  <2>2. highBytes(uniteBytes(h, l)) = h
    BY United
  <2>3. uniteBytes(h, l) \in Rows(K, W) <=> h \in K /\ l \in W[h]
    BY <1>1, RowsFacts
  <2> QED
    BY <1>3, <2>1, <2>2, <2>3
<1> DEFINE R == Rows(K, W)
<1>5. R \in SUBSET Values
  BY <1>1, RowsFacts
<1> HIDE DEF R, S
<1>6. \A h \in Halves, l \in Lowers : uniteBytes(h, l) \in R <=> uniteBytes(h, l) \in S
  BY <1>4 DEF R
<1>7. R = S
  BY <1>2, <1>5, <1>6, SameHalves
<1> QED
  BY <1>7 DEF R, W, S

\* The inner bitmaps of some keys hold as many values as the map has there.
LEMMA CountedFacts ==
  ASSUME NEW m \in Maps, NEW K \in SUBSET Keys(m)
  PROVE  Counted(m, K) = Cardinality({x \in Members(m) : highBytes(x) \in K})
<1> DEFINE g == [k \in K |-> Cardinality(Vals(m, k))]
           W == [k \in K |-> Vals(m, k)]
           P == [k \in K |-> Row(k, W[k])]
           Step(it) == [s \in SUBSET K |->
                          IF s = {} THEN 0
                          ELSE LET x == CHOOSE x \in s : TRUE
                               IN  Cardinality(Vals(m, x)) + it[s \ {x}]]
           it == CHOOSE f : f = Step(f)
<1>1. Counted(m, K) = it[K]
  BY DEF Counted, MapThenSumSet, MapThenFoldSet
<1>2. IsFiniteSet(K) /\ g \in [K -> Nat] /\ K \in SUBSET Halves /\ W \in [K -> SUBSET Lowers]
  BY FiniteParts, MapParts, FS_Subset
<1>3. \A k \in K : g[k] = Cardinality(Vals(m, k)) /\ W[k] = Vals(m, k)
  OBVIOUS
<1>4. \A k \in K : P[k] = Row(k, W[k])
  OBVIOUS
<1> HIDE DEF g, P, W
<1>5. PICK f \in [SUBSET K -> Nat] : Sums(f, K, g)
  BY <1>2, SumExists
<1>6. \A s \in SUBSET K : s # {} =>
        g[CHOOSE x \in s : TRUE] = Cardinality(Vals(m, CHOOSE x \in s : TRUE))
  BY <1>3
<1>7. f = Step(f)
  <2>1. \A s \in SUBSET K : f[s] = Step(f)[s]
    BY <1>5, <1>6 DEF Sums
  <2> QED
    BY <2>1
<1>8. it = Step(it)
  BY <1>7
<1> HIDE DEF it
<1>9. Sums(it, K, g)
  <2>1. \A s \in SUBSET K : it[s] = Step(it)[s]
    BY <1>8
  <2> QED
    BY <1>6, <2>1 DEF Sums
<1>10. \A k \in K : IsFiniteSet(P[k]) /\ Cardinality(P[k]) = g[k]
  BY <1>2, <1>3, <1>4, RowFacts
<1>11. \A j, k \in K : j # k => P[j] \cap P[k] = {}
  <2>1. \A k \in K : \A x \in P[k] : highBytes(x) = k
    BY <1>2, <1>4, RowFacts
  <2> QED
    BY <2>1
<1>12. HasSizes(P, g, K)
  BY <1>10, <1>11 DEF HasSizes
<1>13. it[K] = Cardinality(AllOf(P, K))
  BY <1>2, <1>9, <1>12, SumsCount
<1>14. AllOf(P, K) = Rows(K, W)
  BY <1>4 DEF Rows, AllOf
<1>15. Rows(K, W) = {x \in Members(m) : highBytes(x) \in K}
  BY MemberRows DEF W
<1> QED
  BY <1>1, <1>13, <1>14, <1>15

\* A value is in a map when its low half is in the inner bitmap of its high half.
LEMMA MemberAt ==
  ASSUME NEW m \in Maps, NEW x \in Values
  PROVE  /\ x \in Members(m) <=> lowBytes(x) \in ValsOrNone(m, highBytes(x))
         /\ x \in Members(m) <=> highBytes(x) \in Keys(m) /\ lowBytes(x) \in Vals(m, highBytes(x))
<1>1. highBytes(x) \in Halves /\ lowBytes(x) \in Lowers /\ uniteBytes(highBytes(x), lowBytes(x)) = x
  BY Halved
<1>2. x \in Members(m) <=> lowBytes(x) \in ValsOrNone(m, highBytes(x))
  BY <1>1, MemberHalves
<1> QED
  BY <1>2 DEF ValsOrNone

\* A value of an inner bitmap, and where it is in the map.
LEMMA InnerMember ==
  ASSUME NEW m \in Maps, NEW k \in Keys(m), NEW v \in Vals(m, k)
  PROVE  /\ uniteBytes(k, v) \in Members(m) /\ uniteBytes(k, v) \in Values
         /\ k \in Halves /\ v \in Lowers
         /\ highBytes(uniteBytes(k, v)) = k /\ lowBytes(uniteBytes(k, v)) = v
<1>1. k \in Halves /\ v \in Lowers
  BY MapParts
<1>2. v \in ValsOrNone(m, k)
  BY DEF ValsOrNone
<1> QED
  BY <1>1, <1>2, MemberHalves, United

\* The values are finitely many natural numbers.
LEMMA FiniteValues ==
  ASSUME NEW S \in SUBSET Values
  PROVE  /\ S \in SUBSET Nat /\ IsFiniteSet(S) /\ Cardinality(S) \in Nat
         /\ Highs * Lows \in Nat /\ Cardinality(Values) = Highs * Lows
         /\ Cardinality(S) <= Highs * Lows
         /\ Cardinality(S) = Highs * Lows <=> S = Values
<1>1. Highs * Lows \in Nat /\ Highs * Lows >= 1
  BY Bounds
<1> DEFINE n == Highs * Lows
<1> HIDE DEF n
<1>2. n \in Nat /\ n >= 1 /\ Values = 0..(n - 1)
  BY <1>1 DEF n, Values
<1>3. IsFiniteSet(Values) /\ Cardinality(Values) = n
  <2>1. IsFiniteSet(0..(n - 1)) /\ Cardinality(0..(n - 1)) = IF 0 > n - 1 THEN 0 ELSE n - 1 - 0 + 1
    BY <1>2, FS_Interval
  <2> QED
    BY <1>2, <2>1
<1>4. IsFiniteSet(S) /\ Cardinality(S) <= Cardinality(Values) /\ (Cardinality(Values) = Cardinality(S) => Values = S)
  BY <1>3, FS_Subset
<1>5. Cardinality(S) \in Nat
  BY <1>4, FS_CardinalityType
<1>6. S \in SUBSET Nat
  BY <1>2
<1> QED
  BY <1>2, <1>3, <1>4, <1>5, <1>6 DEF n

\* contains looks a value up.
LEMMA ContainsCorrect ==
  ASSUME NEW m \in Maps, NEW x \in Values
  PROVE  contains(m, x) <=> x \in Members(m)
BY MemberAt DEF contains

\* isEmpty and isFull look at every inner bitmap.
LEMMA IsEmptyCorrect ==
  ASSUME NEW m \in Maps
  PROVE  isEmpty(m) <=> Members(m) = {}
<1>1. ASSUME isEmpty(m) PROVE Members(m) = {}
  BY <1>1 DEF isEmpty, Members
<1>2. ASSUME Members(m) = {}, NEW k \in Keys(m) PROVE Vals(m, k) = {}
  BY <1>2, InnerMember
<1> QED
  BY <1>1, <1>2 DEF isEmpty

\* isFull says whether every value is there.
LEMMA IsFullCorrect ==
  ASSUME NEW m \in Maps
  PROVE  isFull(m) <=> Members(m) = Values
<1>1. isFull(m) <=> Keys(m) = Halves /\ \A k \in Keys(m) : Vals(m, k) = Lowers
  BY DEF isFull, Halves, Lowers
<1>2. ASSUME isFull(m) PROVE Members(m) = Values
  <2>1. ASSUME NEW x \in Values PROVE x \in Members(m)
    <3>1. highBytes(x) \in Halves /\ lowBytes(x) \in Lowers
      BY Halved
    <3> QED
      BY <1>1, <1>2, <3>1, MemberAt
  <2> QED
    BY <2>1, MembersAreValues
<1>3. ASSUME Members(m) = Values PROVE isFull(m)
  <2>1. ASSUME NEW h \in Halves, NEW l \in Lowers PROVE h \in Keys(m) /\ l \in Vals(m, h)
    <3>1. uniteBytes(h, l) \in Members(m)
      BY <1>3, United
    <3>2. l \in ValsOrNone(m, h)
      BY <3>1, MemberHalves
    <3> QED
      BY <3>2 DEF ValsOrNone
  <2>2. Keys(m) = Halves
    BY <2>1, Bounds, MapParts
  <2>3. \A k \in Keys(m) : Vals(m, k) = Lowers
    BY <2>1, <2>2, MapParts
  <2> QED
    BY <1>1, <2>2, <2>3
<1> QED
  BY <1>2, <1>3

\* cardinality adds up the inner bitmaps, and throws for the full map.
LEMMA CardinalityCorrect ==
  ASSUME NEW m \in Maps
  PROVE  cardinality(m) = IF Members(m) = Values THEN Throws ELSE Cardinality(Members(m))
<1>1. {x \in Members(m) : highBytes(x) \in Keys(m)} = Members(m)
  BY MembersAreValues, MemberAt
<1>2. Counted(m, Keys(m)) = Cardinality(Members(m))
  BY <1>1, CountedFacts
<1> QED
  BY <1>2, IsFullCorrect DEF cardinality

\* The keys whose bitmaps have values, and the least and greatest of them.
LEMMA MinimumCorrect ==
  ASSUME NEW m \in Maps
  PROVE  minimum(m) = IF Members(m) = {} THEN Max(Values) ELSE Min(Members(m))
<1> DEFINE K == {k \in Keys(m) : Vals(m, k) # {}}
           S == Members(m)
<1>1. Max(Values) = Highs * Lows - 1
  <2> DEFINE n == Highs * Lows
  <2>1. n \in Nat /\ n >= 1
    BY Bounds
  <2>2. Values = 0..(n - 1)
    BY DEF Values
  <2> HIDE DEF n
  <2>3. Values \in SUBSET Int /\ n - 1 \in Values /\ \A y \in Values : y <= n - 1
    BY <2>1, <2>2
  <2> DEFINE u == n - 1
  <2> HIDE DEF u
  <2>4. Max(Values) = u
    BY <2>3, MaxIs DEF u
  <2> QED
    BY <2>4 DEF u, n
<1>2. S = {} <=> K = {}
  BY IsEmptyCorrect DEF isEmpty
<1>3. ASSUME K # {} PROVE uniteBytes(Min(K), Min(Vals(m, Min(K)))) = Min(S)
  <2> DEFINE k == Min(K)
             V == Vals(m, k)
             l == Min(V)
  <2>1. K \in SUBSET Nat
    BY MapParts, Bounds
  <2>2. k \in K /\ \A j \in K : k <= j
    <3> HIDE DEF K
    <3> QED
      BY <1>3, <2>1, MinFacts
  <2>3. k \in Keys(m) /\ V # {} /\ V \in SUBSET Nat
    BY <2>2, MapParts, Bounds
  <2> HIDE DEF k
  <2>4. l \in V /\ \A v \in V : l <= v
    <3> HIDE DEF V
    <3> QED
      BY <2>3, MinFacts
  <2> HIDE DEF l
  <2> DEFINE x == uniteBytes(k, l)
  <2>5. x \in S /\ x \in Values /\ k \in Halves /\ l \in Lowers /\ highBytes(x) = k /\ lowBytes(x) = l
    BY <2>3, <2>4, InnerMember
  <2> HIDE DEF x
  <2>6. ASSUME NEW y \in S PROVE x <= y
    <3>1. y \in Values
      BY MembersAreValues
    <3> DEFINE h == highBytes(y)
               v == lowBytes(y)
    <3>2. h \in Keys(m) /\ v \in Vals(m, h)
      BY <3>1, MemberAt
    <3>3. h \in K
      BY <3>2
    <3>4. h \in Nat /\ k \in Nat /\ k <= h
      BY <2>1, <2>2, <3>3
    <3>5. k < h \/ k = h
      BY <3>4
    <3>6. k = h => l <= v
      BY <2>4, <3>2
    <3> QED
      BY <2>5, <3>1, <3>5, <3>6, InOrder DEF x
  <2>7. S \in SUBSET Int
    BY MembersAreValues, FiniteValues
  <2> HIDE DEF S
  <2>8. Min(S) = x
    BY <2>5, <2>6, <2>7, MinIs
  <2> QED
    BY <2>8 DEF x, l, k
<1> QED
  BY <1>1, <1>2, <1>3 DEF minimum

\* maximum takes the greatest value of the last bitmap that has one.
LEMMA MaximumCorrect ==
  ASSUME NEW m \in Maps
  PROVE  maximum(m) = IF Members(m) = {} THEN 0 ELSE Max(Members(m))
<1> DEFINE K == {k \in Keys(m) : Vals(m, k) # {}}
           S == Members(m)
<1>1. S = {} <=> K = {}
  BY IsEmptyCorrect DEF isEmpty
<1>2. ASSUME K # {} PROVE uniteBytes(Max(K), Max(Vals(m, Max(K)))) = Max(S)
  <2> DEFINE k == Max(K)
             V == Vals(m, k)
             l == Max(V)
  <2>1. K \in SUBSET Nat /\ Highs \in Nat /\ \A j \in K : j <= Highs
    BY MapParts, Bounds DEF Halves
  <2>2. k \in K /\ \A j \in K : j <= k
    <3> HIDE DEF K
    <3> QED
      BY <1>2, <2>1, MaxFacts
  <2>3. k \in Keys(m) /\ V # {} /\ V \in SUBSET Nat /\ Lows \in Nat /\ \A v \in V : v <= Lows
    <3>1. k \in Keys(m) /\ V # {} /\ V \in SUBSET Lowers
      BY <2>2, MapParts
    <3>2. \A v \in Lowers : v \in Nat /\ v <= Lows
      BY Bounds
    <3> HIDE DEF k
    <3> QED
      BY <3>1, <3>2, Bounds
  <2> HIDE DEF k
  <2>4. l \in V /\ \A v \in V : v <= l
    <3> HIDE DEF V
    <3> QED
      BY <2>3, MaxFacts
  <2> HIDE DEF l
  <2> DEFINE x == uniteBytes(k, l)
  <2>5. x \in S /\ x \in Values /\ k \in Halves /\ l \in Lowers /\ highBytes(x) = k /\ lowBytes(x) = l
    BY <2>3, <2>4, InnerMember
  <2> HIDE DEF x
  <2>6. ASSUME NEW y \in S PROVE y <= x
    <3>1. y \in Values
      BY MembersAreValues
    <3> DEFINE h == highBytes(y)
               v == lowBytes(y)
    <3>2. h \in Keys(m) /\ v \in Vals(m, h)
      BY <3>1, MemberAt
    <3>3. h \in K
      BY <3>2
    <3>4. h \in Nat /\ k \in Nat /\ h <= k
      BY <2>1, <2>2, <3>3
    <3>5. h < k \/ k = h
      BY <3>4
    <3>6. k = h => v <= l
      BY <2>4, <3>2
    <3> QED
      BY <2>5, <3>1, <3>5, <3>6, InOrder DEF x
  <2>7. S \in SUBSET Int
    BY MembersAreValues, FiniteValues
  <2> HIDE DEF S
  <2>8. Max(S) = x
    BY <2>5, <2>6, <2>7, MaxIs
  <2> QED
    BY <2>8 DEF x, l, k
<1> QED
  BY <1>1, <1>2 DEF maximum

-----------------------------------------------------------------------------
(* Ranks.                                                                  *)

\* The values at the keys before h, and those at h with the low halves vals.
LEMMA CountBelow ==
  ASSUME NEW m \in Maps, NEW h \in Halves, NEW vals \in SUBSET ValsOrNone(m, h)
  PROVE  Counted(m, {k \in Keys(m) : k < h}) + Cardinality(vals)
           = Cardinality({x \in Members(m) : highBytes(x) < h \/ (highBytes(x) = h /\ lowBytes(x) \in vals)})
<1> DEFINE K == {k \in Keys(m) : k < h}
           A == {x \in Members(m) : highBytes(x) \in K}
           B == Row(h, vals)
           C == {x \in Members(m) : highBytes(x) < h \/ (highBytes(x) = h /\ lowBytes(x) \in vals)}
<1>1. ValsOrNone(m, h) \in SUBSET Lowers
  BY MapParts DEF ValsOrNone
<1>2. vals \in SUBSET Lowers
  BY <1>1
<1>3. /\ B \in SUBSET Values /\ \A x \in B : highBytes(x) = h /\ lowBytes(x) \in vals
      /\ IsFiniteSet(B) /\ Cardinality(B) = Cardinality(vals)
  BY <1>2, RowFacts
<1>4. Counted(m, K) = Cardinality(A)
  BY CountedFacts
<1>5. Members(m) \in SUBSET Values
  BY MembersAreValues
<1>6. A \in SUBSET Values
  BY <1>5
<1>7. A \cap B = {}
  <2>1. \A x \in A : highBytes(x) < h /\ highBytes(x) \in Nat
    BY MapParts, Bounds
  <2>2. h \in Nat
    BY Bounds
  <2>3. \A x \in A : highBytes(x) # h
    BY <2>1, <2>2
  <2> HIDE DEF A, B
  <2> QED
    BY <1>3, <2>3
<1>8. C = A \cup B
  <2>1. ASSUME NEW x \in C PROVE x \in A \cup B
    <3>1. x \in Values /\ x \in Members(m)
      BY <1>5
    <3>2. highBytes(x) \in Keys(m) /\ uniteBytes(highBytes(x), lowBytes(x)) = x
      BY <3>1, MemberAt, Halved
    <3> QED
      BY <3>1, <3>2 DEF Row
  <2>2. \A x \in A : x \in C
    OBVIOUS
  <2>3. ASSUME NEW x \in B PROVE x \in C
    <3>1. x \in Values /\ highBytes(x) = h /\ lowBytes(x) \in vals
      BY <1>3
    <3>2. x \in Members(m)
      BY <3>1, MemberAt
    <3> QED
      BY <3>1, <3>2
  <2> HIDE DEF A, B, C
  <2> QED
    BY <2>1, <2>2, <2>3
<1> HIDE DEF A, B, C
<1>9. IsFiniteSet(A) /\ Cardinality(A) \in Nat
  BY <1>6, FiniteValues
<1>10. Cardinality(B) \in Nat
  BY <1>3, FS_CardinalityType
<1>11. Cardinality(A \cap B) = 0
  BY <1>7, FS_EmptySet
<1>12. Cardinality(A \cup B) = Cardinality(A) + Cardinality(B) - Cardinality(A \cap B)
  BY <1>3, <1>9, FS_Union
<1>13. Cardinality(A \cup B) = Cardinality(A) + Cardinality(B)
  BY <1>9, <1>10, <1>11, <1>12
<1> QED
  BY <1>3, <1>4, <1>8, <1>13 DEF C

\* rank adds up the bitmaps before the one that x is in.
LEMMA RankCorrect ==
  ASSUME NEW m \in Maps, NEW x \in Values
  PROVE  rank(m, x) = Cardinality({v \in Members(m) : v <= x})
<1> DEFINE h == highBytes(x)
           l == lowBytes(x)
           end == lower_bound(m, h)
           vals == {v \in ValsOrNone(m, h) : v <= l}
<1>1. h \in Halves /\ l \in Lowers /\ h \in Nat /\ l \in Nat /\ uniteBytes(h, l) = x
  BY Halved, Bounds
<1> HIDE DEF h, l
<1>2. end \in Nat /\ end \in Keys(m) \cup {End} /\ (end # End => end >= h) /\ \A k \in Keys(m) : k >= h <=> k >= end
  BY <1>1, LowerBound
<1> HIDE DEF end
<1>3. Keys(m) \in SUBSET Nat /\ End \notin Halves /\ Keys(m) \in SUBSET Halves
  BY MapParts, Bounds DEF Halves, End
<1>4. {k \in Keys(m) : k < end} = {k \in Keys(m) : k < h}
  <2>1. ASSUME NEW k \in Keys(m) PROVE k < end <=> k < h
    <3>1. k \in Nat /\ (k >= h <=> k >= end)
      BY <1>2, <1>3
    <3> QED
      BY <1>1, <1>2, <3>1
  <2> QED
    BY <2>1
<1>5. end = h <=> h \in Keys(m)
  <2>1. ASSUME h \in Keys(m) PROVE end = h
    <3>1. h >= end
      BY <1>1, <1>2, <2>1
    <3>2. end # End
      BY <1>1, <1>3, <3>1, Bounds DEF Halves, End
    <3> QED
      BY <1>1, <1>2, <3>1, <3>2
  <2>2. ASSUME end = h PROVE h \in Keys(m)
    BY <1>1, <1>2, <1>3, <2>2
  <2> QED
    BY <2>1, <2>2
<1>6. (IF end = h THEN Cardinality({v \in Vals(m, end) : v <= l}) ELSE 0) = Cardinality(vals)
  <2>1. CASE end = h
    BY <1>5, <2>1 DEF ValsOrNone
  <2>2. CASE end # h
    <3>1. vals = {}
      BY <1>5, <2>2 DEF ValsOrNone
    <3> QED
      BY <2>2, <3>1, FS_EmptySet
  <2> QED
    BY <2>1, <2>2
<1>7. rank(m, x) = Counted(m, {k \in Keys(m) : k < h}) + Cardinality(vals)
  <2>1. rank(m, x) = Cardinality(vals) + Counted(m, {k \in Keys(m) : k < h})
    BY <1>4, <1>6 DEF rank, end, h, l
  <2>2. Cardinality(vals) \in Int
    <3>1. vals \in SUBSET Lowers
      BY MapParts DEF ValsOrNone
    <3> HIDE DEF vals
    <3>2. IsFiniteSet(vals)
      BY <1>1, <3>1, RowFacts
    <3> QED
      BY <3>2, FS_CardinalityType
  <2>3. Counted(m, {k \in Keys(m) : k < h}) \in Int
    <3> DEFINE T == {y \in Members(m) : highBytes(y) \in {k \in Keys(m) : k < h}}
    <3>1. T \in SUBSET Values
      BY MembersAreValues
    <3>2. Counted(m, {k \in Keys(m) : k < h}) = Cardinality(T)
      BY CountedFacts
    <3> HIDE DEF T
    <3> QED
      BY <3>1, <3>2, FiniteValues
  <2> HIDE DEF vals
  <2> QED
    BY <2>1, <2>2, <2>3
<1> DEFINE C == {y \in Members(m) : highBytes(y) < h \/ (highBytes(y) = h /\ lowBytes(y) \in vals)}
<1>8. Counted(m, {k \in Keys(m) : k < h}) + Cardinality(vals) = Cardinality(C)
  BY <1>1, CountBelow
<1>9. C = {v \in Members(m) : v <= x}
  <2>1. ASSUME NEW y \in Members(m)
        PROVE  y <= x <=> highBytes(y) < h \/ (highBytes(y) = h /\ lowBytes(y) \in vals)
    <3>1. y \in Values
      BY MembersAreValues
    <3>2. /\ highBytes(y) \in Halves /\ lowBytes(y) \in Lowers
          /\ uniteBytes(highBytes(y), lowBytes(y)) = y
          /\ lowBytes(y) \in ValsOrNone(m, highBytes(y))
      BY <3>1, Halved, MemberAt
    <3>3. y <= x <=> highBytes(y) < h \/ (highBytes(y) = h /\ lowBytes(y) <= l)
      BY <3>2, InOrder DEF h, l
    <3> QED
      BY <3>2, <3>3
  <2> QED
    BY <2>1
<1> QED
  BY <1>7, <1>8, <1>9

\* getIndex does too, for a value that is there.
LEMMA GetIndexCorrect ==
  ASSUME NEW m \in Maps, NEW x \in Values
  PROVE  getIndex(m, x) = IF x \in Members(m) THEN Cardinality({v \in Members(m) : v < x}) ELSE -1
<1> DEFINE h == highBytes(x)
           l == lowBytes(x)
           vals == {v \in Vals(m, h) : v < l}
           K == {k \in Keys(m) : k < h}
           C == {y \in Members(m) : highBytes(y) < h \/ (highBytes(y) = h /\ lowBytes(y) \in vals)}
<1>1. contains(m, x) <=> x \in Members(m)
  BY ContainsCorrect
<1>2. h \in Halves /\ l \in Lowers /\ h \in Nat /\ l \in Nat /\ uniteBytes(h, l) = x
  BY Halved, Bounds
<1>3. ASSUME x \in Members(m) PROVE Counted(m, K) + Cardinality(vals) = Cardinality({v \in Members(m) : v < x})
  <2>1. h \in Keys(m) /\ ValsOrNone(m, h) = Vals(m, h) /\ Vals(m, h) \in SUBSET Lowers
    BY <1>3, MemberAt, MapParts DEF ValsOrNone
  <2> HIDE DEF h, l
  <2>2. vals \in SUBSET ValsOrNone(m, h)
    BY <2>1
  <2> HIDE DEF vals
  <2>3. Counted(m, K) + Cardinality(vals) = Cardinality(C)
    BY <1>2, <2>2, CountBelow
  <2>4. ASSUME NEW y \in Members(m)
        PROVE  y < x <=> highBytes(y) < h \/ (highBytes(y) = h /\ lowBytes(y) \in vals)
    <3>1. y \in Values /\ y \in Nat /\ x \in Nat
      BY MembersAreValues, FiniteValues
    <3>2. /\ highBytes(y) \in Halves /\ lowBytes(y) \in Lowers /\ highBytes(y) \in Nat /\ lowBytes(y) \in Nat
          /\ uniteBytes(highBytes(y), lowBytes(y)) = y
          /\ lowBytes(y) \in ValsOrNone(m, highBytes(y))
      BY <3>1, Halved, MemberAt, Bounds
    <3>3. x <= y <=> h < highBytes(y) \/ (highBytes(y) = h /\ l <= lowBytes(y))
      BY <3>2, InOrder DEF h, l
    <3>4. y < x <=> highBytes(y) < h \/ (highBytes(y) = h /\ lowBytes(y) < l)
      BY <1>2, <3>1, <3>2, <3>3
    <3> QED
      BY <2>1, <3>2, <3>4 DEF vals
  <2>5. C = {v \in Members(m) : v < x}
    BY <2>4
  <2> QED
    BY <2>3, <2>5
<1> QED
  BY <1>1, <1>3 DEF getIndex

-----------------------------------------------------------------------------
(* The inner bitmaps in the order of their keys.                           *)

\* The first i elements of a set.
Firsts(K, i) == {Ordered(K)[p] : p \in 1..i}

\* The elements before the i-th one, and up to it.
LEMMA FirstsFacts ==
  ASSUME NEW K \in SUBSET Nat, IsFiniteSet(K), NEW i \in 1..Cardinality(K)
  PROVE  /\ Ordered(K)[i] \in K
         /\ Firsts(K, i - 1) = {k \in K : k < Ordered(K)[i]}
         /\ Firsts(K, i) = Firsts(K, i - 1) \cup {Ordered(K)[i]}
<1> DEFINE q == Ordered(K)
           n == Cardinality(K)
<1>1. /\ n \in Nat
      /\ \A p \in 1..n : q[p] \in K
      /\ \A v \in K : /\ Cardinality(Below(K, v)) + 1 \in 1..n
                      /\ q[Cardinality(Below(K, v)) + 1] = v
      /\ \A p, r \in 1..n : p < r => q[p] < q[r]
  BY OrderedFacts
<1> HIDE DEF q, n
<1>2. i \in 1..n
  BY DEF n
<1>3. \A v \in K : \E p \in 1..n : q[p] = v
  BY <1>1
<1>4. ASSUME NEW p \in 1..(i - 1) PROVE q[p] \in K /\ q[p] < q[i]
  BY <1>1, <1>2
<1>5. ASSUME NEW k \in K, k < q[i] PROVE \E p \in 1..(i - 1) : q[p] = k
  <2>1. PICK p \in 1..n : q[p] = k
    BY <1>3
  <2>2. ~(i <= p)
    <3> SUFFICES ASSUME i <= p PROVE FALSE
      OBVIOUS
    <3>1. k \in Nat /\ q[i] \in Nat
      BY <1>1, <1>2
    <3>2. q[i] < q[p] \/ i = p
      BY <1>1, <1>2
    <3> QED
      BY <1>5, <2>1, <3>1, <3>2
  <2>3. p \in 1..(i - 1)
    BY <1>1, <1>2, <2>2
  <2> QED
    BY <2>1, <2>3
<1>6. Firsts(K, i - 1) = {k \in K : k < q[i]}
  BY <1>4, <1>5 DEF Firsts, q
<1>7. Firsts(K, i) = Firsts(K, i - 1) \cup {q[i]}
  <2>1. 1..i = 1..(i - 1) \cup {i}
    BY <1>1, <1>2
  <2> QED
    BY <2>1 DEF Firsts, q
<1> QED
  BY <1>1, <1>2, <1>6, <1>7 DEF q

\* None of the elements, and all of them.
LEMMA FirstsEnds ==
  ASSUME NEW K \in SUBSET Nat, IsFiniteSet(K)
  PROVE  Firsts(K, 0) = {} /\ Firsts(K, Cardinality(K)) = K
<1> DEFINE q == Ordered(K)
           n == Cardinality(K)
<1>1. /\ \A p \in 1..n : q[p] \in K
      /\ \A v \in K : /\ Cardinality(Below(K, v)) + 1 \in 1..n
                      /\ q[Cardinality(Below(K, v)) + 1] = v
  BY OrderedFacts
<1> HIDE DEF q, n
<1>2. \A v \in K : \E p \in 1..n : q[p] = v
  BY <1>1
<1>3. Firsts(K, n) = K
  BY <1>1, <1>2 DEF Firsts, q
<1>4. Firsts(K, 0) = {}
  BY DEF Firsts
<1> QED
  BY <1>3, <1>4 DEF n

\* The keys of a map, and their sequence.
LEMMA KeysInOrder ==
  ASSUME NEW m \in Maps
  PROVE  /\ Keys(m) \in SUBSET Nat /\ Keys(m) \in SUBSET Halves /\ IsFiniteSet(Keys(m))
         /\ Cardinality(Keys(m)) \in Nat
         /\ KeySeq(m) = Ordered(Keys(m))
         /\ KeySeq(m) \in Seq(Keys(m)) /\ Len(KeySeq(m)) = Cardinality(Keys(m))
         /\ DOMAIN KeySeq(m) = 1..Cardinality(Keys(m))
         /\ \A i \in 1..Cardinality(Keys(m)) : KeySeq(m)[i] \in Keys(m)
<1>1. Keys(m) \in SUBSET Nat /\ Keys(m) \in SUBSET Halves /\ IsFiniteSet(Keys(m))
  BY MapParts, Bounds, FiniteParts
<1> DEFINE K == Keys(m)
           q == KeySeq(m)
<1>2. q = Ordered(K)
  BY DEF KeySeq
<1> HIDE DEF K, q
<1>3. q \in Seq(K) /\ Len(q) = Cardinality(K) /\ Cardinality(K) \in Nat /\ \A i \in 1..Cardinality(K) : q[i] \in K
  BY <1>1, <1>2, OrderedFacts DEF K
<1>4. DOMAIN q = 1..Cardinality(K)
  BY <1>3
<1> QED
  BY <1>1, <1>2, <1>3, <1>4 DEF K, q

\* The values at the first i keys.
MembersTo(m, i) == {x \in Members(m) : highBytes(x) \in Firsts(Keys(m), i)}

\* They grow by the values of one inner bitmap, which are all larger.
LEMMA MembersToFacts ==
  ASSUME NEW m \in Maps, NEW i \in 1..Cardinality(Keys(m))
  PROVE  LET k == KeySeq(m)[i]
         IN  /\ k \in Keys(m)
             /\ MembersTo(m, i) = MembersTo(m, i - 1) \cup Row(k, Vals(m, k))
             /\ \A x \in MembersTo(m, i - 1), y \in Row(k, Vals(m, k)) : x < y
             /\ MembersTo(m, i - 1) = {x \in Members(m) : highBytes(x) \in {j \in Keys(m) : j < k}}
<1> DEFINE K == Keys(m)
           k == KeySeq(m)[i]
           V == Vals(m, k)
<1>1. K \in SUBSET Nat /\ K \in SUBSET Halves /\ IsFiniteSet(K) /\ KeySeq(m) = Ordered(K)
  BY KeysInOrder
<1>2. k \in K /\ Firsts(K, i - 1) = {j \in K : j < k} /\ Firsts(K, i) = Firsts(K, i - 1) \cup {k}
  BY <1>1, FirstsFacts
<1> HIDE DEF k
<1>3. V \in SUBSET Lowers /\ k \in Halves
  BY <1>1, <1>2, MapParts
<1> HIDE DEF V
<1>4. \A y \in Row(k, V) : y \in Values /\ highBytes(y) = k /\ lowBytes(y) \in V
  BY <1>3, RowFacts
<1>5. Members(m) \in SUBSET Values
  BY MembersAreValues
<1>6. \A y \in Row(k, V) : y \in Members(m)
  BY <1>2, <1>4, MemberAt DEF V
<1>7. ASSUME NEW y \in Members(m), highBytes(y) = k PROVE y \in Row(k, V)
  <2>1. lowBytes(y) \in V /\ uniteBytes(highBytes(y), lowBytes(y)) = y
    BY <1>5, <1>7, MemberAt, Halved DEF V
  <2> QED
    BY <1>7, <2>1 DEF Row
<1>8. MembersTo(m, i) = MembersTo(m, i - 1) \cup Row(k, V)
  BY <1>2, <1>4, <1>6, <1>7 DEF MembersTo, K
<1>9. ASSUME NEW x \in MembersTo(m, i - 1), NEW y \in Row(k, V) PROVE x < y
  <2>1. x \in Values /\ highBytes(x) < k /\ highBytes(x) \in Halves /\ x \in Nat
    BY <1>2, <1>5, Halved, FiniteValues DEF MembersTo
  <2>2. y \in Values /\ y \in Nat /\ highBytes(y) = k /\ lowBytes(y) \in Lowers /\ uniteBytes(highBytes(y), lowBytes(y)) = y
    BY <1>4, Halved, FiniteValues
  <2>3. ~(uniteBytes(highBytes(y), lowBytes(y)) <= x)
    <3>1. uniteBytes(k, lowBytes(y)) <= x <=> k < highBytes(x) \/ (k = highBytes(x) /\ lowBytes(y) <= lowBytes(x))
      BY <1>3, <2>1, <2>2, InOrder
    <3>2. k \in Nat /\ highBytes(x) \in Nat
      BY <1>3, <2>1, Bounds
    <3> QED
      BY <2>1, <2>2, <3>1, <3>2
  <2> QED
    BY <2>1, <2>2, <2>3
<1>10. MembersTo(m, i - 1) = {x \in Members(m) : highBytes(x) \in {j \in Keys(m) : j < k}}
  BY <1>2 DEF MembersTo, K
<1> QED
  BY <1>2, <1>8, <1>9, <1>10 DEF V, k, K

\* No inner bitmap, and all of them.
LEMMA MembersToEnds ==
  ASSUME NEW m \in Maps
  PROVE  MembersTo(m, 0) = {} /\ MembersTo(m, Cardinality(Keys(m))) = Members(m)
<1>1. Firsts(Keys(m), 0) = {} /\ Firsts(Keys(m), Cardinality(Keys(m))) = Keys(m)
  BY KeysInOrder, FirstsEnds
<1>2. \A x \in Members(m) : highBytes(x) \in Keys(m)
  BY MembersAreValues, MemberAt
<1> QED
  BY <1>1, <1>2 DEF MembersTo

\* One inner bitmap that select passes.
Selected(m, acc, k) ==
  IF acc.found # Throws THEN acc
  ELSE IF acc.rank < Cardinality(Vals(m, k))
  THEN [acc EXCEPT !.found = uniteBytes(k, Ordered(Vals(m, k))[acc.rank + 1])]
  ELSE [acc EXCEPT !.rank = @ - Cardinality(Vals(m, k))]

\* The rank and the value it goes on with are numbers.
LEMMA SelectedType ==
  ASSUME NEW m \in Maps, NEW acc \in [rank : Nat, found : Int], NEW k \in Keys(m)
  PROVE  Selected(m, acc, k) \in [rank : Nat, found : Int]
<1> DEFINE V == Vals(m, k)
           d == Cardinality(V)
           v == Ordered(V)[acc.rank + 1]
<1>1. V \in SUBSET Lowers /\ k \in Halves
  BY MapParts
<1>2. V \in SUBSET Nat /\ IsFiniteSet(V)
  BY <1>1, RowFacts, Bounds
<1> HIDE DEF V
<1>3. d \in Nat
  BY <1>2, FS_CardinalityType
<1>4. acc.rank \in Nat /\ acc.found \in Int
  OBVIOUS
<1>5. acc.rank < d => uniteBytes(k, v) \in Int
  <2> SUFFICES ASSUME acc.rank < d PROVE uniteBytes(k, v) \in Int
    OBVIOUS
  <2>1. acc.rank + 1 \in 1..d
    BY <1>3, <1>4
  <2>2. v \in V
    BY <1>2, <2>1, OrderedFacts
  <2>3. uniteBytes(k, v) \in Values
    BY <1>1, <2>2, United
  <2> QED
    BY <2>3 DEF Values
<1>6. ~(acc.rank < d) => acc.rank - d \in Nat
  BY <1>3, <1>4
<1> HIDE DEF d, v
<1> QED
  BY <1>4, <1>5, <1>6 DEF Selected, V, d, v

\* select passes the inner bitmaps in the order of the keys.
LEMMA SelectTurns ==
  ASSUME NEW m \in Maps, NEW rnk \in Nat
  PROVE  \E c : /\ select(m, rnk) = c[Cardinality(Keys(m))].found
                /\ c[0] = [rank |-> rnk, found |-> Throws]
                /\ \A i \in 1..Cardinality(Keys(m)) : c[i] = Selected(m, c[i - 1], KeySeq(m)[i])
<1> DEFINE n == Cardinality(Keys(m))
           A == [rank : Nat, found : Int]
           s == KeySeq(m)
           base == [rank |-> rnk, found |-> Throws]
           Step(it) == [x \in SUBSET DOMAIN s |->
                          IF x = {} THEN base ELSE Selected(m, it[x \ {Max(x)}], s[Max(x)])]
           it == CHOOSE f : f = Step(f)
           G == [p \in (1..n) \X A |-> Selected(m, p[2], s[p[1]])]
<1>1. select(m, rnk) = it[DOMAIN s].found
  BY DEF select, Selected, FoldLeft, MapThenFoldSet
<1>2. n \in Nat /\ DOMAIN s = 1..n /\ \A i \in 1..n : s[i] \in Keys(m)
  BY KeysInOrder
<1> HIDE DEF s, n
<1>3. \A acc \in A, e \in Keys(m) : Selected(m, acc, e) \in A
  BY SelectedType
<1>4. base \in A
  BY DEF Throws
<1> HIDE DEF A, base
<1>5. G \in [(1..n) \X A -> A]
  BY <1>2, <1>3
<1> HIDE DEF G
<1>6. PICK f \in [SUBSET (1..n) -> A] : Folds(f, n, base, G)
  BY <1>2, <1>4, <1>5, FoldExists
<1>7. ASSUME NEW x \in SUBSET (1..n), x # {}
      PROVE  f[x] = Selected(m, f[x \ {Max(x)}], s[Max(x)])
  <2>1. Max(x) \in 1..n /\ x \ {Max(x)} \in SUBSET (1..n)
    BY <1>2, <1>7, LastIndex
  <2>2. f[x \ {Max(x)}] \in A
    BY <2>1
  <2> QED
    BY <1>6, <1>7, <2>1, <2>2 DEF G, Folds
<1>8. f = Step(f)
  BY <1>2, <1>6, <1>7 DEF Folds
<1>9. it = Step(it)
  BY <1>8
<1> HIDE DEF it
<1>10. \A x \in SUBSET (1..n) : it[x] = IF x = {} THEN base ELSE Selected(m, it[x \ {Max(x)}], s[Max(x)])
  BY <1>2, <1>9
<1>11. ASSUME NEW i \in 1..n PROVE it[1..i] = Selected(m, it[1..(i - 1)], s[i])
  <2>1. 1..i \in SUBSET (1..n) /\ 1..i # {} /\ Max(1..i) = i /\ (1..i) \ {Max(1..i)} = 1..(i - 1)
    BY <1>2, Segment
  <2>2. it[1..i] = Selected(m, it[(1..i) \ {Max(1..i)}], s[Max(1..i)])
    BY <1>10, <2>1
  <2> QED
    BY <2>1, <2>2
<1> DEFINE c == [i \in 0..n |-> it[1..i]]
<1>12. c[0] = base
  <2>1. 1..0 = {} /\ 0 \in 0..n
    BY <1>2
  <2>2. c[0] = it[1..0]
    BY <2>1
  <2>3. it[{}] = base
    BY <1>10
  <2> QED
    BY <2>1, <2>2, <2>3
<1>13. ASSUME NEW i \in 1..n PROVE c[i] = Selected(m, c[i - 1], s[i])
  <2>1. i \in 0..n /\ i - 1 \in 0..n
    BY <1>2
  <2>2. c[i] = it[1..i] /\ c[i - 1] = it[1..(i - 1)]
    BY <2>1
  <2> QED
    BY <1>11, <2>2
<1>14. c[n] = it[DOMAIN s]
  BY <1>2
<1> HIDE DEF c
<1>15. select(m, rnk) = c[n].found
  BY <1>1, <1>14
<1> QED
  BY <1>12, <1>13, <1>15 DEF n, s, base

\* What select knows when it has passed i inner bitmaps.
SelectedTo(m, rnk, i) ==
  {acc \in [rank : Nat, found : Int] :
     IF acc.found = Throws THEN acc.rank + Cardinality(MembersTo(m, i)) = rnk
     ELSE acc.found \in Members(m) /\ Cardinality(Below(Members(m), acc.found)) = rnk}

\* The next inner bitmap has the value of the rank, or is passed.
LEMMA SelectContinues ==
  ASSUME NEW m \in Maps, NEW rnk \in Nat, NEW i \in 1..Cardinality(Keys(m)),
         NEW acc \in SelectedTo(m, rnk, i - 1)
  PROVE  Selected(m, acc, KeySeq(m)[i]) \in SelectedTo(m, rnk, i)
<1> DEFINE k == KeySeq(m)[i]
           V == Vals(m, k)
           d == Cardinality(V)
           A == MembersTo(m, i - 1)
           S == Members(m)
           r == Selected(m, acc, k)
<1>1. /\ k \in Keys(m) /\ MembersTo(m, i) = A \cup Row(k, V) /\ \A x \in A, y \in Row(k, V) : x < y
      /\ A = {x \in S : highBytes(x) \in {j \in Keys(m) : j < k}}
  BY MembersToFacts
<1> HIDE DEF k
<1>2. V \in SUBSET Lowers /\ k \in Halves /\ V \in SUBSET Nat
  BY <1>1, MapParts, Bounds
<1> HIDE DEF A
<1>3. S \in SUBSET Values /\ A \in SUBSET Values /\ S \in SUBSET Nat
  BY <1>1, MembersAreValues, FiniteValues
<1>4. acc \in [rank : Nat, found : Int]
  BY DEF SelectedTo
<1>5. r \in [rank : Nat, found : Int]
  BY <1>1, <1>4, SelectedType
<1> HIDE DEF V
<1>6. IsFiniteSet(V) /\ d \in Nat
  BY <1>2, RowFacts, FS_CardinalityType
<1> HIDE DEF d
<1>7. CASE acc.found # Throws
  <2>1. r = acc
    BY <1>7 DEF Selected
  <2> QED
    BY <1>5, <1>7, <2>1 DEF SelectedTo, k
<1>8. CASE acc.found = Throws /\ acc.rank < d
  <2> DEFINE v == Ordered(V)[acc.rank + 1]
             x == uniteBytes(k, v)
             W == Below(V, v)
  <2>1. acc.rank + 1 \in 1..d /\ acc.rank + 1 - 1 = acc.rank
    BY <1>4, <1>6, <1>8
  <2>2. v \in V /\ Cardinality(W) = acc.rank
    <3> DEFINE p == acc.rank + 1
    <3>1. p \in 1..d /\ p - 1 = acc.rank
      BY <1>4, <2>1
    <3> HIDE DEF p
    <3>2. Ordered(V)[p] \in V /\ Cardinality(Below(V, Ordered(V)[p])) = p - 1
      BY <1>2, <1>6, <3>1, OrderedFacts DEF d
    <3> QED
      BY <3>1, <3>2 DEF p
  <2>3. r = [acc EXCEPT !.found = x]
    BY <1>8 DEF Selected, V, d
  <2>4. r.found = x
    BY <1>4, <2>3
  <2> HIDE DEF v, r
  <2>5. x \in S /\ x \in Values /\ x \in Nat /\ highBytes(x) = k /\ lowBytes(x) = v /\ v \in Lowers /\ v \in Nat
    BY <1>1, <1>2, <1>3, <2>2, InnerMember DEF V
  <2>6. x # Throws
    BY <2>5 DEF Throws
  <2>7. ValsOrNone(m, k) = V
    BY <1>1 DEF ValsOrNone, V
  <2>8. W \in SUBSET ValsOrNone(m, k)
    BY <2>7 DEF Below
  <2> DEFINE C == {y \in S : highBytes(y) < k \/ (highBytes(y) = k /\ lowBytes(y) \in W)}
  <2>9. Counted(m, {j \in Keys(m) : j < k}) + Cardinality(W) = Cardinality(C)
    BY <1>2, <2>8, CountBelow
  <2>10. Counted(m, {j \in Keys(m) : j < k}) = Cardinality(A)
    BY <1>1, CountedFacts
  <2>11. C = Below(S, x)
    <3>1. ASSUME NEW y \in S PROVE y < x <=> highBytes(y) < k \/ (highBytes(y) = k /\ lowBytes(y) \in W)
      <4>1. y \in Values /\ y \in Nat
        BY <1>3
      <4>2. /\ highBytes(y) \in Nat /\ lowBytes(y) \in Nat /\ highBytes(y) \in Halves /\ lowBytes(y) \in Lowers
            /\ uniteBytes(highBytes(y), lowBytes(y)) = y
        BY <4>1, Halved, Bounds
      <4>3. lowBytes(y) \in ValsOrNone(m, highBytes(y))
        BY <4>1, MemberAt
      <4> HIDE DEF x
      <4>4. x <= y <=> k < highBytes(y) \/ (k = highBytes(y) /\ v <= lowBytes(y))
        BY <1>2, <2>5, <4>1, InOrder DEF x
      <4>5. k \in Nat
        BY <1>2, Bounds
      <4>6. y < x <=> highBytes(y) < k \/ (highBytes(y) = k /\ lowBytes(y) < v)
        BY <2>5, <4>1, <4>2, <4>4, <4>5
      <4> QED
        BY <2>7, <4>3, <4>6 DEF Below
    <3> QED
      BY <3>1 DEF Below
  <2>12. acc.rank + Cardinality(A) = rnk
    BY <1>8 DEF SelectedTo, A
  <2>13. Cardinality(A) \in Nat
    BY <1>3, FiniteValues
  <2>14. Cardinality(Below(S, x)) = Cardinality(A) + Cardinality(W)
    BY <2>9, <2>10, <2>11
  <2>15. Cardinality(Below(S, x)) = rnk
    BY <1>4, <2>2, <2>12, <2>13, <2>14
  <2> QED
    BY <1>5, <2>4, <2>5, <2>6, <2>15 DEF SelectedTo, r, k
<1>9. CASE acc.found = Throws /\ ~(acc.rank < d)
  <2>1. r = [acc EXCEPT !.rank = @ - d]
    BY <1>9 DEF Selected, V, d
  <2>2. r.found = Throws /\ r.rank = acc.rank - d
    BY <1>4, <1>9, <2>1
  <2>3. acc.rank + Cardinality(A) = rnk
    BY <1>9 DEF SelectedTo, A
  <2> DEFINE B == Row(k, V)
  <2>4. IsFiniteSet(B) /\ Cardinality(B) = d /\ B \in SUBSET Values
    BY <1>2, RowFacts DEF d
  <2>5. A \cap B = {}
    <3>1. \A x \in A, y \in B : x < y /\ x \in Nat
      BY <1>1, <1>3, FiniteValues
    <3>2. \A x \in A, y \in B : x # y
      BY <3>1
    <3> HIDE DEF B
    <3> QED
      BY <3>2
  <2> HIDE DEF B
  <2>6. IsFiniteSet(A) /\ Cardinality(A) \in Nat
    BY <1>3, FiniteValues
  <2>7. Cardinality(A \cap B) = 0
    BY <2>5, FS_EmptySet
  <2>8. Cardinality(A \cup B) = Cardinality(A) + Cardinality(B) - Cardinality(A \cap B)
    BY <2>4, <2>6, FS_Union
  <2>9. Cardinality(MembersTo(m, i)) = Cardinality(A) + d
    BY <1>1, <1>6, <2>4, <2>6, <2>7, <2>8 DEF B
  <2>10. r.rank + Cardinality(MembersTo(m, i)) = rnk
    BY <1>4, <1>6, <2>2, <2>3, <2>6, <2>9
  <2> HIDE DEF r
  <2> QED
    BY <1>5, <2>2, <2>10 DEF SelectedTo, r, k
<1> QED
  BY <1>7, <1>8, <1>9 DEF k

\* select gives the value of a rank, or none when there are not so many.
LEMMA SelectCorrect ==
  ASSUME NEW m \in Maps, NEW rnk \in Nat
  PROVE  select(m, rnk) = IF rnk < Cardinality(Members(m)) THEN Ordered(Members(m))[rnk + 1] ELSE Throws
<1> DEFINE n == Cardinality(Keys(m))
           S == Members(m)
<1>1. PICK c : /\ select(m, rnk) = c[n].found
               /\ c[0] = [rank |-> rnk, found |-> Throws]
               /\ \A i \in 1..n : c[i] = Selected(m, c[i - 1], KeySeq(m)[i])
  BY SelectTurns
<1>2. n \in Nat
  BY KeysInOrder
<1> DEFINE T == {i \in Nat : i <= n => c[i] \in SelectedTo(m, rnk, i)}
<1>3. 0 \in T
  <2>1. Cardinality(MembersTo(m, 0)) = 0
    BY MembersToEnds, FS_EmptySet
  <2> QED
    BY <1>1, <2>1 DEF SelectedTo, Throws
<1>4. ASSUME NEW i \in 1..n, i - 1 \in T PROVE i \in T
  <2>1. c[i - 1] \in SelectedTo(m, rnk, i - 1)
    BY <1>2, <1>4
  <2>2. c[i] \in SelectedTo(m, rnk, i)
    BY <1>1, <2>1, SelectContinues
  <2> QED
    BY <1>2, <2>2
<1> HIDE DEF n
<1>5. n \in T
  <2> HIDE DEF T
  <2> QED
    BY <1>2, <1>3, <1>4, BoundedInduction
<1>6. c[n] \in SelectedTo(m, rnk, n)
  BY <1>2, <1>5
<1>7. MembersTo(m, n) = S
  BY MembersToEnds DEF n
<1>8. S \in SUBSET Values
  BY MembersAreValues
<1>9. S \in SUBSET Nat /\ IsFiniteSet(S) /\ Cardinality(S) \in Nat
  BY <1>8, FiniteValues
<1> DEFINE x == c[n].found
<1>10. CASE x = Throws
  <2>1. c[n].rank + Cardinality(S) = rnk /\ c[n].rank \in Nat
    BY <1>6, <1>7, <1>10 DEF SelectedTo
  <2>2. ~(rnk < Cardinality(S))
    BY <1>9, <2>1
  <2> QED
    BY <1>1, <1>10, <2>2
<1>11. CASE x # Throws
  <2>1. x \in S /\ Cardinality(Below(S, x)) = rnk
    BY <1>6, <1>11 DEF SelectedTo
  <2> HIDE DEF x, S
  <2>2. Ordered(S)[Cardinality(Below(S, x)) + 1] = x
    BY <1>9, <2>1, OrderedFacts
  <2>3. Cardinality(Below(S, x)) < Cardinality(S)
    BY <1>9, <2>1, BelowIsFewer
  <2> QED
    BY <1>1, <2>1, <2>2, <2>3 DEF x, S
<1> QED
  BY <1>10, <1>11

\* One inner bitmap that iterate goes through, up to `stop'.
Iterated(m, stop, acc, k) ==
  LET vals == {uniteBytes(k, v) : v \in Vals(m, k)}
  IN  IF ~acc.should_continue THEN acc
      ELSE [seen |-> acc.seen \o Ordered({v \in vals : stop \in vals => v <= stop}),
            should_continue |-> stop \notin vals]

\* The values seen are values.
LEMMA IteratedType ==
  ASSUME NEW m \in Maps, NEW stop, NEW acc \in [seen : Seq(Values), should_continue : BOOLEAN],
         NEW k \in Keys(m)
  PROVE  Iterated(m, stop, acc, k) \in [seen : Seq(Values), should_continue : BOOLEAN]
<1> DEFINE vals == {uniteBytes(k, v) : v \in Vals(m, k)}
           X == {v \in vals : stop \in vals => v <= stop}
<1>1. vals \in SUBSET Values
  BY InnerMember
<1>2. X \in SUBSET Values
  BY <1>1
<1> HIDE DEF X
<1>3. X \in SUBSET Nat /\ IsFiniteSet(X)
  BY <1>2, FiniteValues
<1>4. Ordered(X) \in Seq(X)
  BY <1>3, OrderedFacts
<1>5. Ordered(X) \in Seq(Values)
  BY <1>2, <1>4
<1> DEFINE o == Ordered(X)
<1> HIDE DEF o
<1>6. acc.seen \o o \in Seq(Values)
  BY <1>5 DEF o
<1> DEFINE go == stop \notin vals
<1>7. go \in BOOLEAN
  OBVIOUS
<1> HIDE DEF vals, go
<1>8. [seen |-> acc.seen \o o, should_continue |-> go] \in [seen : Seq(Values), should_continue : BOOLEAN]
  BY <1>6, <1>7
<1> QED
  BY <1>8 DEF Iterated, vals, X, o, go

\* iterate goes through the inner bitmaps in the order of the keys.
LEMMA IterateTurns ==
  ASSUME NEW m \in Maps, NEW stop
  PROVE  \E c : /\ iterate(m, stop) = c[Cardinality(Keys(m))].seen
                /\ c[0] = [seen |-> <<>>, should_continue |-> TRUE]
                /\ \A i \in 1..Cardinality(Keys(m)) : c[i] = Iterated(m, stop, c[i - 1], KeySeq(m)[i])
<1> DEFINE n == Cardinality(Keys(m))
           A == [seen : Seq(Values), should_continue : BOOLEAN]
           s == KeySeq(m)
           base == [seen |-> <<>>, should_continue |-> TRUE]
           Step(it) == [x \in SUBSET DOMAIN s |->
                          IF x = {} THEN base ELSE Iterated(m, stop, it[x \ {Max(x)}], s[Max(x)])]
           it == CHOOSE f : f = Step(f)
           G == [p \in (1..n) \X A |-> Iterated(m, stop, p[2], s[p[1]])]
<1>1. iterate(m, stop) = it[DOMAIN s].seen
  BY DEF iterate, Iterated, FoldLeft, MapThenFoldSet
<1>2. n \in Nat /\ DOMAIN s = 1..n /\ \A i \in 1..n : s[i] \in Keys(m)
  BY KeysInOrder
<1> HIDE DEF s, n
<1>3. \A acc \in A, e \in Keys(m) : Iterated(m, stop, acc, e) \in A
  BY IteratedType
<1>4. base \in A
  OBVIOUS
<1> HIDE DEF A, base
<1>5. G \in [(1..n) \X A -> A]
  BY <1>2, <1>3
<1> HIDE DEF G
<1>6. PICK f \in [SUBSET (1..n) -> A] : Folds(f, n, base, G)
  BY <1>2, <1>4, <1>5, FoldExists
<1>7. ASSUME NEW x \in SUBSET (1..n), x # {}
      PROVE  f[x] = Iterated(m, stop, f[x \ {Max(x)}], s[Max(x)])
  <2>1. Max(x) \in 1..n /\ x \ {Max(x)} \in SUBSET (1..n)
    BY <1>2, <1>7, LastIndex
  <2>2. f[x \ {Max(x)}] \in A
    BY <2>1
  <2> QED
    BY <1>6, <1>7, <2>1, <2>2 DEF G, Folds
<1>8. f = Step(f)
  BY <1>2, <1>6, <1>7 DEF Folds
<1>9. it = Step(it)
  BY <1>8
<1> HIDE DEF it
<1>10. \A x \in SUBSET (1..n) : it[x] = IF x = {} THEN base ELSE Iterated(m, stop, it[x \ {Max(x)}], s[Max(x)])
  BY <1>2, <1>9
<1>11. ASSUME NEW i \in 1..n PROVE it[1..i] = Iterated(m, stop, it[1..(i - 1)], s[i])
  <2>1. 1..i \in SUBSET (1..n) /\ 1..i # {} /\ Max(1..i) = i /\ (1..i) \ {Max(1..i)} = 1..(i - 1)
    BY <1>2, Segment
  <2>2. it[1..i] = Iterated(m, stop, it[(1..i) \ {Max(1..i)}], s[Max(1..i)])
    BY <1>10, <2>1
  <2> QED
    BY <2>1, <2>2
<1> DEFINE c == [i \in 0..n |-> it[1..i]]
<1>12. c[0] = base
  <2>1. 1..0 = {} /\ 0 \in 0..n
    BY <1>2
  <2>2. c[0] = it[1..0]
    BY <2>1
  <2>3. it[{}] = base
    BY <1>10
  <2> QED
    BY <2>1, <2>2, <2>3
<1>13. ASSUME NEW i \in 1..n PROVE c[i] = Iterated(m, stop, c[i - 1], s[i])
  <2>1. i \in 0..n /\ i - 1 \in 0..n
    BY <1>2
  <2>2. c[i] = it[1..i] /\ c[i - 1] = it[1..(i - 1)]
    BY <2>1
  <2> QED
    BY <1>11, <2>2
<1>14. c[n] = it[DOMAIN s]
  BY <1>2
<1> HIDE DEF c
<1>15. iterate(m, stop) = c[n].seen
  BY <1>1, <1>14
<1> QED
  BY <1>12, <1>13, <1>15 DEF n, s, base

\* The elements up to `stop', when it is one of them.
UpTo(S, stop) == {v \in S : stop \in S => v <= stop}

\* What iterate has seen in the first i inner bitmaps.
IteratedTo(m, stop, i) ==
  {acc \in [seen : Seq(Values), should_continue : BOOLEAN] :
     /\ acc.should_continue <=> stop \notin MembersTo(m, i)
     /\ acc.seen = Ordered(UpTo(MembersTo(m, i), stop))}

\* The next inner bitmap adds its values in order, up to `stop'.
LEMMA IterateContinues ==
  ASSUME NEW m \in Maps, NEW stop \in Values, NEW i \in 1..Cardinality(Keys(m)),
         NEW acc \in IteratedTo(m, stop, i - 1)
  PROVE  Iterated(m, stop, acc, KeySeq(m)[i]) \in IteratedTo(m, stop, i)
<1> DEFINE k == KeySeq(m)[i]
           A == MembersTo(m, i - 1)
           B == Row(k, Vals(m, k))
           r == Iterated(m, stop, acc, k)
<1>1. k \in Keys(m) /\ MembersTo(m, i) = A \cup B /\ \A x \in A, y \in B : x < y
  BY MembersToFacts
<1>2. A \in SUBSET Values
  BY MembersAreValues DEF MembersTo
<1> HIDE DEF k
<1>3. B \in SUBSET Values
  BY <1>1, MapParts, RowFacts
<1>4. /\ acc \in [seen : Seq(Values), should_continue : BOOLEAN]
      /\ acc.should_continue <=> stop \notin A
      /\ acc.seen = Ordered(UpTo(A, stop))
  BY DEF IteratedTo
<1>5. r \in [seen : Seq(Values), should_continue : BOOLEAN]
  BY <1>1, <1>4, IteratedType
<1>6. r = IF ~acc.should_continue THEN acc
          ELSE [seen |-> acc.seen \o Ordered(UpTo(B, stop)), should_continue |-> stop \notin B]
  BY DEF Iterated, Row, UpTo
<1> HIDE DEF A, B, r
<1>7. A \in SUBSET Nat /\ B \in SUBSET Nat /\ stop \in Nat /\ IsFiniteSet(A) /\ IsFiniteSet(B)
  BY <1>2, <1>3, FiniteValues
<1>8. CASE stop \in A
  <2>1. UpTo(A \cup B, stop) = UpTo(A, stop)
    <3>1. \A v \in B : v \in Nat /\ stop < v
      BY <1>1, <1>7, <1>8
    <3>2. \A v \in B : ~(v <= stop)
      BY <1>7, <3>1
    <3> QED
      BY <1>8, <3>2 DEF UpTo
  <2>2. r = acc
    BY <1>4, <1>6, <1>8
  <2>3. acc.should_continue <=> stop \notin A \cup B
    BY <1>4, <1>8
  <2> QED
    BY <1>1, <1>4, <1>5, <2>1, <2>2, <2>3 DEF IteratedTo, r, k
<1>9. CASE stop \notin A
  <2> DEFINE C == UpTo(B, stop)
  <2>1. r = [seen |-> acc.seen \o Ordered(C), should_continue |-> stop \notin B]
    BY <1>4, <1>6, <1>9
  <2>2. UpTo(A, stop) = A
    BY <1>9 DEF UpTo
  <2>3. C \in SUBSET B
    BY DEF UpTo
  <2>4. UpTo(A \cup B, stop) = A \cup C
    <3>1. ASSUME stop \in B, NEW v \in A PROVE v <= stop
      <4>1. v \in Nat /\ v < stop
        BY <1>1, <1>7, <3>1
      <4> QED
        BY <1>7, <4>1
    <3> QED
      BY <1>9, <3>1 DEF UpTo
  <2> HIDE DEF C
  <2>5. C \in SUBSET Nat /\ IsFiniteSet(C) /\ \A v \in A, w \in C : v < w
    BY <1>1, <1>7, <2>3, FS_Subset
  <2>6. Ordered(A) \o Ordered(C) = Ordered(A \cup C)
    BY <1>7, <2>5, OrderedConcat
  <2>7. r.seen = Ordered(UpTo(A \cup B, stop))
    BY <1>4, <2>1, <2>2, <2>4, <2>6
  <2>8. r.should_continue <=> stop \notin A \cup B
    BY <1>9, <2>1
  <2> QED
    BY <1>1, <1>5, <2>7, <2>8 DEF IteratedTo, r, k
<1> QED
  BY <1>8, <1>9

\* iterate sees the values in order, up to the one it is stopped at.
LEMMA IterateCorrect ==
  ASSUME NEW m \in Maps, NEW stop \in Values
  PROVE  iterate(m, stop) = Ordered({v \in Members(m) : stop \in Members(m) => v <= stop})
<1> DEFINE n == Cardinality(Keys(m))
<1>1. PICK c : /\ iterate(m, stop) = c[n].seen
               /\ c[0] = [seen |-> <<>>, should_continue |-> TRUE]
               /\ \A i \in 1..n : c[i] = Iterated(m, stop, c[i - 1], KeySeq(m)[i])
  BY IterateTurns
<1>2. n \in Nat
  BY KeysInOrder
<1> DEFINE T == {i \in Nat : i <= n => c[i] \in IteratedTo(m, stop, i)}
<1>3. 0 \in T
  <2>1. MembersTo(m, 0) = {}
    BY MembersToEnds
  <2>2. UpTo({}, stop) = {}
    BY DEF UpTo
  <2>3. Ordered({}) = <<>>
    <3>1. Ordered({}) \in Seq({}) /\ Len(Ordered({})) = 0
      BY FS_EmptySet, OrderedFacts
    <3> DEFINE o == Ordered({})
    <3> HIDE DEF o
    <3>2. o = <<>>
      BY <3>1 DEF o
    <3> QED
      BY <3>2 DEF o
  <2>4. c[0].seen = Ordered(UpTo(MembersTo(m, 0), stop)) /\ (c[0].should_continue <=> stop \notin MembersTo(m, 0))
    <3>1. c[0].seen = <<>> /\ c[0].should_continue = TRUE
      BY <1>1
    <3> QED
      BY <2>1, <2>2, <2>3, <3>1
  <2>5. c[0] \in [seen : Seq(Values), should_continue : BOOLEAN]
    BY <1>1
  <2> QED
    BY <2>4, <2>5 DEF IteratedTo
<1>4. ASSUME NEW i \in 1..n, i - 1 \in T PROVE i \in T
  <2>1. c[i - 1] \in IteratedTo(m, stop, i - 1)
    BY <1>2, <1>4
  <2>2. c[i] \in IteratedTo(m, stop, i)
    BY <1>1, <2>1, IterateContinues
  <2> QED
    BY <1>2, <2>2
<1> HIDE DEF n
<1>5. n \in T
  <2> HIDE DEF T
  <2> QED
    BY <1>2, <1>3, <1>4, BoundedInduction
<1>6. c[n].seen = Ordered(UpTo(MembersTo(m, n), stop))
  BY <1>2, <1>5 DEF IteratedTo
<1>7. MembersTo(m, n) = Members(m)
  BY MembersToEnds DEF n
<1> QED
  BY <1>1, <1>6, <1>7 DEF UpTo

-----------------------------------------------------------------------------
(* Ranges.                                                                 *)

\* The lower bound of a key is that key when the map has it.
LEMMA LowerBoundHits ==
  ASSUME NEW m \in Maps, NEW h \in Halves
  PROVE  lower_bound(m, h) = h <=> h \in Keys(m)
<1> DEFINE end == lower_bound(m, h)
<1>1. h \in Nat /\ Keys(m) \in SUBSET Nat /\ End \notin Halves /\ Keys(m) \in SUBSET Halves
  BY MapParts, Bounds DEF Halves, End
<1>2. end \in Nat /\ end \in Keys(m) \cup {End} /\ (end # End => end >= h) /\ \A k \in Keys(m) : k >= h <=> k >= end
  BY <1>1, LowerBound
<1> HIDE DEF end
<1>3. ASSUME h \in Keys(m) PROVE end = h
  <2>1. h >= end
    BY <1>1, <1>2, <1>3
  <2>2. end # End
    BY <1>1, <2>1, Bounds DEF Halves, End
  <2> QED
    BY <1>1, <1>2, <2>1, <2>2
<1>4. ASSUME end = h PROVE h \in Keys(m)
  BY <1>1, <1>2, <1>4
<1> QED
  BY <1>3, <1>4 DEF end

\* A range is contained when its part at every key is, and no part is empty.
LEMMA RangeByParts ==
  ASSUME NEW m \in Maps, NEW min \in Values, NEW max \in Values, min <= max
  PROVE  (min..max) \subseteq Members(m) <=>
           \A h \in highBytes(min)..highBytes(max) : h \in Keys(m) /\ Part(h, min, max) \subseteq Vals(m, h)
<1> DEFINE s == highBytes(min)
           e == highBytes(max)
<1>1. /\ s \in Halves /\ e \in Halves /\ s \in Nat /\ e \in Nat /\ s <= e
      /\ lowBytes(min) \in Lowers /\ lowBytes(max) \in Lowers
      /\ s = e => lowBytes(min) <= lowBytes(max)
  BY Halved, Bounds, RangeEnds
<1>2. \A h \in s..e : h \in Halves
  <2> HIDE DEF s, e
  <2> QED
    BY <1>1, Bounds DEF Halves
<1>3. ASSUME NEW h \in s..e PROVE Part(h, min, max) # {}
  <2> DEFINE lo == IF h = s THEN lowBytes(min) ELSE 0
             hi == IF h = e THEN lowBytes(max) ELSE uint32_max
  <2>1. Part(h, min, max) = lo..hi
    BY DEF Part
  <2>2. lo \in Int /\ hi \in Int /\ lo <= hi
    <3>1. \A l \in Lowers : l \in Nat /\ l <= uint32_max /\ uint32_max \in Nat
      BY Bounds DEF Lowers, uint32_max
    <3> HIDE DEF s, e
    <3> QED
      BY <1>1, <3>1, Bounds
  <2> HIDE DEF lo, hi
  <2>3. lo \in lo..hi
    BY <2>2
  <2> QED
    BY <2>1, <2>3
<1>4. \A h \in Halves : /\ Part(h, min, max) \in SUBSET Lowers
                        /\ \A l \in Lowers : uniteBytes(h, l) \in min..max <=> h \in s..e /\ l \in Part(h, min, max)
  BY PartFacts
<1>5. ASSUME (min..max) \subseteq Members(m), NEW h \in s..e
      PROVE  h \in Keys(m) /\ Part(h, min, max) \subseteq Vals(m, h)
  <2>1. h \in Halves
    BY <1>2
  <2>2. \A l \in Part(h, min, max) : l \in ValsOrNone(m, h)
    <3>1. ASSUME NEW l \in Part(h, min, max) PROVE l \in ValsOrNone(m, h)
      <4>1. l \in Lowers /\ uniteBytes(h, l) \in min..max
        BY <1>4, <1>5, <2>1
      <4> QED
        BY <1>5, <2>1, <4>1, MemberHalves
    <3> QED
      BY <3>1
  <2>3. h \in Keys(m)
    BY <1>3, <2>2 DEF ValsOrNone
  <2> QED
    BY <2>2, <2>3 DEF ValsOrNone
<1>6. ASSUME \A h \in s..e : h \in Keys(m) /\ Part(h, min, max) \subseteq Vals(m, h), NEW x \in min..max
      PROVE  x \in Members(m)
  <2>1. x \in Values
    BY RangesAreValues
  <2>2. /\ highBytes(x) \in Halves /\ lowBytes(x) \in Lowers /\ uniteBytes(highBytes(x), lowBytes(x)) = x
    BY <2>1, Halved
  <2>3. highBytes(x) \in s..e /\ lowBytes(x) \in Part(highBytes(x), min, max)
    BY <1>4, <2>2
  <2> QED
    BY <1>6, <2>1, <2>3, MemberAt
<1> QED
  BY <1>5, <1>6

\* containsRangeClosed looks at the inner bitmaps of the range one after the other.
LEMMA ContainsRangeCorrect ==
  ASSUME NEW m \in Maps, NEW min \in Values, NEW max \in Values
  PROVE  containsRangeClosed(m, min, max) <=> (min..max) \subseteq Members(m)
<1> DEFINE s == highBytes(min)
           e == highBytes(max)
           Has(k, lo, hi) == (lo..hi) \subseteq Vals(m, k)
<1>1. /\ s \in Halves /\ e \in Halves /\ s \in Nat /\ e \in Nat /\ min \in Nat /\ max \in Nat
  BY Halved, Bounds, FiniteValues
<1>2. CASE min > max
  <2>1. min..max = {}
    BY <1>1, <1>2
  <2> QED
    BY <1>2, <2>1 DEF containsRangeClosed
<1>3. CASE ~(min > max)
  <2>1. min <= max
    BY <1>1, <1>3
  <2>2. (min..max) \subseteq Members(m) <=>
          \A h \in s..e : h \in Keys(m) /\ Part(h, min, max) \subseteq Vals(m, h)
    BY <2>1, RangeByParts
  <2>3. s <= e
    BY <2>1, RangeEnds
  <2>4. Part(s, min, max) = lowBytes(min)..(IF s = e THEN lowBytes(max) ELSE uint32_max)
    BY DEF Part
  <2>5. s # e => Part(e, min, max) = 0..lowBytes(max)
    BY DEF Part
  <2>6. \A h \in (s + 1)..(e - 1) : Part(h, min, max) = 0..uint32_max
    <3>1. \A h \in (s + 1)..(e - 1) : h # s /\ h # e
      BY <1>1
    <3> QED
      BY <3>1 DEF Part
  <2>7. CASE s = e
    <3>1. s..e = {s}
      BY <1>1, <2>7
    <3>2. containsRangeClosed(m, min, max) <=> s \in Keys(m) /\ (lowBytes(min)..lowBytes(max)) \subseteq Vals(m, s)
      BY <1>3, <2>7 DEF containsRangeClosed
    <3> QED
      BY <2>2, <2>4, <2>7, <3>1, <3>2
  <2>8. CASE s # e
    <3>1. \A h \in Halves : lower_bound(m, h) = h <=> h \in Keys(m)
      BY LowerBoundHits
    <3>2. \A h \in (s + 1)..(e - 1) : NextKey(m, h - 1) = h <=> h \in Keys(m)
      <4>1. ASSUME NEW h \in (s + 1)..(e - 1) PROVE NextKey(m, h - 1) = h <=> h \in Keys(m)
        <5>1. h \in Halves /\ h - 1 + 1 = h
          <6> HIDE DEF s, e
          <6> QED
            BY <1>1, Bounds DEF Halves
        <5> QED
          BY <3>1, <5>1 DEF NextKey
      <4> QED
        BY <4>1
    <3>3. NextKey(m, e - 1) = e <=> e \in Keys(m)
      <4>1. e - 1 + 1 = e
        BY <1>1
      <4> QED
        BY <1>1, <3>1, <4>1 DEF NextKey
    <3>4. containsRangeClosed(m, min, max) <=>
            /\ s \in Keys(m) /\ Has(s, lowBytes(min), uint32_max)
            /\ \A h \in (s + 1)..(e - 1) : NextKey(m, h - 1) = h /\ Has(h, 0, uint32_max)
            /\ NextKey(m, e - 1) = e /\ Has(e, 0, lowBytes(max))
      BY <1>3, <2>8 DEF containsRangeClosed
    <3>5. s..e = {s, e} \cup ((s + 1)..(e - 1))
      BY <1>1, <2>3
    <3> DEFINE In(h) == h \in Keys(m) /\ Part(h, min, max) \subseteq Vals(m, h)
    <3>6. In(s) <=> s \in Keys(m) /\ Has(s, lowBytes(min), uint32_max)
      BY <2>4, <2>8
    <3>7. In(e) <=> NextKey(m, e - 1) = e /\ Has(e, 0, lowBytes(max))
      BY <2>5, <2>8, <3>3
    <3>8. \A h \in (s + 1)..(e - 1) : In(h) <=> NextKey(m, h - 1) = h /\ Has(h, 0, uint32_max)
      BY <2>6, <3>2
    <3>9. (min..max) \subseteq Members(m) <=> \A h \in s..e : In(h)
      BY <2>2
    <3> HIDE DEF In, Has, s, e
    <3> QED
      BY <3>4, <3>5, <3>6, <3>7, <3>8, <3>9
  <2> QED
    BY <2>7, <2>8
<1> QED
  BY <1>2, <1>3

\* The overload for 32-bit arguments looks at the inner bitmap of key 0.
LEMMA ContainsRange32Correct ==
  ASSUME NEW m \in Maps, NEW min \in Lowers, NEW max \in Lowers
  PROVE  containsRangeClosed32(m, min, max) <=> (min..max) \subseteq Members(m)
<1>1. min \in Nat /\ max \in Nat
  BY Bounds
<1>2. \A x \in min..max : x \in Lowers
  BY <1>1, Bounds DEF Lowers
<1>3. \A x \in Lowers : x \in Members(m) <=> x \in ValsOrNone(m, 0)
  BY Values32, MemberAt
<1>4. (min..max) \subseteq Members(m) <=> (min..max) \subseteq ValsOrNone(m, 0)
  BY <1>2, <1>3
<1>5. (min..max) \subseteq {} <=> min > max
  <2>1. min <= max => min \in min..max
    BY <1>1
  <2>2. min > max => min..max = {}
    BY <1>1
  <2> QED
    BY <1>1, <2>1, <2>2
<1> QED
  BY <1>4, <1>5 DEF containsRangeClosed32, ValsOrNone

-----------------------------------------------------------------------------
(* Two maps: the counts.                                                   *)

\* Sets of keys are finite.
LEMMA FiniteHalves ==
  ASSUME NEW K \in SUBSET Halves
  PROVE  IsFiniteSet(K) /\ K \in SUBSET Nat /\ Cardinality(K) \in Nat
<1>1. IsFiniteSet(Halves)
  BY Bounds, FS_Interval DEF Halves
<1>2. IsFiniteSet(K)
  BY <1>1, FS_Subset
<1> QED
  BY <1>2, Bounds, FS_CardinalityType

\* Modulo the number of values: of a smaller number, and of that number.
LEMMA WrapsAround ==
  ASSUME NEW n \in Nat \ {0}, NEW x \in Int
  PROVE  /\ x % n \in Nat
         /\ x \in 0..(n - 1) => x % n = x
         /\ x = n => x % n = 0
<1>1. x % n \in Nat
  OBVIOUS
<1>2. ASSUME x \in 0..(n - 1) PROVE x % n = x
  <2>1. (0 * n + x) % n = x
    BY <1>2, ToHalves
  <2>2. 0 * n + x = x
    OBVIOUS
  <2> QED
    BY <2>1, <2>2
<1>3. ASSUME x = n PROVE x % n = 0
  <2>1. 0 \in 0..(n - 1)
    OBVIOUS
  <2>2. (1 * n + 0) % n = 0
    BY <2>1, ToHalves
  <2>3. 1 * n + 0 = n
    OBVIOUS
  <2> QED
    BY <1>3, <2>2, <2>3
<1> QED
  BY <1>1, <1>2, <1>3

\* A count is a number.
LEMMA AddsToInt ==
  ASSUME NEW lhs \in Int, NEW rhs \in Int
  PROVE  addCardinalities(lhs, rhs) \in Int
<1> DEFINE n == Highs * Lows
<1>1. n \in Nat \ {0}
  BY Bounds
<1> HIDE DEF n
<1>2. (lhs + rhs) % n \in Int
  BY <1>1, WrapsAround
<1> QED
  BY <1>2 DEF addCardinalities, n, Throws

\* The counts add up what the keys contribute, in the order of the keys.
LEMMA SumTurns ==
  ASSUME NEW count, DOMAIN count \in SUBSET Halves, \A k \in DOMAIN count : count[k] \in Nat
  PROVE  \E c : /\ SumOverKeys(count) = c[Cardinality(DOMAIN count)]
                /\ c[0] = 0
                /\ \A i \in 1..Cardinality(DOMAIN count) : c[i] = addCardinalities(c[i - 1], count[Ordered(DOMAIN count)[i]])
<1> DEFINE n == Cardinality(DOMAIN count)
           A == Int
           s == Ordered(DOMAIN count)
           base == 0
           Step(it) == [x \in SUBSET DOMAIN s |->
                          IF x = {} THEN base ELSE addCardinalities(it[x \ {Max(x)}], count[s[Max(x)]])]
           it == CHOOSE f : f = Step(f)
           G == [p \in (1..n) \X A |-> addCardinalities(p[2], count[s[p[1]]])]
<1>1. SumOverKeys(count) = it[DOMAIN s]
  BY DEF SumOverKeys, FoldLeft, MapThenFoldSet
<1>2. n \in Nat /\ DOMAIN s = 1..n /\ \A i \in 1..n : s[i] \in DOMAIN count
  BY Bounds, FiniteHalves, OrderedFacts
<1> HIDE DEF s, n
<1>3. \A acc \in A, e \in DOMAIN count : addCardinalities(acc, count[e]) \in A
  BY AddsToInt
<1>4. base \in A
  OBVIOUS
<1> HIDE DEF A, base
<1>5. G \in [(1..n) \X A -> A]
  BY <1>2, <1>3
<1> HIDE DEF G
<1>6. PICK f \in [SUBSET (1..n) -> A] : Folds(f, n, base, G)
  BY <1>2, <1>4, <1>5, FoldExists
<1>7. ASSUME NEW x \in SUBSET (1..n), x # {}
      PROVE  f[x] = addCardinalities(f[x \ {Max(x)}], count[s[Max(x)]])
  <2>1. Max(x) \in 1..n /\ x \ {Max(x)} \in SUBSET (1..n)
    BY <1>2, <1>7, LastIndex
  <2>2. f[x \ {Max(x)}] \in A
    BY <2>1
  <2> QED
    BY <1>6, <1>7, <2>1, <2>2 DEF G, Folds
<1>8. f = Step(f)
  BY <1>2, <1>6, <1>7 DEF Folds
<1>9. it = Step(it)
  BY <1>8
<1> HIDE DEF it
<1>10. \A x \in SUBSET (1..n) : it[x] = IF x = {} THEN base ELSE addCardinalities(it[x \ {Max(x)}], count[s[Max(x)]])
  BY <1>2, <1>9
<1>11. ASSUME NEW i \in 1..n PROVE it[1..i] = addCardinalities(it[1..(i - 1)], count[s[i]])
  <2>1. 1..i \in SUBSET (1..n) /\ 1..i # {} /\ Max(1..i) = i /\ (1..i) \ {Max(1..i)} = 1..(i - 1)
    BY <1>2, Segment
  <2>2. it[1..i] = addCardinalities(it[(1..i) \ {Max(1..i)}], count[s[Max(1..i)]])
    BY <1>10, <2>1
  <2> QED
    BY <2>1, <2>2
<1> DEFINE c == [i \in 0..n |-> it[1..i]]
<1>12. c[0] = base
  <2>1. 1..0 = {} /\ 0 \in 0..n
    BY <1>2
  <2>2. c[0] = it[1..0]
    BY <2>1
  <2>3. it[{}] = base
    BY <1>10
  <2> QED
    BY <2>1, <2>2, <2>3
<1>13. ASSUME NEW i \in 1..n PROVE c[i] = addCardinalities(c[i - 1], count[s[i]])
  <2>1. i \in 0..n /\ i - 1 \in 0..n
    BY <1>2
  <2>2. c[i] = it[1..i] /\ c[i - 1] = it[1..(i - 1)]
    BY <2>1
  <2> QED
    BY <1>11, <2>2
<1>14. c[n] = it[DOMAIN s]
  BY <1>2
<1> HIDE DEF c
<1>15. SumOverKeys(count) = c[n]
  BY <1>1, <1>14
<1> QED
  BY <1>12, <1>13, <1>15 DEF n, s, base

\* What a count answers: it throws for all values.
CountOf(S) == IF S = Values THEN Throws ELSE Cardinality(S)

\* The check for overflow sees it when the sum reaches 2^64, as long as one
\* inner bitmap alone cannot.
LEMMA AddCardinalitiesCorrect ==
  ASSUME Highs > 1, NEW A \in SUBSET Values, NEW B \in SUBSET Values, A \cap B = {}, Cardinality(B) <= Lows
  PROVE  addCardinalities(CountOf(A), Cardinality(B)) = CountOf(A \cup B)
<1> DEFINE n == Highs * Lows
           p == Cardinality(A)
           q == Cardinality(B)
           C == A \cup B
<1>1. n \in Nat \ {0} /\ Lows < n
  <2>1. Highs \in Nat /\ Lows \in Nat \ {0}
    BY Bounds
  <2>2. 2 * Lows <= Highs * Lows
    BY <2>1, ProductGrows
  <2> QED
    BY <2>1, <2>2
<1>2. /\ IsFiniteSet(A) /\ p \in Nat /\ p <= n /\ (p = n <=> A = Values)
      /\ IsFiniteSet(B) /\ q \in Nat
      /\ Cardinality(C) <= n /\ (Cardinality(C) = n <=> C = Values)
  BY FiniteValues
<1>3. Cardinality(A \cap B) = 0
  BY FS_EmptySet
<1>4. Cardinality(C) = p + q - Cardinality(A \cap B)
  BY <1>2, FS_Union
<1>5. Cardinality(C) = p + q /\ p + q <= n
  BY <1>2, <1>3, <1>4
<1>6. Lows \in Nat /\ q <= Lows
  BY Bounds
<1> HIDE DEF n, p, q, C
<1> DEFINE lhs == CountOf(A)
           sum == (lhs + q) % n
<1>7. addCardinalities(lhs, q) = IF lhs = Throws \/ sum < lhs THEN Throws ELSE sum
  BY DEF addCardinalities, n
<1>8. CASE A = Values
  <2>1. lhs = Throws
    BY <1>8 DEF CountOf
  <2>2. C = Values
    BY <1>8 DEF C
  <2> QED
    BY <1>7, <2>1, <2>2 DEF CountOf, C, q
<1>9. CASE A # Values
  <2>1. lhs = p /\ p < n /\ lhs # Throws
    BY <1>1, <1>2, <1>9 DEF CountOf, Throws, p
  <2>2. CASE C = Values
    <3>1. p + q = n
      BY <1>2, <1>5, <2>2
    <3>2. (p + q) % n = 0
      BY <1>1, <1>2, <3>1, WrapsAround
    <3>3. 0 < p
      BY <1>1, <1>2, <1>6, <3>1
    <3>4. sum < lhs
      BY <2>1, <3>2, <3>3
    <3> QED
      BY <1>7, <2>2, <3>4 DEF CountOf, C, q
  <2>3. CASE C # Values
    <3>1. p + q \in 0..(n - 1)
      BY <1>1, <1>2, <1>5, <2>3
    <3>2. (p + q) % n = p + q
      BY <1>1, <3>1, WrapsAround
    <3>3. ~(sum < lhs) /\ sum = p + q
      BY <1>2, <2>1, <3>2
    <3> QED
      BY <1>5, <1>7, <2>1, <2>3, <3>3 DEF CountOf, C, q
  <2> QED
    BY <2>2, <2>3
<1> QED
  BY <1>8, <1>9

\* S has the values at the keys K with the low halves W[k].
IsRows(S, K, W) ==
  /\ S \in SUBSET Values
  /\ \A h \in Halves, l \in Lowers : uniteBytes(h, l) \in S <=> h \in K /\ l \in W[h]

\* The sum over the keys is the count of all values.
LEMMA SumCorrect ==
  ASSUME Highs > 1, NEW K \in SUBSET Halves, NEW W \in [K -> SUBSET Lowers], NEW S, IsRows(S, K, W)
  PROVE  SumOverKeys([k \in K |-> Cardinality(W[k])]) = CountOf(S)
<1> DEFINE count == [k \in K |-> Cardinality(W[k])]
           n == Cardinality(K)
           q == Ordered(K)
           To(i) == {x \in S : highBytes(x) \in Firsts(K, i)}
<1>1. IsFiniteSet(K) /\ K \in SUBSET Nat /\ n \in Nat
  BY FiniteHalves
<1>2. \A k \in K : W[k] \in SUBSET Lowers /\ k \in Halves /\ count[k] = Cardinality(W[k])
  OBVIOUS
<1>3. \A k \in K : /\ Row(k, W[k]) \in SUBSET Values
                   /\ \A x \in Row(k, W[k]) : highBytes(x) = k /\ lowBytes(x) \in W[k]
                   /\ Cardinality(Row(k, W[k])) = Cardinality(W[k])
                   /\ IsFiniteSet(W[k])
  BY <1>2, RowFacts
<1>4. \A k \in K : Cardinality(W[k]) \in Nat /\ Cardinality(W[k]) <= Lows
  <2>1. IsFiniteSet(Lowers) /\ Cardinality(Lowers) = Lows
    <3>1. IsFiniteSet(0..(Lows - 1)) /\ Cardinality(0..(Lows - 1)) = IF 0 > Lows - 1 THEN 0 ELSE Lows - 1 - 0 + 1
      BY Bounds, FS_Interval
    <3>2. Lows \in Nat /\ Lows >= 1
      BY Bounds
    <3> QED
      BY <3>1, <3>2, Bounds
  <2> QED
    BY <1>2, <1>3, <2>1, FS_Subset, FS_CardinalityType
<1>5. /\ S \in SUBSET Values
      /\ \A h \in Halves, l \in Lowers : uniteBytes(h, l) \in S <=> h \in K /\ l \in W[h]
  BY DEF IsRows
<1>6. \A x \in Values : x \in S <=> highBytes(x) \in K /\ lowBytes(x) \in W[highBytes(x)]
  <2>1. ASSUME NEW x \in Values PROVE x \in S <=> highBytes(x) \in K /\ lowBytes(x) \in W[highBytes(x)]
    <3>1. highBytes(x) \in Halves /\ lowBytes(x) \in Lowers /\ uniteBytes(highBytes(x), lowBytes(x)) = x
      BY Halved
    <3> QED
      BY <1>5, <3>1
  <2> QED
    BY <2>1
<1> HIDE DEF count
<1>7. PICK c : /\ SumOverKeys(count) = c[n]
               /\ c[0] = 0
               /\ \A i \in 1..n : c[i] = addCardinalities(c[i - 1], count[q[i]])
  <2>1. DOMAIN count = K
    BY DEF count
  <2>2. DOMAIN count \in SUBSET Halves /\ \A k \in DOMAIN count : count[k] \in Nat
    BY <1>2, <1>4, <2>1
  <2>3. \E d : /\ SumOverKeys(count) = d[Cardinality(DOMAIN count)]
               /\ d[0] = 0
               /\ \A i \in 1..Cardinality(DOMAIN count) : d[i] = addCardinalities(d[i - 1], count[Ordered(DOMAIN count)[i]])
    BY <2>2, SumTurns
  <2> QED
    BY <2>1, <2>3
<1> DEFINE U == {i \in Nat : i <= n => c[i] = CountOf(To(i))}
<1>8. 0 \in U
  <2>1. To(0) = {}
    BY <1>1, FirstsEnds
  <2>2. {} # Values
    BY Bounds, United
  <2> QED
    BY <1>7, <2>1, <2>2, FS_EmptySet DEF CountOf
<1>9. ASSUME NEW i \in 1..n, i - 1 \in U PROVE i \in U
  <2> DEFINE k == q[i]
             A == To(i - 1)
             B == Row(k, W[k])
  <2>1. c[i - 1] = CountOf(A)
    BY <1>1, <1>9
  <2>2. k \in K /\ Firsts(K, i - 1) = {j \in K : j < k} /\ Firsts(K, i) = Firsts(K, i - 1) \cup {k}
    BY <1>1, FirstsFacts
  <2> HIDE DEF k
  <2>3. B \in SUBSET Values /\ Cardinality(B) = count[k] /\ Cardinality(B) <= Lows
    BY <1>2, <1>3, <1>4, <2>2
  <2>4. A \in SUBSET Values
    BY <1>5
  <2>5. A \cap B = {}
    <3>1. ~(k < k)
      BY <1>1, <2>2
    <3>2. \A x \in B : highBytes(x) = k
      BY <1>3, <2>2
    <3> QED
      BY <2>2, <3>1, <3>2
  <2>6. To(i) = A \cup B
    <3>1. ASSUME NEW x \in B PROVE x \in S /\ highBytes(x) = k
      BY <1>3, <1>6, <2>2
    <3>2. ASSUME NEW x \in S, highBytes(x) = k PROVE x \in B
      <4>1. lowBytes(x) \in W[k] /\ uniteBytes(highBytes(x), lowBytes(x)) = x
        BY <1>5, <1>6, <3>2, Halved
      <4> QED
        BY <3>2, <4>1 DEF Row
    <3> HIDE DEF B
    <3> QED
      BY <2>2, <3>1, <3>2
  <2> HIDE DEF A, B
  <2>7. addCardinalities(CountOf(A), Cardinality(B)) = CountOf(A \cup B)
    BY <2>3, <2>4, <2>5, AddCardinalitiesCorrect
  <2>8. c[i] = addCardinalities(c[i - 1], count[k])
    BY <1>7 DEF k
  <2>9. c[i] = CountOf(To(i))
    BY <2>1, <2>3, <2>6, <2>7, <2>8
  <2> QED
    BY <1>1, <2>9
<1>10. n \in U
  <2> HIDE DEF U
  <2> QED
    BY <1>1, <1>8, <1>9, BoundedInduction
<1>11. To(n) = S
  <2>1. Firsts(K, n) = K
    BY <1>1, FirstsEnds
  <2> QED
    BY <1>5, <1>6, <2>1
<1>12. c[n] = CountOf(S)
  BY <1>1, <1>10, <1>11
<1> QED
  BY <1>7, <1>12 DEF count

\* The low halves at a key are those of the values with that high half.
LEMMA NoneOrVals ==
  ASSUME NEW m \in Maps, NEW k
  PROVE  ValsOrNone(m, k) \in SUBSET Lowers /\ (k \in Keys(m) => ValsOrNone(m, k) = Vals(m, k))
BY MapParts DEF ValsOrNone

\* The values in both maps are counted.
LEMMA AndCardinalityCorrect ==
  ASSUME Highs > 1, NEW m \in Maps, NEW r \in Maps
  PROVE  and_cardinality(m, r) = CountOf(Members(m) \cap Members(r))
<1> DEFINE K == Keys(m) \cap Keys(r)
           W == [k \in K |-> Vals(m, k) \cap Vals(r, k)]
           S == Members(m) \cap Members(r)
<1>1. K \in SUBSET Halves /\ W \in [K -> SUBSET Lowers]
  BY MapParts
<1>2. IsRows(S, K, W)
  <2>1. S \in SUBSET Values
    BY MembersAreValues
  <2>2. \A h \in Halves, l \in Lowers : uniteBytes(h, l) \in S <=> l \in ValsOrNone(m, h) /\ l \in ValsOrNone(r, h)
    BY MemberHalves
  <2>3. \A h \in Halves, l \in Lowers : l \in ValsOrNone(m, h) /\ l \in ValsOrNone(r, h) <=> h \in K /\ l \in W[h]
    BY DEF ValsOrNone
  <2> HIDE DEF S, K, W
  <2> QED
    BY <2>1, <2>2, <2>3 DEF IsRows
<1>3. and_cardinality(m, r) = SumOverKeys([k \in K |-> Cardinality(W[k])])
  <2>1. [k \in K |-> Cardinality(W[k])] = [k \in K |-> Cardinality(Vals(m, k) \cap Vals(r, k))]
    OBVIOUS
  <2> QED
    BY <2>1 DEF and_cardinality
<1> HIDE DEF K, W, S
<1>4. SumOverKeys([k \in K |-> Cardinality(W[k])]) = CountOf(S)
  BY <1>1, <1>2, SumCorrect
<1> QED
  BY <1>3, <1>4 DEF S

\* The values in one of the maps are counted.
LEMMA OrCardinalityCorrect ==
  ASSUME Highs > 1, NEW m \in Maps, NEW r \in Maps
  PROVE  or_cardinality(m, r) = CountOf(Members(m) \cup Members(r))
<1> DEFINE K == Keys(m) \cup Keys(r)
           W == [k \in K |-> ValsOrNone(m, k) \cup ValsOrNone(r, k)]
           S == Members(m) \cup Members(r)
<1>1. K \in SUBSET Halves
  BY MapParts
<1>2. \A k : ValsOrNone(m, k) \in SUBSET Lowers /\ ValsOrNone(r, k) \in SUBSET Lowers
             /\ (k \in Keys(m) => ValsOrNone(m, k) = Vals(m, k))
  BY NoneOrVals
<1>3. W \in [K -> SUBSET Lowers]
  BY <1>2 DEF SymDiff
<1>4. IsRows(S, K, W)
  <2>1. S \in SUBSET Values
    BY MembersAreValues DEF SymDiff
  <2>2. \A h \in Halves, l \in Lowers : /\ uniteBytes(h, l) \in Members(m) <=> l \in ValsOrNone(m, h)
                                        /\ uniteBytes(h, l) \in Members(r) <=> l \in ValsOrNone(r, h)
    BY MemberHalves
  <2>3. \A h \in Halves, l \in Lowers : uniteBytes(h, l) \in S <=> l \in ValsOrNone(m, h) \/ l \in ValsOrNone(r, h)
    BY <2>2 DEF SymDiff
  <2>4. \A h \in Halves, l \in Lowers : (l \in ValsOrNone(m, h) \/ l \in ValsOrNone(r, h)) <=> h \in K /\ l \in W[h]
    BY <1>2 DEF ValsOrNone, SymDiff
  <2> HIDE DEF S, K, W
  <2> QED
    BY <2>1, <2>3, <2>4 DEF IsRows
<1>5. or_cardinality(m, r) = SumOverKeys([k \in K |-> Cardinality(W[k])])
  <2>1. [k \in K |-> Cardinality(W[k])] = [k \in K |-> Cardinality(ValsOrNone(m, k) \cup ValsOrNone(r, k))]
    OBVIOUS
  <2> QED
    BY <2>1 DEF or_cardinality
<1> HIDE DEF K, W, S
<1>6. SumOverKeys([k \in K |-> Cardinality(W[k])]) = CountOf(S)
  BY <1>1, <1>3, <1>4, SumCorrect
<1> QED
  BY <1>5, <1>6 DEF S

\* The values in only one of the maps are counted.
LEMMA XorCardinalityCorrect ==
  ASSUME Highs > 1, NEW m \in Maps, NEW r \in Maps
  PROVE  xor_cardinality(m, r) = CountOf(SymDiff(Members(m), Members(r)))
<1> DEFINE K == Keys(m) \cup Keys(r)
           W == [k \in K |-> SymDiff(ValsOrNone(m, k), ValsOrNone(r, k))]
           S == SymDiff(Members(m), Members(r))
<1>1. K \in SUBSET Halves
  BY MapParts
<1>2. \A k : ValsOrNone(m, k) \in SUBSET Lowers /\ ValsOrNone(r, k) \in SUBSET Lowers
             /\ (k \in Keys(m) => ValsOrNone(m, k) = Vals(m, k))
  BY NoneOrVals
<1>3. W \in [K -> SUBSET Lowers]
  BY <1>2 DEF SymDiff
<1>4. IsRows(S, K, W)
  <2>1. S \in SUBSET Values
    BY MembersAreValues DEF SymDiff
  <2>2. \A h \in Halves, l \in Lowers : /\ uniteBytes(h, l) \in Members(m) <=> l \in ValsOrNone(m, h)
                                        /\ uniteBytes(h, l) \in Members(r) <=> l \in ValsOrNone(r, h)
    BY MemberHalves
  <2>3. \A h \in Halves, l \in Lowers : uniteBytes(h, l) \in S <=> ~(l \in ValsOrNone(m, h) <=> l \in ValsOrNone(r, h))
    BY <2>2 DEF SymDiff
  <2>4. \A h \in Halves, l \in Lowers : (~(l \in ValsOrNone(m, h) <=> l \in ValsOrNone(r, h))) <=> h \in K /\ l \in W[h]
    BY <1>2 DEF ValsOrNone, SymDiff
  <2> HIDE DEF S, K, W
  <2> QED
    BY <2>1, <2>3, <2>4 DEF IsRows
<1>5. xor_cardinality(m, r) = SumOverKeys([k \in K |-> Cardinality(W[k])])
  <2>1. [k \in K |-> Cardinality(W[k])] = [k \in K |-> Cardinality(SymDiff(ValsOrNone(m, k), ValsOrNone(r, k)))]
    OBVIOUS
  <2> QED
    BY <2>1 DEF xor_cardinality
<1> HIDE DEF K, W, S
<1>6. SumOverKeys([k \in K |-> Cardinality(W[k])]) = CountOf(S)
  BY <1>1, <1>3, <1>4, SumCorrect
<1> QED
  BY <1>5, <1>6 DEF S

\* The values of the first map that the second does not have are counted.
LEMMA AndnotCardinalityCorrect ==
  ASSUME Highs > 1, NEW m \in Maps, NEW r \in Maps
  PROVE  andnot_cardinality(m, r) = CountOf(Members(m) \ Members(r))
<1> DEFINE K == Keys(m)
           W == [k \in K |-> Vals(m, k) \ ValsOrNone(r, k)]
           S == Members(m) \ Members(r)
<1>1. K \in SUBSET Halves
  BY MapParts
<1>2. \A k : ValsOrNone(m, k) \in SUBSET Lowers /\ ValsOrNone(r, k) \in SUBSET Lowers
             /\ (k \in Keys(m) => ValsOrNone(m, k) = Vals(m, k))
  BY NoneOrVals
<1>3. W \in [K -> SUBSET Lowers]
  BY <1>2 DEF SymDiff
<1>4. IsRows(S, K, W)
  <2>1. S \in SUBSET Values
    BY MembersAreValues DEF SymDiff
  <2>2. \A h \in Halves, l \in Lowers : /\ uniteBytes(h, l) \in Members(m) <=> l \in ValsOrNone(m, h)
                                        /\ uniteBytes(h, l) \in Members(r) <=> l \in ValsOrNone(r, h)
    BY MemberHalves
  <2>3. \A h \in Halves, l \in Lowers : uniteBytes(h, l) \in S <=> l \in ValsOrNone(m, h) /\ ~(l \in ValsOrNone(r, h))
    BY <2>2 DEF SymDiff
  <2>4. \A h \in Halves, l \in Lowers : (l \in ValsOrNone(m, h) /\ ~(l \in ValsOrNone(r, h))) <=> h \in K /\ l \in W[h]
    BY <1>2 DEF ValsOrNone, SymDiff
  <2> HIDE DEF S, K, W
  <2> QED
    BY <2>1, <2>3, <2>4 DEF IsRows
<1>5. andnot_cardinality(m, r) = SumOverKeys([k \in K |-> Cardinality(W[k])])
  <2>1. [k \in K |-> Cardinality(W[k])] = [k \in K |-> Cardinality(Vals(m, k) \ ValsOrNone(r, k))]
    OBVIOUS
  <2> QED
    BY <2>1 DEF andnot_cardinality
<1> HIDE DEF K, W, S
<1>6. SumOverKeys([k \in K |-> Cardinality(W[k])]) = CountOf(S)
  BY <1>1, <1>3, <1>4, SumCorrect
<1> QED
  BY <1>5, <1>6 DEF S

-----------------------------------------------------------------------------
(* Two maps: the comparisons.                                              *)

\* intersect looks for a common value under the common keys.
LEMMA IntersectCorrect ==
  ASSUME NEW m \in Maps, NEW r \in Maps
  PROVE  intersect(m, r) <=> Members(m) \cap Members(r) # {}
<1>1. ASSUME intersect(m, r) PROVE Members(m) \cap Members(r) # {}
  <2>1. PICK k \in Keys(m) \cap Keys(r) : Vals(m, k) \cap Vals(r, k) # {}
    BY <1>1 DEF intersect
  <2>2. PICK v \in Vals(m, k) : v \in Vals(r, k)
    BY <2>1
  <2>3. uniteBytes(k, v) \in Members(m) /\ uniteBytes(k, v) \in Members(r)
    BY <2>1, <2>2, InnerMember
  <2> QED
    BY <2>3
<1>2. ASSUME NEW x \in Members(m), x \in Members(r) PROVE intersect(m, r)
  <2>1. x \in Values
    BY MembersAreValues
  <2>2. /\ highBytes(x) \in Keys(m) /\ lowBytes(x) \in Vals(m, highBytes(x))
        /\ highBytes(x) \in Keys(r) /\ lowBytes(x) \in Vals(r, highBytes(x))
    BY <1>2, <2>1, MemberAt
  <2> QED
    BY <2>2 DEF intersect
<1> QED
  BY <1>1, <1>2

\* isSubset compares the inner bitmaps under each key that has values.
LEMMA IsSubsetCorrect ==
  ASSUME NEW m \in Maps, NEW r \in Maps
  PROVE  isSubset(m, r) <=> Members(m) \subseteq Members(r)
<1>1. ASSUME isSubset(m, r), NEW x \in Members(m) PROVE x \in Members(r)
  <2>1. x \in Values
    BY MembersAreValues
  <2>2. highBytes(x) \in Keys(m) /\ lowBytes(x) \in Vals(m, highBytes(x))
    BY <2>1, MemberAt
  <2>3. highBytes(x) \in Keys(r) /\ Vals(m, highBytes(x)) \subseteq Vals(r, highBytes(x))
    BY <1>1, <2>2 DEF isSubset
  <2> QED
    BY <2>1, <2>2, <2>3, MemberAt
<1>2. ASSUME Members(m) \subseteq Members(r), NEW k \in Keys(m), NEW v \in Vals(m, k)
      PROVE  k \in Keys(r) /\ v \in Vals(r, k)
  <2>1. /\ uniteBytes(k, v) \in Members(m) /\ uniteBytes(k, v) \in Values
        /\ highBytes(uniteBytes(k, v)) = k /\ lowBytes(uniteBytes(k, v)) = v
    BY InnerMember
  <2>2. uniteBytes(k, v) \in Members(r)
    BY <1>2, <2>1
  <2> DEFINE x == uniteBytes(k, v)
  <2> HIDE DEF x
  <2>3. x \in Members(r) /\ x \in Values /\ highBytes(x) = k /\ lowBytes(x) = v
    BY <2>1, <2>2 DEF x
  <2> QED
    BY <2>3, MemberAt
<1>3. ASSUME Members(m) \subseteq Members(r) PROVE isSubset(m, r)
  <2>1. \A k \in Keys(m) : \A v \in Vals(m, k) : k \in Keys(r) /\ v \in Vals(r, k)
    BY <1>2, <1>3
  <2> QED
    BY <2>1 DEF isSubset
<1> QED
  BY <1>1, <1>3

\* A subset is strict when the cardinalities differ; asking for them throws
\* when the second map is full, and that is the only subset relation of a full map.
LEMMA IsStrictSubsetCorrect ==
  ASSUME NEW m \in Maps, NEW r \in Maps
  PROVE  isStrictSubset(m, r) =
           IF Members(r) = Values THEN "throws"
           ELSE IF Members(m) \subseteq Members(r) /\ Members(m) # Members(r) THEN "true" ELSE "false"
<1> DEFINE S == Members(m)
           R == Members(r)
<1>1. isSubset(m, r) <=> S \subseteq R
  BY IsSubsetCorrect
<1>2. /\ cardinality(m) = IF S = Values THEN Throws ELSE Cardinality(S)
      /\ cardinality(r) = IF R = Values THEN Throws ELSE Cardinality(R)
  BY CardinalityCorrect
<1>3. S \in SUBSET Values /\ R \in SUBSET Values
  BY MembersAreValues
<1> HIDE DEF S, R
<1>4. /\ Cardinality(S) \in Nat /\ Cardinality(R) \in Nat /\ IsFiniteSet(R)
      /\ Throws # Cardinality(S) /\ Throws # Cardinality(R)
  BY <1>3, FiniteValues DEF Throws
<1>5. CASE R = Values
  <2>1. isSubset(m, r) /\ cardinality(r) = Throws
    BY <1>1, <1>2, <1>3, <1>5
  <2> QED
    BY <1>5, <2>1 DEF isStrictSubset, R
<1>6. CASE R # Values /\ ~(S \subseteq R)
  BY <1>1, <1>6 DEF isStrictSubset, S, R
<1>7. CASE R # Values /\ S \subseteq R
  <2>1. S # Values
    BY <1>3, <1>7
  <2>2. cardinality(m) = Cardinality(S) /\ cardinality(r) = Cardinality(R)
    BY <1>2, <1>7, <2>1
  <2>3. Throws \notin {cardinality(m), cardinality(r)}
    BY <1>4, <2>2
  <2>4. cardinality(m) # cardinality(r) <=> S # R
    <3>1. ASSUME S # R PROVE Cardinality(R) # Cardinality(S)
      BY <1>4, <1>7, <3>1, FS_Subset
    <3> QED
      BY <2>2, <3>1
  <2> QED
    BY <1>1, <1>7, <2>3, <2>4 DEF isStrictSubset, S, R
<1> QED
  BY <1>5, <1>6, <1>7

\* One turn of the loop of operator==.
Compared(m, r, acc) ==
  IF ~acc.equal \/ acc.i > Len(KeySeq(m)) \/ acc.j > Len(KeySeq(r)) THEN acc
  ELSE IF Vals(m, KeySeq(m)[acc.i]) = {} THEN [acc EXCEPT !.i = @ + 1]
  ELSE IF Vals(r, KeySeq(r)[acc.j]) = {} THEN [acc EXCEPT !.j = @ + 1]
  ELSE IF KeySeq(m)[acc.i] = KeySeq(r)[acc.j] /\ Vals(m, KeySeq(m)[acc.i]) = Vals(r, KeySeq(r)[acc.j])
  THEN [acc EXCEPT !.i = @ + 1, !.j = @ + 1]
  ELSE [acc EXCEPT !.equal = FALSE]

\* The iterators and whether the maps are equal up to them.
Comparisons == [i : Nat, j : Nat, equal : BOOLEAN]

\* The two iterators stay places in their maps, or behind the end.
LEMMA ComparedType ==
  ASSUME NEW m, NEW r, NEW acc \in Comparisons
  PROVE  Compared(m, r, acc) \in Comparisons
<1>1. acc \in [i : Nat, j : Nat, equal : BOOLEAN]
  BY DEF Comparisons
<1>2. acc.i + 1 \in Nat /\ acc.j + 1 \in Nat
  BY <1>1
<1>3. [acc EXCEPT !.i = @ + 1] \in Comparisons
  BY <1>1, <1>2 DEF Comparisons
<1>4. [acc EXCEPT !.j = @ + 1] \in Comparisons
  BY <1>1, <1>2 DEF Comparisons
<1>5. [acc EXCEPT !.equal = FALSE] \in Comparisons
  BY <1>1 DEF Comparisons
<1>6. [acc EXCEPT !.i = @ + 1, !.j = @ + 1] \in Comparisons
  BY <1>1, <1>2 DEF Comparisons
<1> HIDE DEF Comparisons
<1> QED
  BY <1>3, <1>4, <1>5, <1>6 DEF Compared

\* What operator== answers when the loop ends there.
EqualAfter(m, r, acc) ==
  /\ acc.equal
  /\ \A i \in acc.i..Len(KeySeq(m)) : Vals(m, KeySeq(m)[i]) = {}
  /\ \A j \in acc.j..Len(KeySeq(r)) : Vals(r, KeySeq(r)[j]) = {}

\* operator== takes its turns, and then looks at what is left of the maps.
LEMMA CompareTurns ==
  ASSUME NEW m \in Maps, NEW r \in Maps
  PROVE  \E c : /\ operator_eq(m, r) <=> EqualAfter(m, r, c[(Len(KeySeq(m)) + Len(KeySeq(r)))])
                /\ c[0] = [i |-> 1, j |-> 1, equal |-> TRUE]
                /\ \A i \in 1..(Len(KeySeq(m)) + Len(KeySeq(r))) : c[i] = Compared(m, r, c[i - 1])
<1> DEFINE n == (Len(KeySeq(m)) + Len(KeySeq(r)))
           A == Comparisons
           s == [t \in 1..(Len(KeySeq(m)) + Len(KeySeq(r))) |-> t]
           base == [i |-> 1, j |-> 1, equal |-> TRUE]
           Step(it) == [x \in SUBSET DOMAIN s |->
                          IF x = {} THEN base ELSE Compared(m, r, it[x \ {Max(x)}])]
           it == CHOOSE f : f = Step(f)
           G == [p \in (1..n) \X A |-> Compared(m, r, p[2])]
<1>1. operator_eq(m, r) <=> EqualAfter(m, r, it[DOMAIN s])
  BY DEF operator_eq, Compared, EqualAfter, FoldLeft, MapThenFoldSet
<1>2. n \in Nat /\ DOMAIN s = 1..n /\ \A i \in 1..n : s[i] \in Nat
  BY KeysInOrder
<1> HIDE DEF s, n
<1>3. \A acc \in A, e \in Nat : Compared(m, r, acc) \in A
  BY ComparedType
<1>4. base \in A
  BY DEF Comparisons
<1> HIDE DEF A, base
<1>5. G \in [(1..n) \X A -> A]
  BY <1>2, <1>3
<1> HIDE DEF G
<1>6. PICK f \in [SUBSET (1..n) -> A] : Folds(f, n, base, G)
  BY <1>2, <1>4, <1>5, FoldExists
<1>7. ASSUME NEW x \in SUBSET (1..n), x # {}
      PROVE  f[x] = Compared(m, r, f[x \ {Max(x)}])
  <2>1. Max(x) \in 1..n /\ x \ {Max(x)} \in SUBSET (1..n)
    BY <1>2, <1>7, LastIndex
  <2>2. f[x \ {Max(x)}] \in A
    BY <2>1
  <2> QED
    BY <1>6, <1>7, <2>1, <2>2 DEF G, Folds
<1>8. f = Step(f)
  BY <1>2, <1>6, <1>7 DEF Folds
<1>9. it = Step(it)
  BY <1>8
<1> HIDE DEF it
<1>10. \A x \in SUBSET (1..n) : it[x] = IF x = {} THEN base ELSE Compared(m, r, it[x \ {Max(x)}])
  BY <1>2, <1>9
<1>11. ASSUME NEW i \in 1..n PROVE it[1..i] = Compared(m, r, it[1..(i - 1)])
  <2>1. 1..i \in SUBSET (1..n) /\ 1..i # {} /\ Max(1..i) = i /\ (1..i) \ {Max(1..i)} = 1..(i - 1)
    BY <1>2, Segment
  <2>2. it[1..i] = Compared(m, r, it[(1..i) \ {Max(1..i)}])
    BY <1>10, <2>1
  <2> QED
    BY <2>1, <2>2
<1> DEFINE c == [i \in 0..n |-> it[1..i]]
<1>12. c[0] = base
  <2>1. 1..0 = {} /\ 0 \in 0..n
    BY <1>2
  <2>2. c[0] = it[1..0]
    BY <2>1
  <2>3. it[{}] = base
    BY <1>10
  <2> QED
    BY <2>1, <2>2, <2>3
<1>13. ASSUME NEW i \in 1..n PROVE c[i] = Compared(m, r, c[i - 1])
  <2>1. i \in 0..n /\ i - 1 \in 0..n
    BY <1>2
  <2>2. c[i] = it[1..i] /\ c[i - 1] = it[1..(i - 1)]
    BY <2>1
  <2> QED
    BY <1>11, <2>2
<1>14. c[n] = it[DOMAIN s]
  BY <1>2
<1> HIDE DEF c
<1>15. operator_eq(m, r) <=> EqualAfter(m, r, c[n])
  BY <1>1, <1>14
<1> QED
  BY <1>12, <1>13, <1>15 DEF n, s, base

\* The keys of a map in order.
LEMMA KeySeqOrder ==
  ASSUME NEW m \in Maps
  PROVE  /\ Len(KeySeq(m)) \in Nat
         /\ \A i \in 1..Len(KeySeq(m)) : KeySeq(m)[i] \in Keys(m) /\ KeySeq(m)[i] \in Nat
         /\ \A k \in Keys(m) : \E i \in 1..Len(KeySeq(m)) : KeySeq(m)[i] = k
         /\ \A i, j \in 1..Len(KeySeq(m)) : KeySeq(m)[i] < KeySeq(m)[j] => i < j
         /\ \A i, j \in 1..Len(KeySeq(m)) : KeySeq(m)[i] = KeySeq(m)[j] => i = j
<1> DEFINE K == Keys(m)
           q == KeySeq(m)
           n == Len(q)
<1>1. q \in Lists(K)
  BY KeySeqFacts
<1>2. K \in SUBSET Nat /\ IsFiniteSet(K) /\ q = Ordered(K) /\ n = Cardinality(K)
  BY KeysInOrder
<1> HIDE DEF K, q, n
<1>3. n \in Nat /\ \A i, j \in 1..n : i < j => q[i] < q[j]
  BY <1>2, OrderedFacts
<1>4. /\ \A k \in K : \E i \in 1..n : q[i] = k
      /\ \A i, j \in 1..n : q[i] = q[j] => i = j
      /\ \A i \in 1..n : q[i] \in K
  BY <1>1, <1>3 DEF Lists, n
<1>5. ASSUME NEW i \in 1..n, NEW j \in 1..n, q[i] < q[j] PROVE i < j
  <2>1. q[i] \in Nat /\ q[j] \in Nat
    BY <1>2, <1>4
  <2>2. ~(j < i) /\ i # j
    BY <1>3, <1>5, <2>1
  <2> QED
    BY <1>3, <2>2
<1> QED
  BY <1>2, <1>3, <1>4, <1>5 DEF K, q, n

\* Every one of the first i - 1 bitmaps of m that has values is equal to one of the first
\* j - 1 bitmaps of r, under the same key.
Matched(m, r, i, j) ==
  \A p \in 1..(i - 1) : Vals(m, KeySeq(m)[p]) # {} =>
    \E s \in 1..(j - 1) : /\ s \in 1..Len(KeySeq(r))
                          /\ KeySeq(r)[s] = KeySeq(m)[p]
                          /\ Vals(r, KeySeq(r)[s]) = Vals(m, KeySeq(m)[p])

\* Maps with the same values have the same bitmaps, but for empty ones.
LEMMA SameBitmaps ==
  ASSUME NEW m \in Maps, NEW r \in Maps, Members(m) = Members(r), NEW k \in Keys(m), Vals(m, k) # {}
  PROVE  k \in Keys(r) /\ Vals(r, k) = Vals(m, k)
<1>1. k \in Halves /\ ValsOrNone(m, k) = Vals(m, k) /\ ValsOrNone(m, k) \in SUBSET Lowers
  BY MapParts DEF ValsOrNone
<1>2. ValsOrNone(r, k) \in SUBSET Lowers
  BY NoneOrVals
<1>3. \A l \in Lowers : l \in ValsOrNone(r, k) <=> l \in ValsOrNone(m, k)
  BY <1>1, MemberHalves
<1>4. ValsOrNone(r, k) = Vals(m, k)
  BY <1>1, <1>2, <1>3
<1> QED
  BY <1>4 DEF ValsOrNone

\* Where all bitmaps before were matched, the next key of r that has values is not a later one.
LEMMA NextKeyMatches ==
  ASSUME NEW m \in Maps, NEW r \in Maps, Members(m) = Members(r),
         NEW i \in 1..Len(KeySeq(m)), NEW j \in 1..Len(KeySeq(r)),
         Matched(r, m, j, i), Vals(m, KeySeq(m)[i]) # {}
  PROVE  ~(KeySeq(m)[i] < KeySeq(r)[j])
<1> SUFFICES ASSUME KeySeq(m)[i] < KeySeq(r)[j] PROVE FALSE
  OBVIOUS
<1> DEFINE k == KeySeq(m)[i]
<1>1. k \in Keys(m) /\ k \in Nat
  BY KeySeqOrder
<1>2. k \in Keys(r) /\ Vals(r, k) = Vals(m, k)
  BY <1>1, SameBitmaps
<1>3. PICK p \in 1..Len(KeySeq(r)) : KeySeq(r)[p] = k
  BY <1>2, KeySeqOrder
<1>4. p < j
  BY <1>3, KeySeqOrder
<1>5. p \in 1..(j - 1)
  BY <1>4, KeySeqOrder
<1>6. \E s \in 1..(i - 1) : s \in 1..Len(KeySeq(m)) /\ KeySeq(m)[s] = KeySeq(r)[p]
  BY <1>2, <1>3, <1>5 DEF Matched
<1>7. PICK s \in 1..(i - 1) : s \in 1..Len(KeySeq(m)) /\ KeySeq(m)[s] = k
  BY <1>3, <1>6
<1>8. s = i
  BY <1>7, KeySeqOrder
<1> QED
  BY <1>7, <1>8, KeySeqOrder

\* What is left of r is empty when m is at its end.
LEMMA LeftIsEmpty ==
  ASSUME NEW m \in Maps, NEW r \in Maps, Members(m) = Members(r),
         NEW i \in Nat, i > Len(KeySeq(m)), NEW j \in Nat,
         Matched(m, r, i, j), NEW q \in j..Len(KeySeq(r))
  PROVE  q >= 1 => Vals(r, KeySeq(r)[q]) = {}
<1> SUFFICES ASSUME q >= 1, Vals(r, KeySeq(r)[q]) # {} PROVE FALSE
  OBVIOUS
<1> DEFINE k == KeySeq(r)[q]
<1>1. q \in 1..Len(KeySeq(r)) /\ k \in Keys(r)
  BY KeySeqOrder
<1>2. k \in Keys(m) /\ Vals(m, k) = Vals(r, k)
  BY <1>1, SameBitmaps
<1>3. PICK p \in 1..Len(KeySeq(m)) : KeySeq(m)[p] = k
  BY <1>2, KeySeqOrder
<1>4. p \in 1..(i - 1)
  BY KeySeqOrder
<1>5. \E s \in 1..(j - 1) : s \in 1..Len(KeySeq(r)) /\ KeySeq(r)[s] = KeySeq(m)[p]
  BY <1>2, <1>3, <1>4 DEF Matched
<1>6. PICK s \in 1..(j - 1) : s \in 1..Len(KeySeq(r)) /\ KeySeq(r)[s] = k
  BY <1>3, <1>5
<1>7. s = q
  BY <1>1, <1>6, KeySeqOrder
<1> QED
  BY <1>6, <1>7, KeySeqOrder

\* Where what is left of m is empty, the values of m are values of r.
LEMMA MatchedIsSubset ==
  ASSUME NEW m \in Maps, NEW r \in Maps, NEW i \in Nat, NEW j \in Nat, Matched(m, r, i, j),
         \A p \in i..Len(KeySeq(m)) : Vals(m, KeySeq(m)[p]) = {}
  PROVE  Members(m) \subseteq Members(r)
<1> SUFFICES ASSUME NEW x \in Members(m) PROVE x \in Members(r)
  OBVIOUS
<1>1. x \in Values
  BY MembersAreValues
<1> DEFINE k == highBytes(x)
<1>2. k \in Keys(m) /\ lowBytes(x) \in Vals(m, k)
  BY <1>1, MemberAt
<1>3. PICK p \in 1..Len(KeySeq(m)) : KeySeq(m)[p] = k
  BY <1>2, KeySeqOrder
<1>4. p \notin i..Len(KeySeq(m))
  BY <1>2, <1>3
<1>5. p \in 1..(i - 1)
  BY <1>4, KeySeqOrder
<1>6. PICK s \in 1..(j - 1) : /\ s \in 1..Len(KeySeq(r))
                              /\ KeySeq(r)[s] = KeySeq(m)[p]
                              /\ Vals(r, KeySeq(r)[s]) = Vals(m, KeySeq(m)[p])
  BY <1>2, <1>3, <1>5 DEF Matched
<1>7. k \in Keys(r) /\ Vals(r, k) = Vals(m, k)
  BY <1>3, <1>6, KeySeqOrder
<1> QED
  BY <1>1, <1>2, <1>7, MemberAt

\* One more bitmap of m, empty or matched by one more bitmap of r.
LEMMA MatchSkips ==
  ASSUME NEW m, NEW r, NEW i \in Nat \ {0}, NEW j \in Nat \ {0}, Matched(m, r, i, j)
  PROVE  /\ Matched(m, r, i, j + 1)
         /\ Vals(m, KeySeq(m)[i]) = {} => Matched(m, r, i + 1, j)
         /\ j \in 1..Len(KeySeq(r)) /\ KeySeq(r)[j] = KeySeq(m)[i] /\ Vals(r, KeySeq(r)[j]) = Vals(m, KeySeq(m)[i]) =>
              Matched(m, r, i + 1, j + 1)
<1> DEFINE To(p, s) == /\ s \in 1..Len(KeySeq(r))
                       /\ KeySeq(r)[s] = KeySeq(m)[p]
                       /\ Vals(r, KeySeq(r)[s]) = Vals(m, KeySeq(m)[p])
           Used(p) == Vals(m, KeySeq(m)[p]) # {}
<1>1. \A x, y : Matched(m, r, x, y) <=> \A p \in 1..(x - 1) : Used(p) => \E s \in 1..(y - 1) : To(p, s)
  BY DEF Matched
<1>2. i + 1 - 1 = i /\ j + 1 - 1 = j /\ 1..i = 1..(i - 1) \cup {i} /\ 1..j = 1..(j - 1) \cup {j}
  OBVIOUS
<1>3. ~Used(i) <=> Vals(m, KeySeq(m)[i]) = {}
  OBVIOUS
<1>4. To(i, j) <=> /\ j \in 1..Len(KeySeq(r))
                   /\ KeySeq(r)[j] = KeySeq(m)[i]
                   /\ Vals(r, KeySeq(r)[j]) = Vals(m, KeySeq(m)[i])
  OBVIOUS
<1> HIDE DEF To, Used
<1>5. \A p \in 1..(i - 1) : Used(p) => \E s \in 1..(j - 1) : To(p, s)
  BY <1>1
<1>6. Matched(m, r, i, j + 1)
  <2>1. \A p \in 1..(i - 1) : Used(p) => \E s \in 1..(j + 1 - 1) : To(p, s)
    BY <1>2, <1>5
  <2> QED
    BY <1>1, <2>1
<1>7. ASSUME ~Used(i) PROVE Matched(m, r, i + 1, j)
  <2>1. \A p \in 1..(i + 1 - 1) : Used(p) => \E s \in 1..(j - 1) : To(p, s)
    BY <1>2, <1>5, <1>7
  <2> QED
    BY <1>1, <2>1
<1>8. ASSUME To(i, j) PROVE Matched(m, r, i + 1, j + 1)
  <2>1. \A p \in 1..i : Used(p) => \E s \in 1..j : To(p, s)
    BY <1>2, <1>5, <1>8
  <2>2. \A p \in 1..(i + 1 - 1) : Used(p) => \E s \in 1..(j + 1 - 1) : To(p, s)
    BY <1>2, <2>1
  <2> QED
    BY <1>1, <2>2
<1> QED
  BY <1>3, <1>4, <1>6, <1>7, <1>8

\* Where the loop of operator== can be after t turns.
ComparedTo(m, r, t) ==
  {acc \in Comparisons :
     /\ acc.i \in 1..(Len(KeySeq(m)) + 1) /\ acc.j \in 1..(Len(KeySeq(r)) + 1)
     /\ acc.equal => /\ Matched(m, r, acc.i, acc.j) /\ Matched(r, m, acc.j, acc.i)
                     /\ \/ acc.i + acc.j >= t + 2
                        \/ acc.i > Len(KeySeq(m))
                        \/ acc.j > Len(KeySeq(r))
     /\ ~acc.equal => Members(m) # Members(r)}

\* One turn of the comparison passes an empty bitmap, or an equal pair, or finds a difference.
LEMMA CompareContinues ==
  ASSUME NEW m \in Maps, NEW r \in Maps, NEW t \in Nat, NEW acc \in ComparedTo(m, r, t)
  PROVE  Compared(m, r, acc) \in ComparedTo(m, r, t + 1)
<1> DEFINE x == Compared(m, r, acc)
           i == acc.i
           j == acc.j
           ms == KeySeq(m)
           rs == KeySeq(r)
           VM == Vals(m, ms[i])
           VR == Vals(r, rs[j])
<1>1. /\ acc \in Comparisons
      /\ i \in 1..(Len(ms) + 1) /\ j \in 1..(Len(rs) + 1)
      /\ acc.equal => Matched(m, r, i, j) /\ Matched(r, m, j, i)
      /\ acc.equal => i + j >= t + 2 \/ i > Len(ms) \/ j > Len(rs)
      /\ ~acc.equal => Members(m) # Members(r)
  BY DEF ComparedTo
<1>2. x \in Comparisons
  BY <1>1, ComparedType
<1>3. Len(ms) \in Nat /\ Len(rs) \in Nat
  BY KeySeqOrder
<1>4. i \in Nat \ {0} /\ j \in Nat \ {0} /\ acc \in [i : Nat, j : Nat, equal : BOOLEAN]
  BY <1>1, <1>3 DEF Comparisons
<1> HIDE DEF x, VM, VR, ms, rs
<1>5. CASE ~acc.equal \/ i > Len(ms) \/ j > Len(rs)
  <2>1. x = acc
    BY <1>5 DEF Compared, x, ms, rs
  <2> QED
    BY <1>1, <1>2, <1>5, <2>1 DEF ComparedTo, x, ms, rs
<1>6. CASE acc.equal /\ ~(i > Len(ms)) /\ ~(j > Len(rs))
  <2>1. i \in 1..Len(ms) /\ j \in 1..Len(rs) /\ i + j >= t + 2 /\ Matched(m, r, i, j) /\ Matched(r, m, j, i)
    BY <1>1, <1>3, <1>4, <1>6
  <2>2. CASE VM = {}
    <3>1. x = [acc EXCEPT !.i = @ + 1]
      BY <1>6, <2>2 DEF Compared, x, ms, rs, VM
    <3>2. x.i = i + 1 /\ x.j = j /\ x.equal = TRUE
      BY <1>4, <1>6, <3>1
    <3>3. Matched(m, r, i + 1, j) /\ Matched(r, m, j, i + 1)
      BY <1>4, <2>1, <2>2, MatchSkips DEF VM, ms
    <3>4. i + 1 \in 1..(Len(ms) + 1) /\ i + 1 + j >= t + 1 + 2
      BY <1>3, <1>4, <2>1
    <3> QED
      BY <1>1, <1>2, <3>2, <3>3, <3>4 DEF ComparedTo, x, ms, rs
  <2>3. CASE VM # {} /\ VR = {}
    <3>1. x = [acc EXCEPT !.j = @ + 1]
      BY <1>6, <2>3 DEF Compared, x, ms, rs, VM, VR
    <3>2. x.i = i /\ x.j = j + 1 /\ x.equal = TRUE
      BY <1>4, <1>6, <3>1
    <3>3. Matched(m, r, i, j + 1) /\ Matched(r, m, j + 1, i)
      BY <1>4, <2>1, <2>3, MatchSkips DEF VR, rs
    <3>4. j + 1 \in 1..(Len(rs) + 1) /\ i + (j + 1) >= t + 1 + 2
      BY <1>3, <1>4, <2>1
    <3> QED
      BY <1>1, <1>2, <3>2, <3>3, <3>4 DEF ComparedTo, x, ms, rs
  <2>4. CASE VM # {} /\ VR # {} /\ ms[i] = rs[j] /\ VM = VR
    <3>1. x = [acc EXCEPT !.i = @ + 1, !.j = @ + 1]
      BY <1>6, <2>4 DEF Compared, x, ms, rs, VM, VR
    <3>2. x.i = i + 1 /\ x.j = j + 1 /\ x.equal = TRUE
      BY <1>4, <1>6, <3>1
    <3>3. Matched(m, r, i + 1, j + 1) /\ Matched(r, m, j + 1, i + 1)
      BY <1>4, <2>1, <2>4, MatchSkips DEF VM, VR, ms, rs
    <3>4. i + 1 \in 1..(Len(ms) + 1) /\ j + 1 \in 1..(Len(rs) + 1) /\ i + 1 + (j + 1) >= t + 1 + 2
      BY <1>3, <1>4, <2>1
    <3> QED
      BY <1>1, <1>2, <3>2, <3>3, <3>4 DEF ComparedTo, x, ms, rs
  <2>5. CASE VM # {} /\ VR # {} /\ ~(ms[i] = rs[j] /\ VM = VR)
    <3>1. x = [acc EXCEPT !.equal = FALSE]
      BY <1>6, <2>5 DEF Compared, x, ms, rs, VM, VR
    <3>2. x.i = i /\ x.j = j /\ x.equal = FALSE
      BY <1>4, <1>6, <3>1
    <3>3. Members(m) # Members(r)
      <4> SUFFICES ASSUME Members(m) = Members(r) PROVE FALSE
        OBVIOUS
      <4>1. ~(ms[i] < rs[j])
        BY <2>1, <2>5, NextKeyMatches DEF VM, ms, rs
      <4>2. ~(rs[j] < ms[i])
        BY <2>1, <2>5, NextKeyMatches DEF VR, ms, rs
      <4>3. ms[i] \in Nat /\ rs[j] \in Nat /\ ms[i] \in Keys(m)
        BY <2>1, KeySeqOrder DEF ms, rs
      <4>4. ms[i] = rs[j]
        BY <4>1, <4>2, <4>3
      <4>5. VM = VR
        BY <2>5, <4>3, <4>4, SameBitmaps DEF VM, VR
      <4> QED
        BY <2>5, <4>4, <4>5
    <3> QED
      BY <1>1, <1>2, <3>2, <3>3 DEF ComparedTo, x, ms, rs
  <2> QED
    BY <2>2, <2>3, <2>4, <2>5
<1> QED
  BY <1>1, <1>5, <1>6

\* operator== compares the values, whatever empty bitmaps there are.
LEMMA EqualCorrect ==
  ASSUME NEW m \in Maps, NEW r \in Maps
  PROVE  operator_eq(m, r) <=> Members(m) = Members(r)
<1> DEFINE n == Len(KeySeq(m)) + Len(KeySeq(r))
<1>1. PICK c : /\ operator_eq(m, r) <=> EqualAfter(m, r, c[n])
               /\ c[0] = [i |-> 1, j |-> 1, equal |-> TRUE]
               /\ \A t \in 1..n : c[t] = Compared(m, r, c[t - 1])
  BY CompareTurns
<1>2. n \in Nat /\ Len(KeySeq(m)) \in Nat /\ Len(KeySeq(r)) \in Nat
  BY KeySeqOrder
<1> DEFINE T == {t \in Nat : t <= n => c[t] \in ComparedTo(m, r, t)}
<1>3. 0 \in T
  <2>1. Matched(m, r, 1, 1) /\ Matched(r, m, 1, 1)
    BY DEF Matched
  <2>2. c[0] \in Comparisons /\ c[0].i = 1 /\ c[0].j = 1 /\ c[0].equal = TRUE
    BY <1>1 DEF Comparisons
  <2>3. 1 \in 1..(Len(KeySeq(m)) + 1) /\ 1 \in 1..(Len(KeySeq(r)) + 1) /\ 1 + 1 >= 0 + 2
    BY <1>2
  <2>4. c[0] \in ComparedTo(m, r, 0)
    BY <2>1, <2>2, <2>3 DEF ComparedTo
  <2> QED
    BY <2>4
<1>4. ASSUME NEW t \in 1..n, t - 1 \in T PROVE t \in T
  <2>1. c[t - 1] \in ComparedTo(m, r, t - 1) /\ t - 1 \in Nat /\ t - 1 + 1 = t
    BY <1>2, <1>4
  <2>2. c[t] \in ComparedTo(m, r, t)
    BY <1>1, <2>1, CompareContinues
  <2> QED
    BY <1>2, <2>2
<1> HIDE DEF n
<1>5. n \in T
  <2> HIDE DEF T
  <2> QED
    BY <1>2, <1>3, <1>4, BoundedInduction
<1> DEFINE acc == c[n]
           i == acc.i
           j == acc.j
<1>6. /\ i \in 1..(Len(KeySeq(m)) + 1) /\ j \in 1..(Len(KeySeq(r)) + 1)
      /\ acc.equal => Matched(m, r, i, j) /\ Matched(r, m, j, i)
      /\ acc.equal => i + j >= n + 2 \/ i > Len(KeySeq(m)) \/ j > Len(KeySeq(r))
      /\ ~acc.equal => Members(m) # Members(r)
  BY <1>2, <1>5 DEF ComparedTo
<1> HIDE DEF T, acc
<1>7. CASE ~acc.equal
  BY <1>1, <1>6, <1>7 DEF EqualAfter, acc
<1>8. CASE acc.equal
  <2>1. i \in Nat /\ j \in Nat /\ i >= 1 /\ j >= 1 /\ Matched(m, r, i, j) /\ Matched(r, m, j, i)
    BY <1>6, <1>8
  <2>2. i > Len(KeySeq(m)) \/ j > Len(KeySeq(r))
    BY <1>2, <1>6, <1>8 DEF n
  <2> HIDE DEF i, j
  <2>3. ASSUME EqualAfter(m, r, acc) PROVE Members(m) = Members(r)
    <3>1. /\ \A p \in i..Len(KeySeq(m)) : Vals(m, KeySeq(m)[p]) = {}
          /\ \A p \in j..Len(KeySeq(r)) : Vals(r, KeySeq(r)[p]) = {}
      BY <2>3 DEF EqualAfter, i, j
    <3>2. Members(m) \subseteq Members(r)
      BY <2>1, <3>1, MatchedIsSubset
    <3>3. Members(r) \subseteq Members(m)
      BY <2>1, <3>1, MatchedIsSubset
    <3> QED
      BY <3>2, <3>3
  <2>4. ASSUME Members(m) = Members(r) PROVE EqualAfter(m, r, acc)
    <3>1. ASSUME i > Len(KeySeq(m)), NEW q \in j..Len(KeySeq(r)) PROVE Vals(r, KeySeq(r)[q]) = {}
      <4>1. q >= 1
        BY <1>2, <2>1
      <4> QED
        BY <2>1, <2>4, <3>1, <4>1, LeftIsEmpty
    <3>2. ASSUME j > Len(KeySeq(r)), NEW q \in i..Len(KeySeq(m)) PROVE Vals(m, KeySeq(m)[q]) = {}
      <4>1. q >= 1
        BY <1>2, <2>1
      <4> QED
        BY <2>1, <2>4, <3>2, <4>1, LeftIsEmpty
    <3>3. i > Len(KeySeq(m)) => i..Len(KeySeq(m)) = {}
      BY <1>2, <2>1
    <3>4. j > Len(KeySeq(r)) => j..Len(KeySeq(r)) = {}
      BY <1>2, <2>1
    <3>5. /\ \A p \in i..Len(KeySeq(m)) : Vals(m, KeySeq(m)[p]) = {}
          /\ \A p \in j..Len(KeySeq(r)) : Vals(r, KeySeq(r)[p]) = {}
      BY <2>2, <3>1, <3>2, <3>3, <3>4
    <3> QED
      BY <1>8, <3>5 DEF EqualAfter, i, j
  <2> QED
    BY <1>1, <2>3, <2>4 DEF acc
<1> QED
  BY <1>7, <1>8

-----------------------------------------------------------------------------
(* Iterators.                                                              *)

\* A position with a value of a set that no other one is below, or above.
LEMMA LeastAt ==
  ASSUME NEW T \in SUBSET Values, NEW k \in Halves, NEW l \in Lowers, uniteBytes(k, l) \in T,
         \A y \in T : k < highBytes(y) \/ (k = highBytes(y) /\ l <= lowBytes(y))
  PROVE  T # {} /\ At(Min(T)) = [at |-> k, cur |-> l] /\ Min(T) = uniteBytes(k, l)
<1> DEFINE x == uniteBytes(k, l)
<1>1. x \in T /\ highBytes(x) = k /\ lowBytes(x) = l
  BY United
<1>2. \A y \in T : x <= y
  BY InOrder
<1> HIDE DEF x
<1>3. T \in SUBSET Int
  BY FiniteValues
<1>4. Min(T) = x
  BY <1>1, <1>2, <1>3, MinIs
<1> QED
  BY <1>1, <1>4 DEF At, x

\* The place of the greatest value of a set, by the halves.
LEMMA GreatestAt ==
  ASSUME NEW T \in SUBSET Values, NEW k \in Halves, NEW l \in Lowers, uniteBytes(k, l) \in T,
         \A y \in T : highBytes(y) < k \/ (highBytes(y) = k /\ lowBytes(y) <= l)
  PROVE  T # {} /\ At(Max(T)) = [at |-> k, cur |-> l]
<1> DEFINE x == uniteBytes(k, l)
<1>1. x \in T /\ highBytes(x) = k /\ lowBytes(x) = l /\ x \in Values
  BY United
<1>2. \A y \in T : y <= x
  <2>1. ASSUME NEW y \in T PROVE y <= x
    <3>1. /\ y \in Values /\ highBytes(y) \in Halves /\ lowBytes(y) \in Lowers
          /\ uniteBytes(highBytes(y), lowBytes(y)) = y
      BY Halved
    <3>2. uniteBytes(highBytes(y), lowBytes(y)) <= x <=>
            highBytes(y) < highBytes(x) \/ (highBytes(y) = highBytes(x) /\ lowBytes(y) <= lowBytes(x))
      BY <1>1, <3>1, InOrder
    <3> QED
      BY <1>1, <3>1, <3>2
  <2> QED
    BY <2>1
<1> HIDE DEF x
<1>3. T \in SUBSET Int
  BY FiniteValues
<1>4. Max(T) = x
  BY <1>1, <1>2, <1>3, MaxIs
<1> QED
  BY <1>1, <1>4 DEF At, x

\* The least and the greatest of a set of low halves.
LEMMA LowersEnds ==
  ASSUME NEW V \in SUBSET Lowers, V # {}
  PROVE  /\ Min(V) \in V /\ \A y \in V : Min(V) <= y
         /\ Max(V) \in V /\ \A y \in V : y <= Max(V)
         /\ Max(V \cup {NoValue}) = Max(V)
<1>1. V \in SUBSET Nat /\ Lows \in Nat
  BY Bounds
<1>2. \A y \in V : y <= Lows
  BY Bounds
<1>3. Min(V) \in V /\ \A y \in V : Min(V) <= y
  BY <1>1, MinFacts
<1>4. Max(V) \in V /\ \A y \in V : y <= Max(V)
  BY <1>1, <1>2, MaxFacts
<1> DEFINE u == Max(V)
           W == V \cup {NoValue}
<1> HIDE DEF u
<1>5. u \in V /\ u \in Nat /\ \A y \in V : y <= u
  BY <1>1, <1>4 DEF u
<1>6. W \in SUBSET Int /\ u \in W /\ \A y \in W : y <= u
  BY <1>1, <1>5 DEF NoValue
<1> HIDE DEF W
<1>7. Max(W) = u
  BY <1>6, MaxIs
<1> QED
  BY <1>3, <1>4, <1>7 DEF W, u

\* The same of a set of keys.
LEMMA KeysEnds ==
  ASSUME NEW K \in SUBSET Halves, K # {}
  PROVE  /\ Min(K) \in K /\ \A y \in K : Min(K) <= y
         /\ Max(K) \in K /\ \A y \in K : y <= Max(K)
<1>1. K \in SUBSET Nat /\ Highs \in Nat /\ \A y \in K : y <= Highs
  BY Bounds DEF Halves
<1> QED
  BY <1>1, MinFacts, MaxFacts

\* The first value of an inner bitmap, and the last one.
LEMMA InitFirstFacts ==
  ASSUME NEW m \in Maps, NEW k \in Keys(m), Vals(m, k) # {}, NEW T \in SUBSET Members(m),
         \A v \in Vals(m, k) : uniteBytes(k, v) \in T,
         \A y \in T : k <= highBytes(y)
  PROVE  T # {} /\ InitFirst(m, k) = At(Min(T))
<1> DEFINE l == Min(Vals(m, k))
<1>1. k \in Halves /\ Vals(m, k) \in SUBSET Lowers
  BY MapParts
<1>2. l \in Vals(m, k) /\ \A y \in Vals(m, k) : l <= y
  BY <1>1, LowersEnds
<1> HIDE DEF l
<1>3. T \in SUBSET Values
  BY MembersAreValues
<1>4. ASSUME NEW y \in T PROVE k < highBytes(y) \/ (k = highBytes(y) /\ l <= lowBytes(y))
  <2>1. y \in Values /\ highBytes(y) \in Keys(m) /\ lowBytes(y) \in Vals(m, highBytes(y)) /\ highBytes(y) \in Halves
    BY <1>3, MemberAt, Halved
  <2>2. k <= highBytes(y) /\ k \in Nat /\ highBytes(y) \in Nat
    BY <1>1, <2>1, Bounds
  <2> QED
    BY <1>2, <2>1, <2>2
<1>5. l \in Lowers /\ uniteBytes(k, l) \in T
  BY <1>1, <1>2
<1>6. T # {} /\ At(Min(T)) = [at |-> k, cur |-> l]
  BY <1>1, <1>3, <1>4, <1>5, LeastAt
<1> QED
  BY <1>6 DEF InitFirst, l

\* The last value of the last bitmap that has one is the greatest.
LEMMA InitLastFacts ==
  ASSUME NEW m \in Maps, NEW k \in Keys(m), Vals(m, k) # {}, NEW T \in SUBSET Members(m),
         \A v \in Vals(m, k) : uniteBytes(k, v) \in T,
         \A y \in T : highBytes(y) <= k
  PROVE  T # {} /\ InitLast(m, k) = At(Max(T)) /\ InitLast(m, k).cur # NoValue
<1> DEFINE l == Max(Vals(m, k))
<1>1. k \in Halves /\ Vals(m, k) \in SUBSET Lowers
  BY MapParts
<1>2. l \in Vals(m, k) /\ (\A y \in Vals(m, k) : y <= l) /\ Max(Vals(m, k) \cup {NoValue}) = l
  BY <1>1, LowersEnds
<1> HIDE DEF l
<1>3. T \in SUBSET Values
  BY MembersAreValues
<1>4. ASSUME NEW y \in T PROVE highBytes(y) < k \/ (highBytes(y) = k /\ lowBytes(y) <= l)
  <2>1. y \in Values /\ highBytes(y) \in Keys(m) /\ lowBytes(y) \in Vals(m, highBytes(y)) /\ highBytes(y) \in Halves
    BY <1>3, MemberAt, Halved
  <2>2. highBytes(y) <= k /\ k \in Nat /\ highBytes(y) \in Nat
    BY <1>1, <2>1, Bounds
  <2> QED
    BY <1>2, <2>1, <2>2
<1>5. l \in Lowers /\ uniteBytes(k, l) \in T
  BY <1>1, <1>2
<1>6. T # {} /\ At(Max(T)) = [at |-> k, cur |-> l]
  BY <1>1, <1>3, <1>4, <1>5, GreatestAt
<1>7. InitLast(m, k) = [at |-> k, cur |-> l]
  BY <1>2 DEF InitLast
<1>8. l # NoValue
  BY <1>5, Bounds DEF NoValue
<1> QED
  BY <1>6, <1>7, <1>8

\* Going on from a key finds the first value from there on.
LEMMA SkipForwardCorrect ==
  ASSUME NEW m \in Maps, NEW k \in Nat
  PROVE  SkipForward(m, k) = FirstOf({y \in Members(m) : highBytes(y) >= k})
<1> DEFINE K == {x \in Keys(m) : x >= k /\ Vals(m, x) # {}}
           T == {y \in Members(m) : highBytes(y) >= k}
           p == Min(K)
<1>1. K \in SUBSET Halves /\ Halves \in SUBSET Nat
  BY MapParts, Bounds
<1>2. Members(m) \in SUBSET Values
  BY MembersAreValues
<1>3. \A y \in Members(m) : highBytes(y) \in Keys(m) /\ Vals(m, highBytes(y)) # {}
  BY <1>2, MemberAt
<1>4. CASE K = {}
  <2>1. T = {}
    BY <1>3, <1>4
  <2> QED
    BY <1>4, <2>1 DEF SkipForward, FirstOf
<1>5. CASE K # {}
  <2>1. p \in K /\ \A j \in K : p <= j
    BY <1>1, <1>5, KeysEnds
  <2> HIDE DEF p
  <2>2. p \in Keys(m) /\ Vals(m, p) # {} /\ p >= k
    BY <2>1
  <2>3. ASSUME NEW v \in Vals(m, p) PROVE uniteBytes(p, v) \in T
    BY <2>2, InnerMember
  <2>4. \A y \in T : p <= highBytes(y)
    BY <1>3, <2>1
  <2> HIDE DEF T
  <2>5. T \in SUBSET Members(m)
    BY DEF T
  <2>6. T # {} /\ InitFirst(m, p) = At(Min(T))
    BY <2>2, <2>3, <2>4, <2>5, InitFirstFacts
  <2>7. SkipForward(m, k) = InitFirst(m, p)
    BY <1>5 DEF SkipForward, p
  <2> QED
    BY <2>6, <2>7 DEF FirstOf, T
<1> QED
  BY <1>4, <1>5

\* Going back from a key finds the last value before it, if there is one.
LEMMA SkipBackCorrect ==
  ASSUME NEW m \in Maps, NEW k \in Nat, NEW x \in Members(m), highBytes(x) < k
  PROVE  SkipBack(m, k) = At(Max({y \in Members(m) : highBytes(y) < k}))
<1> DEFINE K == {j \in Keys(m) : j < k /\ Vals(m, j) # {}}
           T == {y \in Members(m) : highBytes(y) < k}
           p == Max(K)
<1>1. K \in SUBSET Halves
  BY MapParts
<1>2. Members(m) \in SUBSET Values
  BY MembersAreValues
<1>3. \A y \in Members(m) : highBytes(y) \in Keys(m) /\ Vals(m, highBytes(y)) # {}
  BY <1>2, MemberAt
<1>4. K # {}
  BY <1>3
<1>5. p \in K /\ \A j \in K : j <= p
  BY <1>1, <1>4, KeysEnds
<1> HIDE DEF p
<1>6. p \in Keys(m) /\ Vals(m, p) # {} /\ p < k
  BY <1>5
<1>7. ASSUME NEW v \in Vals(m, p) PROVE uniteBytes(p, v) \in T
  BY <1>6, InnerMember
<1>8. \A y \in T : highBytes(y) <= p
  BY <1>3, <1>5
<1> HIDE DEF T
<1>9. T \in SUBSET Members(m)
  BY DEF T
<1>10. InitLast(m, p) = At(Max(T))
  BY <1>6, <1>7, <1>8, <1>9, InitLastFacts
<1>11. SkipBack(m, k) = InitLast(m, p)
  BY <1>4 DEF SkipBack, p
<1> QED
  BY <1>10, <1>11 DEF T

\* begin() stands on the first value.
LEMMA BeginCorrect ==
  ASSUME NEW m \in Maps
  PROVE  begin(m) = FirstOf(Members(m))
<1>1. Members(m) \in SUBSET Values /\ Keys(m) \in SUBSET Halves
  BY MembersAreValues, MapParts
<1>2. \A y \in Members(m) : highBytes(y) \in Keys(m)
  BY <1>1, MemberAt
<1>3. CASE Keys(m) = {}
  <2>1. Members(m) = {}
    BY <1>2, <1>3
  <2> QED
    BY <1>3, <2>1 DEF begin, FirstOf
<1>4. CASE Keys(m) # {}
  <2> DEFINE k == Min(Keys(m))
  <2>1. k \in Keys(m) /\ \A j \in Keys(m) : k <= j
    BY <1>1, <1>4, KeysEnds
  <2>2. begin(m) = SkipForward(m, k)
    BY <1>4 DEF begin
  <2> HIDE DEF k
  <2>3. k \in Nat /\ Keys(m) \in SUBSET Nat
    BY <1>1, <2>1, Bounds
  <2>4. \A y \in Members(m) : highBytes(y) >= k
    BY <1>2, <2>1, <2>3
  <2>5. {y \in Members(m) : highBytes(y) >= k} = Members(m)
    BY <2>4
  <2> QED
    BY <2>2, <2>3, <2>5, SkipForwardCorrect
<1> QED
  BY <1>3, <1>4

\* ++ goes on to the next value.
LEMMA NextCorrect ==
  ASSUME NEW m \in Maps, NEW v \in Members(m)
  PROVE  operator_next(m, At(v)) = FirstOf({w \in Members(m) : w > v})
<1> DEFINE h == highBytes(v)
           l == lowBytes(v)
           rest == {w \in Vals(m, h) : w > l}
           T == {w \in Members(m) : w > v}
<1>1. Members(m) \in SUBSET Values /\ v \in Values
  BY MembersAreValues
<1>2. h \in Keys(m) /\ l \in Vals(m, h) /\ h \in Halves /\ l \in Lowers /\ h \in Nat /\ l \in Nat /\ uniteBytes(h, l) = v
  BY <1>1, MemberAt, Halved, Bounds
<1>3. At(v).at = h /\ At(v).cur = l /\ At(v) = [at |-> h, cur |-> l]
  BY DEF At
<1> HIDE DEF h, l
<1>4. Vals(m, h) \in SUBSET Lowers
  BY <1>2, MapParts
<1>5. ASSUME NEW y \in Members(m)
      PROVE  /\ highBytes(y) \in Nat /\ lowBytes(y) \in Nat /\ lowBytes(y) \in Vals(m, highBytes(y))
             /\ y > v <=> highBytes(y) > h \/ (highBytes(y) = h /\ lowBytes(y) > l)
  <2>1. y \in Values /\ y \in Nat /\ v \in Nat
    BY <1>1, FiniteValues
  <2>2. /\ highBytes(y) \in Halves /\ lowBytes(y) \in Lowers /\ highBytes(y) \in Nat /\ lowBytes(y) \in Nat
        /\ uniteBytes(highBytes(y), lowBytes(y)) = y /\ lowBytes(y) \in Vals(m, highBytes(y))
    BY <2>1, Halved, Bounds, MemberAt
  <2>3. uniteBytes(highBytes(y), lowBytes(y)) <= v <=> highBytes(y) < h \/ (highBytes(y) = h /\ lowBytes(y) <= l)
    BY <1>1, <2>2, InOrder DEF h, l
  <2>4. y <= v <=> highBytes(y) < h \/ (highBytes(y) = h /\ lowBytes(y) <= l)
    BY <2>2, <2>3
  <2> QED
    BY <1>2, <2>1, <2>2, <2>4
<1>6. CASE rest # {}
  <2> DEFINE u == Min(rest)
  <2>1. rest \in SUBSET Lowers
    BY <1>4
  <2>2. u \in rest /\ \A y \in rest : u <= y
    BY <1>6, <2>1, LowersEnds
  <2> HIDE DEF u
  <2>3. u \in Vals(m, h) /\ u > l /\ u \in Lowers
    BY <2>1, <2>2
  <2>4. uniteBytes(h, u) \in T
    <3>1. uniteBytes(h, u) \in Members(m) /\ highBytes(uniteBytes(h, u)) = h /\ lowBytes(uniteBytes(h, u)) = u
      BY <1>2, <2>3, InnerMember
    <3> QED
      BY <1>5, <2>3, <3>1
  <2>5. ASSUME NEW y \in T PROVE h < highBytes(y) \/ (h = highBytes(y) /\ u <= lowBytes(y))
    <3>1. y \in Members(m) /\ y > v
      OBVIOUS
    <3>2. highBytes(y) > h \/ (highBytes(y) = h /\ lowBytes(y) > l /\ lowBytes(y) \in Vals(m, highBytes(y)))
      BY <1>5, <3>1
    <3> QED
      BY <1>2, <1>5, <2>2, <3>1, <3>2
  <2> HIDE DEF T
  <2>6. T \in SUBSET Values
    BY <1>1 DEF T
  <2>7. T # {} /\ At(Min(T)) = [at |-> h, cur |-> u]
    BY <1>2, <2>3, <2>4, <2>5, <2>6, LeastAt
  <2>8. operator_next(m, At(v)) = [at |-> h, cur |-> u]
    BY <1>3, <1>6 DEF operator_next, u
  <2> QED
    BY <2>7, <2>8 DEF FirstOf, T
<1>7. CASE rest = {}
  <2>1. operator_next(m, At(v)) = SkipForward(m, h + 1)
    BY <1>3, <1>7 DEF operator_next
  <2>2. SkipForward(m, h + 1) = FirstOf({y \in Members(m) : highBytes(y) >= h + 1})
    BY <1>2, SkipForwardCorrect
  <2>3. ASSUME NEW y \in Members(m) PROVE highBytes(y) >= h + 1 <=> y > v
    <3>1. ~(highBytes(y) = h /\ lowBytes(y) > l)
      BY <1>5, <1>7
    <3>2. highBytes(y) >= h + 1 <=> highBytes(y) > h
      BY <1>2, <1>5
    <3> QED
      BY <1>5, <3>1, <3>2
  <2>4. {y \in Members(m) : highBytes(y) >= h + 1} = T
    BY <2>3
  <2> QED
    BY <2>1, <2>2, <2>4
<1> QED
  BY <1>6, <1>7

\* Values come in the order of their halves.
LEMMA OrderOfHalves ==
  ASSUME NEW x \in Values, NEW y \in Values
  PROVE  /\ highBytes(x) \in Nat /\ lowBytes(x) \in Nat /\ highBytes(y) \in Nat /\ lowBytes(y) \in Nat
         /\ x < y <=> highBytes(x) < highBytes(y) \/ (highBytes(x) = highBytes(y) /\ lowBytes(x) < lowBytes(y))
         /\ x <= y <=> highBytes(x) < highBytes(y) \/ (highBytes(x) = highBytes(y) /\ lowBytes(x) <= lowBytes(y))
<1>1. x \in Nat /\ y \in Nat
  BY FiniteValues
<1>2. /\ highBytes(x) \in Halves /\ lowBytes(x) \in Lowers /\ uniteBytes(highBytes(x), lowBytes(x)) = x
      /\ highBytes(y) \in Halves /\ lowBytes(y) \in Lowers /\ uniteBytes(highBytes(y), lowBytes(y)) = y
  BY Halved
<1>3. highBytes(x) \in Nat /\ lowBytes(x) \in Nat /\ highBytes(y) \in Nat /\ lowBytes(y) \in Nat
  BY <1>2, Bounds
<1>4. x <= uniteBytes(highBytes(y), lowBytes(y)) <=> highBytes(x) < highBytes(y) \/ (highBytes(x) = highBytes(y) /\ lowBytes(x) <= lowBytes(y))
  BY <1>2, InOrder
<1>5. y <= uniteBytes(highBytes(x), lowBytes(x)) <=> highBytes(y) < highBytes(x) \/ (highBytes(y) = highBytes(x) /\ lowBytes(y) <= lowBytes(x))
  BY <1>2, InOrder
<1>6. x <= y <=> highBytes(x) < highBytes(y) \/ (highBytes(x) = highBytes(y) /\ lowBytes(x) <= lowBytes(y))
  BY <1>2, <1>4
<1>7. y <= x <=> highBytes(y) < highBytes(x) \/ (highBytes(y) = highBytes(x) /\ lowBytes(y) <= lowBytes(x))
  BY <1>2, <1>5
<1>8. x < y <=> ~(y <= x)
  BY <1>1
<1> QED
  BY <1>3, <1>6, <1>7, <1>8

\* -- goes back to the value before, if there is one.
LEMMA PreviousCorrect ==
  ASSUME NEW m \in Maps, NEW v \in Members(m), NEW u \in Members(m), u < v
  PROVE  Previous(m, At(v)) = At(Max({w \in Members(m) : w < v}))
<1> DEFINE h == highBytes(v)
           l == lowBytes(v)
           rest == {w \in Vals(m, h) : w < l}
           T == {w \in Members(m) : w < v}
<1>1. Members(m) \in SUBSET Values /\ v \in Values
  BY MembersAreValues
<1>2. h \in Keys(m) /\ l \in Vals(m, h) /\ h \in Halves /\ l \in Lowers /\ h \in Nat /\ l \in Nat
  BY <1>1, MemberAt, Halved, Bounds
<1>3. At(v).at = h /\ At(v).cur = l /\ At(v) = [at |-> h, cur |-> l]
  BY DEF At
<1>4. ASSUME NEW y \in Members(m)
      PROVE  /\ y \in Values
             /\ highBytes(y) \in Nat /\ lowBytes(y) \in Nat /\ lowBytes(y) \in Vals(m, highBytes(y))
             /\ y < v <=> highBytes(y) < h \/ (highBytes(y) = h /\ lowBytes(y) < l)
  BY <1>1, OrderOfHalves, MemberAt
<1> HIDE DEF h, l
<1>5. Vals(m, h) \in SUBSET Lowers
  BY <1>2, MapParts
<1>6. CASE rest # {}
  <2> DEFINE g == Max(rest)
  <2>1. rest \in SUBSET Lowers
    BY <1>5
  <2>2. g \in rest /\ \A y \in rest : y <= g
    BY <1>6, <2>1, LowersEnds
  <2> HIDE DEF g
  <2>3. g \in Vals(m, h) /\ g < l /\ g \in Lowers
    BY <2>1, <2>2
  <2>4. uniteBytes(h, g) \in T
    <3>1. uniteBytes(h, g) \in Members(m) /\ highBytes(uniteBytes(h, g)) = h /\ lowBytes(uniteBytes(h, g)) = g
      BY <1>2, <2>3, InnerMember
    <3> QED
      BY <1>4, <2>3, <3>1
  <2>5. ASSUME NEW y \in T PROVE highBytes(y) < h \/ (highBytes(y) = h /\ lowBytes(y) <= g)
    <3>1. y \in Members(m) /\ y < v
      OBVIOUS
    <3>2. highBytes(y) < h \/ (highBytes(y) = h /\ lowBytes(y) < l /\ lowBytes(y) \in Vals(m, highBytes(y)))
      BY <1>4, <3>1
    <3> QED
      BY <1>2, <1>4, <2>2, <3>1, <3>2
  <2> HIDE DEF T
  <2>6. T \in SUBSET Values
    BY <1>1 DEF T
  <2>7. At(Max(T)) = [at |-> h, cur |-> g]
    BY <1>2, <2>3, <2>4, <2>5, <2>6, GreatestAt
  <2>8. Previous(m, At(v)) = [at |-> h, cur |-> g]
    BY <1>3, <1>6 DEF Previous, g
  <2> QED
    BY <2>7, <2>8 DEF T
<1>7. CASE rest = {}
  <2>1. Previous(m, At(v)) = SkipBack(m, h)
    BY <1>3, <1>7 DEF Previous
  <2>2. ASSUME NEW y \in Members(m) PROVE highBytes(y) < h <=> y < v
    <3>1. ~(highBytes(y) = h /\ lowBytes(y) < l)
      BY <1>4, <1>7
    <3> QED
      BY <1>4, <3>1
  <2>3. highBytes(u) < h
    BY <2>2
  <2>4. SkipBack(m, h) = At(Max({y \in Members(m) : highBytes(y) < h}))
    BY <1>2, <2>3, SkipBackCorrect
  <2>5. {y \in Members(m) : highBytes(y) < h} = T
    BY <2>2
  <2> QED
    BY <2>1, <2>4, <2>5
<1> QED
  BY <1>6, <1>7

\* The step back from end() lands on the last value, over any empty bitmaps.
LEMMA BackFromEndCorrect ==
  ASSUME NEW m \in Maps, Members(m) # {}
  PROVE  operator_prev(m, AtEnd) = At(Max(Members(m)))
<1> DEFINE k == Max(Keys(m))
<1>1. Members(m) \in SUBSET Values /\ Keys(m) \in SUBSET Halves
  BY MembersAreValues, MapParts
<1>2. \A y \in Members(m) : highBytes(y) \in Keys(m) /\ lowBytes(y) \in Vals(m, highBytes(y))
  BY <1>1, MemberAt
<1>3. Keys(m) # {}
  BY <1>2
<1>4. k \in Keys(m) /\ \A j \in Keys(m) : j <= k
  BY <1>1, <1>3, KeysEnds
<1>5. k \in Nat /\ Keys(m) \in SUBSET Nat
  BY <1>1, <1>4, Bounds
<1> HIDE DEF k
<1>6. AtEnd.at = End
  BY DEF AtEnd
<1>7. InitLast(m, k).at = k /\ InitLast(m, k).cur = Max(Vals(m, k) \cup {NoValue})
  BY DEF InitLast
<1>8. CASE Vals(m, k) # {}
  <2>1. \A v \in Vals(m, k) : uniteBytes(k, v) \in Members(m)
    BY <1>4, InnerMember
  <2>2. \A y \in Members(m) : highBytes(y) <= k
    BY <1>2, <1>4
  <2>3. InitLast(m, k) = At(Max(Members(m))) /\ InitLast(m, k).cur # NoValue
    BY <1>4, <1>8, <2>1, <2>2, InitLastFacts
  <2> QED
    BY <1>6, <2>3 DEF operator_prev, k
<1>9. CASE Vals(m, k) = {}
  <2>1. ASSUME NEW y \in Members(m) PROVE highBytes(y) < k
    <3>1. highBytes(y) <= k /\ highBytes(y) # k /\ highBytes(y) \in Nat
      BY <1>2, <1>4, <1>5, <1>9
    <3> QED
      BY <1>5, <3>1
  <2>2. {y \in Members(m) : highBytes(y) < k} = Members(m)
    BY <2>1
  <2>3. SkipBack(m, k) = At(Max(Members(m)))
    BY <1>5, <2>1, <2>2, SkipBackCorrect
  <2>4. InitLast(m, k).cur = NoValue
    <3>1. Vals(m, k) \cup {NoValue} = {NoValue} /\ NoValue \in Int
      BY <1>9 DEF NoValue
    <3> QED
      BY <1>7, <3>1 DEF Max, NoValue
  <2> QED
    BY <1>6, <1>7, <2>3, <2>4 DEF operator_prev, k
<1> QED
  BY <1>8, <1>9

\* The postfix step back from end() does not skip empty bitmaps; it lands on the
\* last value when only the bitmap of key 0 may be empty.
LEMMA BackFromEndPostCorrect ==
  ASSUME NEW m \in Maps, ZeroOnly(m), Members(m) # {}
  PROVE  operator_prev_post(m, AtEnd) = At(Max(Members(m)))
<1> DEFINE k == Max(Keys(m))
<1>1. Members(m) \in SUBSET Values /\ Keys(m) \in SUBSET Halves
  BY MembersAreValues, MapParts
<1>2. \A y \in Members(m) : highBytes(y) \in Keys(m) /\ lowBytes(y) \in Vals(m, highBytes(y))
  BY <1>1, MemberAt
<1>3. Keys(m) # {}
  BY <1>2
<1>4. k \in Keys(m) /\ \A j \in Keys(m) : j <= k
  BY <1>1, <1>3, KeysEnds
<1> HIDE DEF k
<1>5. Vals(m, k) # {}
  <2>1. SUFFICES ASSUME Vals(m, k) = {} PROVE FALSE
    OBVIOUS
  <2>2. k = 0
    BY <1>4, <2>1 DEF ZeroOnly
  <2>3. Keys(m) \in SUBSET Nat
    BY <1>1, Bounds
  <2>4. PICK y \in Members(m) : TRUE
    OBVIOUS
  <2>5. highBytes(y) = 0
    BY <1>2, <1>4, <2>2, <2>3
  <2> QED
    BY <1>2, <2>1, <2>2, <2>5
<1>6. \A v \in Vals(m, k) : uniteBytes(k, v) \in Members(m)
  BY <1>4, InnerMember
<1>7. \A y \in Members(m) : highBytes(y) <= k
  BY <1>2, <1>4
<1>8. InitLast(m, k) = At(Max(Members(m)))
  BY <1>4, <1>5, <1>6, <1>7, InitLastFacts
<1>9. AtEnd.at = End
  BY DEF AtEnd
<1> QED
  BY <1>8, <1>9 DEF operator_prev_post, k

\* A position on a value holds that value and is not end().
LEMMA AtFacts ==
  ASSUME NEW v \in Values
  PROVE  At(v).at # End /\ deref(At(v)) = v /\ v \in Nat
<1>1. highBytes(v) \in Halves /\ uniteBytes(highBytes(v), lowBytes(v)) = v
  BY Halved
<1>2. highBytes(v) # End
  BY <1>1, Bounds DEF Halves, End
<1> QED
  BY <1>1, <1>2, FiniteValues DEF At, deref

\* Positions compare as the values they stand on.
LEMMA ComparisonsCorrect ==
  ASSUME NEW v \in Values, NEW w \in Values
  PROVE  /\ iter_less(At(v), At(w)) <=> v < w
         /\ iter_leq(At(v), At(w)) <=> v <= w
         /\ iter_eq(At(v), At(w), 0) <=> v = w
         /\ ~iter_eq(At(v), AtEnd, 0)
<1>1. At(v).at # End /\ deref(At(v)) = v /\ At(w).at # End /\ deref(At(w)) = w
  BY AtFacts
<1>2. AtEnd.at = End
  BY DEF AtEnd
<1> QED
  BY <1>1, <1>2 DEF iter_less, iter_leq, iter_eq

\* The seek to the first value of a key: at end() there is none.
SeekKey(m, j) ==
  IF j = End THEN [it |-> AtEnd, found |-> FALSE] ELSE [it |-> InitFirst(m, j), found |-> TRUE]

\* The seek to the next key lands on the first value above all those of key h.
LEMMA SeekKeyCorrect ==
  ASSUME NEW m \in Maps, ZeroOnly(m), NEW h \in Nat, NEW j \in Nat, j \in Keys(m) \cup {End}, j # End => j > h,
         \A k \in Keys(m) : k > h <=> k >= j
  PROVE  LET T == {y \in Members(m) : highBytes(y) > h}
         IN  /\ SeekKey(m, j).found <=> T # {}
             /\ SeekKey(m, j).found => SeekKey(m, j).it = At(Min(T))
<1> DEFINE T == {y \in Members(m) : highBytes(y) > h}
<1>1. Members(m) \in SUBSET Values /\ Keys(m) \in SUBSET Halves
  BY MembersAreValues, MapParts
<1>2. \A y \in Members(m) : highBytes(y) \in Keys(m)
  BY <1>1, MemberAt
<1>3. CASE j = End
  <2>1. \A k \in Keys(m) : k \in Nat /\ k < End
    BY <1>1, Bounds DEF Halves, End
  <2>2. \A k \in Keys(m) : ~(k > h)
    BY <1>3, <2>1
  <2>3. T = {}
    BY <1>2, <2>2
  <2> QED
    BY <1>3, <2>3 DEF SeekKey
<1>4. CASE j # End
  <2>1. j \in Keys(m) /\ j > h
    BY <1>4
  <2>2. Vals(m, j) # {}
    BY <2>1 DEF ZeroOnly
  <2>3. ASSUME NEW v \in Vals(m, j) PROVE uniteBytes(j, v) \in T
    BY <2>1, <2>3, InnerMember
  <2>4. \A y \in T : j <= highBytes(y)
    BY <1>2
  <2> HIDE DEF T
  <2>5. T \in SUBSET Members(m)
    BY DEF T
  <2>6. T # {} /\ InitFirst(m, j) = At(Min(T))
    BY <2>1, <2>2, <2>3, <2>4, <2>5, InitFirstFacts
  <2> QED
    BY <1>4, <2>6 DEF SeekKey, T
<1> QED
  BY <1>3, <1>4

\* move_equalorlarger in terms of the seek to a key.
LEMMA MoveSplits ==
  ASSUME NEW m, NEW x
  PROVE  LET k == lower_bound(m, highBytes(x))
             here == {v \in Vals(m, k) : v >= lowBytes(x)}
         IN  /\ k = End \/ k # highBytes(x) => move_equalorlarger(m, x) = SeekKey(m, k)
             /\ ~(k = End \/ k # highBytes(x)) /\ here # {} =>
                  move_equalorlarger(m, x) = [it |-> [at |-> k, cur |-> Min(here)], found |-> TRUE]
             /\ ~(k = End \/ k # highBytes(x)) /\ here = {} =>
                  move_equalorlarger(m, x) = SeekKey(m, NextKey(m, k))
  BY Zenon DEF move_equalorlarger, SeekKey

\* The seek finds the first value from x on, and says whether there is one.
LEMMA MoveCorrect ==
  ASSUME NEW m \in Maps, ZeroOnly(m), NEW x \in Values
  PROVE  LET r == move_equalorlarger(m, x)
             later == {v \in Members(m) : v >= x}
         IN  (r.found <=> later # {}) /\ (r.found => r.it = At(Min(later)))
<1> DEFINE h == highBytes(x)
           l == lowBytes(x)
           k == lower_bound(m, h)
           here == {v \in Vals(m, k) : v >= l}
           later == {v \in Members(m) : v >= x}
           above == {y \in Members(m) : highBytes(y) > h}
<1>1. Members(m) \in SUBSET Values /\ Keys(m) \in SUBSET Halves
  BY MembersAreValues, MapParts
<1>2. h \in Halves /\ l \in Lowers /\ h \in Nat /\ l \in Nat /\ x \in Nat
  BY Halved, Bounds, FiniteValues
<1>3. ASSUME NEW y \in Members(m)
      PROVE  /\ y \in Nat /\ highBytes(y) \in Nat /\ lowBytes(y) \in Nat
             /\ highBytes(y) \in Keys(m) /\ lowBytes(y) \in Vals(m, highBytes(y))
             /\ y >= x <=> highBytes(y) > h \/ (highBytes(y) = h /\ lowBytes(y) >= l)
  <2>1. y \in Values /\ y \in Nat
    BY <1>1, FiniteValues
  <2>2. /\ highBytes(y) \in Nat /\ lowBytes(y) \in Nat
        /\ x <= y <=> h < highBytes(y) \/ (h = highBytes(y) /\ l <= lowBytes(y))
    BY <2>1, OrderOfHalves
  <2>3. y \in Members(m) <=> highBytes(y) \in Keys(m) /\ lowBytes(y) \in Vals(m, highBytes(y))
    BY <2>1, MemberAt
  <2> QED
    BY <1>2, <2>1, <2>2, <2>3
<1>4. k \in Nat /\ k \in Keys(m) \cup {End} /\ (k # End => k >= h) /\ \A j \in Keys(m) : j >= h <=> j >= k
  BY <1>2, LowerBound
<1>5. Keys(m) \in SUBSET Nat /\ \A j \in Keys(m) : j < End
  BY <1>1, Bounds DEF Halves, End
<1>6. CASE k = End \/ k # h
  <2>1. ASSUME NEW j \in Keys(m) PROVE j > h <=> j >= k
    <3>1. j \in Nat /\ j < End /\ (j >= h <=> j >= k)
      BY <1>4, <1>5
    <3> HIDE DEF k, h
    <3>2. End \in Nat
      BY Bounds DEF End
    <3> QED
      BY <1>2, <1>4, <1>5, <1>6, <3>1, <3>2
  <2>2. k # End => k > h
    BY <1>2, <1>4, <1>6
  <2>3. ASSUME NEW y \in Members(m) PROVE y >= x <=> highBytes(y) > h
    <3>1. highBytes(y) \in Keys(m) /\ highBytes(y) < End
      BY <1>3, <1>5
    <3>2. highBytes(y) # h
      <4>1. SUFFICES ASSUME highBytes(y) = h PROVE FALSE
        OBVIOUS
      <4>2. h >= k /\ h < End /\ h \in Keys(m)
        BY <1>2, <1>4, <3>1, <4>1
      <4> HIDE DEF k, h
      <4> QED
        BY <1>2, <1>4, <1>6, <4>2
    <3> QED
      BY <1>3, <3>2
  <2>4. later = above
    BY <2>3
  <2>5. move_equalorlarger(m, x) = SeekKey(m, k)
    BY <1>6, MoveSplits
  <2> HIDE DEF k, h
  <2>6. (SeekKey(m, k).found <=> above # {}) /\ (SeekKey(m, k).found => SeekKey(m, k).it = At(Min(above)))
    BY <1>2, <1>4, <2>1, <2>2, SeekKeyCorrect
  <2> QED
    BY <2>4, <2>5, <2>6
<1>7. CASE ~(k = End \/ k # h) /\ here # {}
  <2> DEFINE g == Min(here)
  <2>1. h \in Keys(m) /\ k = h
    BY <1>4, <1>7
  <2>2. Vals(m, h) \in SUBSET Lowers
    BY <2>1, MapParts
  <2>3. here \in SUBSET Lowers
    BY <2>1, <2>2
  <2>4. g \in here /\ \A y \in here : g <= y
    BY <1>7, <2>3, LowersEnds
  <2>5. move_equalorlarger(m, x) = [it |-> [at |-> k, cur |-> g], found |-> TRUE]
    BY <1>7, MoveSplits
  <2> HIDE DEF g
  <2>6. g \in Vals(m, h) /\ g >= l /\ g \in Lowers
    BY <2>1, <2>3, <2>4
  <2> HIDE DEF h, k
  <2>7. uniteBytes(h, g) \in later
    <3>1. uniteBytes(h, g) \in Members(m) /\ highBytes(uniteBytes(h, g)) = h /\ lowBytes(uniteBytes(h, g)) = g
      BY <2>1, <2>6, InnerMember
    <3> QED
      BY <1>3, <2>6, <3>1
  <2>8. ASSUME NEW y \in later PROVE h < highBytes(y) \/ (h = highBytes(y) /\ g <= lowBytes(y))
    <3>1. y \in Members(m) /\ y >= x
      OBVIOUS
    <3>2. highBytes(y) > h \/ (highBytes(y) = h /\ lowBytes(y) >= l /\ lowBytes(y) \in Vals(m, highBytes(y)))
      BY <1>3, <3>1
    <3> QED
      BY <1>2, <1>3, <2>1, <2>4, <3>1, <3>2
  <2> HIDE DEF later
  <2>9. later \in SUBSET Values
    BY <1>1 DEF later
  <2>10. later # {} /\ At(Min(later)) = [at |-> h, cur |-> g]
    BY <1>2, <2>6, <2>7, <2>8, <2>9, LeastAt
  <2> QED
    BY <2>1, <2>5, <2>10 DEF later
<1>8. CASE ~(k = End \/ k # h) /\ here = {}
  <2> DEFINE next == lower_bound(m, h + 1)
  <2>1. h \in Keys(m) /\ k = h
    BY <1>4, <1>8
  <2>2. h + 1 \in Nat
    BY <1>2
  <2>3. next \in Nat /\ next \in Keys(m) \cup {End} /\ (next # End => next >= h + 1)
        /\ \A j \in Keys(m) : j >= h + 1 <=> j >= next
    BY <2>2, LowerBound
  <2>4. NextKey(m, k) = next
    BY <2>1 DEF NextKey
  <2>5. move_equalorlarger(m, x) = SeekKey(m, next)
    BY <1>8, <2>4, MoveSplits
  <2> HIDE DEF next
  <2>6. \A j \in Keys(m) : j > h <=> j >= next
    BY <1>2, <1>5, <2>3
  <2>7. next # End => next > h
    BY <1>2, <2>3
  <2>8. ASSUME NEW y \in Members(m) PROVE y >= x <=> highBytes(y) > h
    <3>1. ~(highBytes(y) = h /\ lowBytes(y) >= l)
      BY <1>3, <1>8, <2>1
    <3> QED
      BY <1>3, <3>1
  <2>9. later = above
    BY <2>8
  <2> HIDE DEF h
  <2>10. (SeekKey(m, next).found <=> above # {}) /\ (SeekKey(m, next).found => SeekKey(m, next).it = At(Min(above)))
    BY <1>2, <2>3, <2>6, <2>7, SeekKeyCorrect
  <2> QED
    BY <2>5, <2>9, <2>10
<1> QED
  BY <1>6, <1>7, <1>8

-----------------------------------------------------------------------------
(* The theorem about the queries.                                          *)

\* The queries on one map.
LEMMA SingleQueries ==
  ASSUME Inv
  PROVE  SingleQueriesAgree
<1>1. a \in Maps /\ Members(a) = va
  BY DEF Inv, Fits
<1>2. Values \subseteq Nat
  BY FiniteValues
<1>3. cardinality(a) = IF va = Values THEN Throws ELSE Cardinality(va)
  BY <1>1, CardinalityCorrect
<1>4. isEmpty(a) <=> va = {}
  BY <1>1, IsEmptyCorrect
<1>5. isFull(a) <=> va = Values
  BY <1>1, IsFullCorrect
<1>6. minimum(a) = IF va = {} THEN Max(Values) ELSE Min(va)
  BY <1>1, MinimumCorrect
<1>7. maximum(a) = IF va = {} THEN 0 ELSE Max(va)
  BY <1>1, MaximumCorrect
<1>8. ASSUME NEW x \in Values
      PROVE  /\ contains(a, x) <=> x \in va
             /\ rank(a, x) = Cardinality({v \in va : v <= x})
             /\ getIndex(a, x) = IF x \in va THEN Cardinality({v \in va : v < x}) ELSE -1
             /\ select(a, x) = IF x < Cardinality(va) THEN Ordered(va)[x + 1] ELSE Throws
             /\ iterate(a, x) = Ordered({v \in va : x \in va => v <= x})
  <2>1. contains(a, x) <=> x \in va
    BY <1>1, ContainsCorrect
  <2>2. rank(a, x) = Cardinality({v \in va : v <= x})
    BY <1>1, RankCorrect
  <2>3. getIndex(a, x) = IF x \in va THEN Cardinality({v \in va : v < x}) ELSE -1
    BY <1>1, GetIndexCorrect
  <2>4. select(a, x) = IF x < Cardinality(va) THEN Ordered(va)[x + 1] ELSE Throws
    BY <1>1, <1>2, SelectCorrect
  <2>5. iterate(a, x) = Ordered({v \in va : x \in va => v <= x})
    BY <1>1, IterateCorrect
  <2> QED
    BY <2>1, <2>2, <2>3, <2>4, <2>5
<1>9. \A min, max \in Values : containsRangeClosed(a, min, max) <=> (min..max) \subseteq va
  BY <1>1, ContainsRangeCorrect
<1>10. \A min, max \in 0..uint32_max : containsRangeClosed32(a, min, max) <=> (min..max) \subseteq va
  BY <1>1, ContainsRange32Correct DEF Lowers
<1> QED
  BY <1>3, <1>4, <1>5, <1>6, <1>7, <1>8, <1>9, <1>10 DEF SingleQueriesAgree

\* The queries on two maps.
LEMMA PairQueries ==
  ASSUME Highs > 1, Inv
  PROVE  PairQueriesAgree
<1>1. a \in Maps /\ Members(a) = va /\ b \in Maps /\ Members(b) = vb
  BY DEF Inv, Fits
<1>2. operator_eq(a, b) <=> va = vb
  BY <1>1, EqualCorrect
<1>3. isSubset(a, b) <=> va \subseteq vb
  BY <1>1, IsSubsetCorrect
<1>4. isStrictSubset(a, b) = IF vb = Values THEN "throws"
                             ELSE IF va \subseteq vb /\ va # vb THEN "true" ELSE "false"
  BY <1>1, IsStrictSubsetCorrect
<1>5. intersect(a, b) <=> va \cap vb # {}
  BY <1>1, IntersectCorrect
<1>6. and_cardinality(a, b) = CountOf(va \cap vb)
  BY <1>1, AndCardinalityCorrect
<1>7. or_cardinality(a, b) = CountOf(va \cup vb)
  BY <1>1, OrCardinalityCorrect
<1>8. xor_cardinality(a, b) = CountOf(SymDiff(va, vb))
  BY <1>1, XorCardinalityCorrect
<1>9. andnot_cardinality(a, b) = CountOf(va \ vb)
  BY <1>1, AndnotCardinalityCorrect
<1> QED
  BY <1>2, <1>3, <1>4, <1>5, <1>6, <1>7, <1>8, <1>9 DEF PairQueriesAgree, CountOf

\* The iterators; two calls on the maps that have no empty bitmap above key 0.
LEMMA Walks ==
  ASSUME Inv
  PROVE  WalksAgree
<1>1. a \in Maps /\ Members(a) = va
  BY DEF Inv, Fits
<1>2. ASSUME program # "foreign" PROVE ZeroOnly(a)
  BY <1>2 DEF Inv, Fits
<1>3. va \in SUBSET Values /\ Values \subseteq Nat
  BY <1>1, MembersAreValues, FiniteValues
<1>4. begin(a) = FirstOf(va)
  BY <1>1, BeginCorrect
<1>5. \A v \in va : operator_next(a, At(v)) = FirstOf({w \in va : w > v})
  BY <1>1, NextCorrect
<1>6. va # {} => operator_prev(a, AtEnd) = At(Max(va))
  BY <1>1, BackFromEndCorrect
<1>7. ASSUME NEW v \in va, v # Min(va)
      PROVE  operator_prev(a, At(v)) = At(Max({w \in va : w < v}))
  <2>1. Min(va) \in va /\ \A y \in va : Min(va) <= y
    BY <1>3, MinFacts
  <2>2. Min(va) \in Nat /\ v \in Nat /\ Min(va) <= v
    BY <1>3, <2>1
  <2>3. Min(va) < v
    BY <1>7, <2>2
  <2>4. Previous(a, At(v)) = At(Max({w \in va : w < v}))
    BY <1>1, <2>1, <2>3, PreviousCorrect
  <2>5. At(v).at # End
    BY <1>3, AtFacts
  <2> QED
    BY <2>4, <2>5 DEF operator_prev
<1>8. ASSUME NEW v \in va, NEW w \in va
      PROVE  /\ iter_less(At(v), At(w)) <=> v < w
             /\ iter_leq(At(v), At(w)) <=> v <= w
             /\ iter_eq(At(v), At(w), 0) <=> v = w
             /\ ~iter_eq(At(v), AtEnd, 0)
  BY <1>3, ComparisonsCorrect
<1>9. ASSUME program # "foreign"
      PROVE  (va # {} => operator_prev_post(a, AtEnd) = At(Max(va))) /\ MoveFindsNext
  <2>1. ZeroOnly(a)
    BY <1>2, <1>9
  <2>2. va # {} => operator_prev_post(a, AtEnd) = At(Max(va))
    BY <1>1, <2>1, BackFromEndPostCorrect
  <2>3. MoveFindsNext
    BY <1>1, <2>1, MoveCorrect DEF MoveFindsNext
  <2> QED
    BY <2>2, <2>3
<1> QED
  BY <1>4, <1>5, <1>6, <1>7, <1>8, <1>9 DEF WalksAgree

\* After any calls every query answers for the values alone: cardinality, ends,
\* ranks, ranges and enumerations of one map, the comparisons and counts of two,
\* and the iterators in both directions (roaring64map.hh, the const members).  The
\* seek and one step back are left out for maps with empty bitmaps of other writers.
\* That the counts throw at 2^64 and nowhere else needs more than one value of the high
\* half: with a single inner bitmap the sum would never wrap.
THEOREM QueriesCorrect ==
  ASSUME Highs > 1
  PROVE  Spec => []QueriesAgree
<1>1. Inv => QueriesAgree
  BY SingleQueries, PairQueries, Walks DEF QueriesAgree
<1> QED
  BY <1>1, InvHolds, PTL

-----------------------------------------------------------------------------
(* Files that lost bytes at their end.                                     *)

\* The entry of the i-th key.
EntryAt(m, i) == [key |-> KeySeq(m)[i], vals |-> Vals(m, KeySeq(m)[i])]

Entries == [key : Halves, vals : SUBSET Lowers]

\* Maps that hold the first i inner bitmaps of m, without the flag.
MapsTo(m, i) ==
  {r \in Maps :
     /\ r.copyOnWrite = FALSE
     /\ Keys(r) = Firsts(Keys(m), i)
     /\ \A k \in Keys(r) : r.roarings[k] = [vals |-> Vals(m, k), cow |-> FALSE]}

\* The entries of a map are keys with sets of low halves.
LEMMA EntriesFacts ==
  ASSUME NEW m \in Maps, NEW i \in 1..Cardinality(Keys(m))
  PROVE  /\ EntryAt(m, i) \in Entries /\ EntryAt(m, i).key = KeySeq(m)[i] /\ KeySeq(m)[i] \in Keys(m)
         /\ EntryAt(m, i).vals = Vals(m, KeySeq(m)[i])
<1>1. KeySeq(m)[i] \in Keys(m)
  BY KeysInOrder
<1>2. KeySeq(m)[i] \in Halves /\ Vals(m, KeySeq(m)[i]) \in SUBSET Lowers
  BY <1>1, MapParts
<1> QED
  BY <1>1, <1>2 DEF EntryAt, Entries

\* Sizes of inner bitmaps are numbers.
LEMMA BytesFacts ==
  ASSUME NEW V \in SUBSET Lowers
  PROVE  InnerBytes(V) \in Nat /\ FrozenBytes(V) \in Nat
<1>1. IsFiniteSet(Lowers)
  BY Bounds, FS_Interval DEF Lowers, uint32_max
<1>2. Cardinality(V) \in Nat
  BY <1>1, FS_Subset, FS_CardinalityType
<1> QED
  BY <1>2 DEF InnerBytes, FrozenBytes

\* A map that takes in an entry is a map.
LEMMA EnteringFacts ==
  ASSUME NEW m \in Maps, NEW e \in Entries
  PROVE  Put(m, e.key, [vals |-> e.vals, cow |-> FALSE]) \in Maps
<1> DEFINE inner == [vals |-> e.vals, cow |-> FALSE]
<1>1. e.key \in Halves /\ inner \in Inner
  BY DEF Entries, Inner
<1> HIDE DEF inner
<1>2. Put(m, e.key, inner) \in Maps
  BY <1>1, PutFacts
<1> QED
  BY <1>2 DEF inner

\* The i-th entry takes a map of the entries before to one of the first i.
LEMMA MapContinues ==
  ASSUME NEW m \in Maps, NEW i \in 1..Cardinality(Keys(m)), NEW r \in MapsTo(m, i - 1)
  PROVE  Put(r, EntryAt(m, i).key, [vals |-> EntryAt(m, i).vals, cow |-> FALSE]) \in MapsTo(m, i)
<1> DEFINE k == KeySeq(m)[i]
           inner == [vals |-> Vals(m, k), cow |-> FALSE]
           map == Put(r, k, inner)
<1>1. Keys(m) \in SUBSET Nat /\ IsFiniteSet(Keys(m)) /\ KeySeq(m) = Ordered(Keys(m))
  BY KeysInOrder
<1>2. Firsts(Keys(m), i) = Firsts(Keys(m), i - 1) \cup {k}
  BY <1>1, FirstsFacts
<1>3. k \in Keys(m) /\ EntryAt(m, i).key = k /\ EntryAt(m, i).vals = Vals(m, k)
  BY EntriesFacts
<1> HIDE DEF k
<1>4. k \in Halves /\ inner \in Inner
  BY <1>3, MapParts DEF Inner
<1>5. /\ r \in Maps /\ r.copyOnWrite = FALSE /\ Keys(r) = Firsts(Keys(m), i - 1)
      /\ \A j \in Keys(r) : r.roarings[j] = [vals |-> Vals(m, j), cow |-> FALSE]
  BY DEF MapsTo
<1>6. /\ map \in Maps /\ Keys(map) = Keys(r) \cup {k} /\ map.copyOnWrite = FALSE
      /\ \A j \in Keys(map) : map.roarings[j] = [vals |-> Vals(m, j), cow |-> FALSE]
  <2> HIDE DEF inner
  <2>1. /\ map \in Maps /\ Keys(map) = Keys(r) \cup {k} /\ map.copyOnWrite = FALSE
        /\ map.roarings[k] = inner
        /\ \A j \in Keys(r) \ {k} : map.roarings[j] = r.roarings[j]
    BY <1>4, <1>5, PutFacts
  <2> HIDE DEF map
  <2> QED
    BY <1>5, <2>1 DEF inner
<1> HIDE DEF map
<1>7. map \in MapsTo(m, i)
  BY <1>2, <1>5, <1>6 DEF MapsTo
<1> QED
  BY <1>3, <1>7 DEF map

\* No entry, and all of them.
LEMMA MapEnds ==
  ASSUME NEW m \in Maps
  PROVE  /\ Empty \in MapsTo(m, 0)
         /\ \A r \in MapsTo(m, Cardinality(Keys(m))) : Keys(r) = Keys(m) /\ Members(r) = Members(m)
<1>1. Firsts(Keys(m), 0) = {} /\ Firsts(Keys(m), Cardinality(Keys(m))) = Keys(m)
  BY KeysInOrder, FirstsEnds
<1>2. Empty \in MapsTo(m, 0)
  BY <1>1, EmptyFacts DEF MapsTo
<1>3. ASSUME NEW r \in MapsTo(m, Cardinality(Keys(m)))
      PROVE  Keys(r) = Keys(m) /\ Members(r) = Members(m)
  <2>1. /\ r \in Maps /\ Keys(r) = Keys(m)
        /\ \A k \in Keys(m) : r.roarings[k] = [vals |-> Vals(m, k), cow |-> FALSE]
    BY <1>1 DEF MapsTo
  <2>2. ASSUME NEW k \in Keys(m) PROVE Vals(r, k) = Vals(m, k)
    <3> DEFINE V == Vals(m, k)
    <3>1. r.roarings[k] = [vals |-> V, cow |-> FALSE]
      BY <2>1
    <3> HIDE DEF V
    <3>2. r.roarings[k].vals = V
      BY <3>1
    <3> QED
      BY <3>2 DEF V, Vals
  <2>3. \A h \in Halves : ValsOrNone(r, h) = ValsOrNone(m, h)
    BY <2>1, <2>2 DEF ValsOrNone
  <2> QED
    BY <2>1, <2>3, SameMembers
<1> QED
  BY <1>2, <1>3

\* The bytes of the entries after the first i.
RestBytes(m, f, i) ==
  (Cardinality(Keys(m)) - i) * KeyBytes + f[Keys(m) \ Firsts(Keys(m), i)]

\* The first of them takes a key and an inner bitmap.
LEMMA RestFacts ==
  ASSUME NEW m \in Maps, NEW f, IsSizes(f, m), NEW i \in 1..Cardinality(Keys(m))
  PROVE  /\ InnerBytes(EntryAt(m, i).vals) \in Nat /\ RestBytes(m, f, i) \in Nat
         /\ RestBytes(m, f, i - 1) = KeyBytes + InnerBytes(EntryAt(m, i).vals) + RestBytes(m, f, i)
<1> DEFINE N == Cardinality(Keys(m))
           k == KeySeq(m)[i]
           rest == Keys(m) \ Firsts(Keys(m), i - 1)
           bytes == InnerBytes(Vals(m, k))
<1>1. Keys(m) \in SUBSET Nat /\ IsFiniteSet(Keys(m)) /\ KeySeq(m) = Ordered(Keys(m)) /\ N \in Nat
  BY KeysInOrder
<1>2. k \in Keys(m) /\ EntryAt(m, i).vals = Vals(m, k)
  BY EntriesFacts
<1>3. Firsts(Keys(m), i) = Firsts(Keys(m), i - 1) \cup {k} /\ Firsts(Keys(m), i - 1) = {j \in Keys(m) : j < k}
  BY <1>1, FirstsFacts
<1> HIDE DEF k
<1>4. k \in rest /\ rest \in SUBSET Keys(m) /\ rest \ {k} = Keys(m) \ Firsts(Keys(m), i)
  BY <1>1, <1>2, <1>3
<1> HIDE DEF rest
<1>5. f[rest] = bytes + f[rest \ {k}] /\ f[rest \ {k}] \in Nat /\ f[rest] \in Nat
  <2>1. rest \ {k} \in SUBSET Keys(m)
    BY <1>4
  <2> QED
    BY <1>4, <2>1 DEF IsSizes
<1>6. bytes \in Nat
  BY <1>2, MapParts, BytesFacts
<1>7. RestBytes(m, f, i) = (N - i) * 4 + f[rest \ {k}]
  BY <1>4 DEF RestBytes, KeyBytes
<1>8. RestBytes(m, f, i - 1) = (N - (i - 1)) * 4 + f[rest]
  BY DEF RestBytes, KeyBytes, rest
<1> DEFINE all == f[rest]
           others == f[rest \ {k}]
<1>9. i \in Nat /\ i <= N
  BY <1>1
<1> HIDE DEF N, all, others, bytes
<1>10. (N - i) * 4 + others \in Nat /\ (N - (i - 1)) * 4 + all = 4 + bytes + ((N - i) * 4 + others)
  BY <1>1, <1>5, <1>6, <1>9 DEF all, others
<1> QED
  BY <1>2, <1>6, <1>7, <1>8, <1>10 DEF all, others, bytes, KeyBytes

\* All entries follow the count; none follows the last.
LEMMA RestEnds ==
  ASSUME NEW m \in Maps
  PROVE  \E f : /\ IsSizes(f, m)
                /\ getSizeInBytes(m) = CountBytes + RestBytes(m, f, 0) /\ RestBytes(m, f, 0) \in Nat
                /\ RestBytes(m, f, Cardinality(Keys(m))) = 0
<1> DEFINE N == Cardinality(Keys(m))
<1>1. PICK f : IsSizes(f, m) /\ getSizeInBytes(m) = CountBytes + N * KeyBytes + f[Keys(m)]
  BY SizesExist
<1>2. Firsts(Keys(m), 0) = {} /\ Firsts(Keys(m), N) = Keys(m) /\ N \in Nat
  BY KeysInOrder, FirstsEnds
<1>3. f[Keys(m)] \in Nat /\ f[{}] = 0
  BY <1>1 DEF IsSizes
<1>4. Keys(m) \ {} = Keys(m) /\ Keys(m) \ Keys(m) = {}
  OBVIOUS
<1>5. RestBytes(m, f, 0) = (N - 0) * KeyBytes + f[Keys(m)] /\ RestBytes(m, f, N) = (N - N) * KeyBytes + f[{}]
  BY <1>2, <1>4 DEF RestBytes
<1> DEFINE all == f[Keys(m)]
<1> HIDE DEF N, all
<1>6. (N - 0) * 4 + all \in Nat /\ (N - N) * 4 + 0 = 0 /\ 8 + N * 4 + all = 8 + ((N - 0) * 4 + all)
  BY <1>2, <1>3 DEF all
<1>7. RestBytes(m, f, 0) \in Nat /\ RestBytes(m, f, N) = 0 /\ getSizeInBytes(m) = CountBytes + RestBytes(m, f, 0)
  BY <1>1, <1>3, <1>5, <1>6 DEF all, KeyBytes, CountBytes
<1> QED
  BY <1>1, <1>7 DEF N

\* One entry read: the state is one that readSafe can have.
LEMMA EnteredType ==
  ASSUME NEW acc \in [ok : BOOLEAN, left : Int, map : Maps], NEW e \in Entries
  PROVE  Entered(acc, e) \in [ok : BOOLEAN, left : Int, map : Maps]
<1>1. Put(acc.map, e.key, [vals |-> e.vals, cow |-> FALSE]) \in Maps
  BY EnteringFacts
<1>2. InnerBytes(e.vals) \in Nat
  BY BytesFacts DEF Entries
<1>3. acc.left - KeyBytes \in Int /\ acc.left - KeyBytes - InnerBytes(e.vals) \in Int
  BY <1>2 DEF KeyBytes
<1> QED
  BY <1>1, <1>3 DEF Entered

\* readSafe reads the entries of the file in turn.
LEMMA ReadTurns ==
  ASSUME NEW m \in Maps, NEW max \in Int, ~(max < CountBytes)
  PROVE  \E c : /\ readSafe(write(m), max) = c[Cardinality(Keys(m))]
                /\ c[0] = [ok |-> TRUE, map |-> Empty, left |-> max - CountBytes]
                /\ \A i \in 1..Cardinality(Keys(m)) : c[i] = Entered(c[i - 1], write(m).entries[i])
<1> DEFINE n == Cardinality(Keys(m))
           A == [ok : BOOLEAN, left : Int, map : Maps]
           s == write(m).entries
           base == [ok |-> TRUE, map |-> Empty, left |-> max - CountBytes]
           Step(it) == [x \in SUBSET DOMAIN s |->
                          IF x = {} THEN base ELSE Entered(it[x \ {Max(x)}], s[Max(x)])]
           it == CHOOSE f : f = Step(f)
           G == [p \in (1..n) \X A |-> Entered(p[2], s[p[1]])]
<1>1. readSafe(write(m), max) = it[DOMAIN s]
  BY DEF readSafe, Entered, FoldLeft, MapThenFoldSet
<1>2. n \in Nat /\ DOMAIN s = 1..n /\ \A i \in 1..n : s[i] \in Entries
  <2>1. DOMAIN s = 1..n /\ \A i \in 1..n : s[i] = EntryAt(m, i)
    BY DEF write, EntryAt
  <2> QED
    BY <2>1, KeysInOrder, EntriesFacts
<1> HIDE DEF s, n
<1>3. \A acc \in A, e \in Entries : Entered(acc, e) \in A
  BY EnteredType
<1>4. base \in A
  BY EmptyFacts DEF CountBytes
<1> HIDE DEF A, base
<1>5. G \in [(1..n) \X A -> A]
  BY <1>2, <1>3
<1> HIDE DEF G
<1>6. PICK f \in [SUBSET (1..n) -> A] : Folds(f, n, base, G)
  BY <1>2, <1>4, <1>5, FoldExists
<1>7. ASSUME NEW x \in SUBSET (1..n), x # {}
      PROVE  f[x] = Entered(f[x \ {Max(x)}], s[Max(x)])
  <2>1. Max(x) \in 1..n /\ x \ {Max(x)} \in SUBSET (1..n)
    BY <1>2, <1>7, LastIndex
  <2>2. f[x \ {Max(x)}] \in A
    BY <2>1
  <2> QED
    BY <1>6, <1>7, <2>1, <2>2 DEF G, Folds
<1>8. f = Step(f)
  BY <1>2, <1>6, <1>7 DEF Folds
<1>9. it = Step(it)
  BY <1>8
<1> HIDE DEF it
<1>10. \A x \in SUBSET (1..n) : it[x] = IF x = {} THEN base ELSE Entered(it[x \ {Max(x)}], s[Max(x)])
  BY <1>2, <1>9
<1>11. ASSUME NEW i \in 1..n PROVE it[1..i] = Entered(it[1..(i - 1)], s[i])
  <2>1. 1..i \in SUBSET (1..n) /\ 1..i # {} /\ Max(1..i) = i /\ (1..i) \ {Max(1..i)} = 1..(i - 1)
    BY <1>2, Segment
  <2>2. it[1..i] = Entered(it[(1..i) \ {Max(1..i)}], s[Max(1..i)])
    BY <1>10, <2>1
  <2> QED
    BY <2>1, <2>2
<1> DEFINE c == [i \in 0..n |-> it[1..i]]
<1>12. c[0] = base
  <2>1. 1..0 = {} /\ 0 \in 0..n
    BY <1>2
  <2>2. c[0] = it[1..0]
    BY <2>1
  <2>3. it[{}] = base
    BY <1>10
  <2> QED
    BY <2>1, <2>2, <2>3
<1>13. ASSUME NEW i \in 1..n PROVE c[i] = Entered(c[i - 1], s[i])
  <2>1. i \in 0..n /\ i - 1 \in 0..n
    BY <1>2
  <2>2. c[i] = it[1..i] /\ c[i - 1] = it[1..(i - 1)]
    BY <2>1
  <2> QED
    BY <1>11, <2>2
<1>14. c[n] = it[DOMAIN s]
  BY <1>2
<1> HIDE DEF c
<1>15. readSafe(write(m), max) = c[n]
  BY <1>1, <1>14
<1> QED
  BY <1>12, <1>13, <1>15 DEF n, s, base

\* What readSafe has made of the first i entries: it stopped where the bytes ran out.
ReadUpTo(m, f, max, i) ==
  {acc \in [ok : BOOLEAN, left : Int, map : Maps] :
     LET left == max - getSizeInBytes(m) + RestBytes(m, f, i)
     IN  /\ acc.ok <=> left >= 0
         /\ acc.ok => acc.left = left /\ acc.map \in MapsTo(m, i)}

\* One more entry fits the bytes that are left, or does not.
LEMMA ReadUpToContinues ==
  ASSUME NEW m \in Maps, NEW f, IsSizes(f, m), NEW max \in Int, getSizeInBytes(m) \in Int,
         NEW i \in 1..Cardinality(Keys(m)), NEW acc \in ReadUpTo(m, f, max, i - 1)
  PROVE  Entered(acc, EntryAt(m, i)) \in ReadUpTo(m, f, max, i)
<1> DEFINE e == EntryAt(m, i)
           bytes == InnerBytes(e.vals)
           before == max - getSizeInBytes(m) + RestBytes(m, f, i - 1)
           after == max - getSizeInBytes(m) + RestBytes(m, f, i)
           map == Put(acc.map, e.key, [vals |-> e.vals, cow |-> FALSE])
           r == Entered(acc, e)
<1>1. /\ acc \in [ok : BOOLEAN, left : Int, map : Maps] /\ acc.left \in Int
      /\ acc.ok <=> before >= 0
      /\ acc.ok => acc.left = before /\ acc.map \in MapsTo(m, i - 1)
  BY DEF ReadUpTo
<1>2. e \in Entries
  BY EntriesFacts
<1>3. bytes \in Nat /\ before \in Int /\ after \in Int /\ before = after + 4 + bytes
  <2>1. RestBytes(m, f, i) \in Nat /\ bytes \in Nat /\ RestBytes(m, f, i - 1) = KeyBytes + bytes + RestBytes(m, f, i)
    BY RestFacts
  <2> DEFINE size == getSizeInBytes(m)
             rest == RestBytes(m, f, i)
             more == RestBytes(m, f, i - 1)
  <2> HIDE DEF size, rest, more, bytes
  <2>2. rest \in Nat /\ bytes \in Nat /\ more = 4 + bytes + rest /\ size \in Int
    BY <2>1 DEF rest, more, size, KeyBytes
  <2>3. max - size + more \in Int /\ max - size + rest \in Int /\ max - size + more = max - size + rest + 4 + bytes
    BY <2>2
  <2> QED
    BY <2>2, <2>3 DEF size, rest, more
<1>4. r \in [ok : BOOLEAN, left : Int, map : Maps]
  <2> HIDE DEF e
  <2> QED
    BY <1>1, <1>2, EnteredType
<1>5. acc.ok => map \in MapsTo(m, i)
  BY <1>1, MapContinues
<1> HIDE DEF before, after, e
<1>6. CASE ~acc.ok
  <2>1. r.ok = FALSE
    BY <1>1, <1>6 DEF Entered
  <2>2. ~(after >= 0)
    BY <1>1, <1>3, <1>6
  <2> QED
    BY <1>4, <2>1, <2>2 DEF ReadUpTo, after, e
<1>7. CASE acc.ok
  <2> HIDE DEF bytes, map
  <2>1. acc.left = before /\ acc.left \in Int
    BY <1>1, <1>7
  <2>2. (acc.left - 4 < 0 \/ acc.left - 4 < bytes) <=> ~(after >= 0)
    BY <1>3, <2>1
  <2>3. acc.left - 4 - bytes = after
    BY <1>3, <2>1
  <2>4. CASE after >= 0
    <3>1. r = [ok |-> TRUE, left |-> acc.left - 4 - bytes, map |-> map]
      BY <1>7, <2>2, <2>4 DEF Entered, KeyBytes, bytes, map
    <3>2. r.ok = TRUE /\ r.left = after /\ r.map \in MapsTo(m, i)
      BY <1>5, <1>7, <2>3, <3>1
    <3> QED
      BY <1>4, <2>4, <3>2 DEF ReadUpTo, after, e
  <2>5. CASE ~(after >= 0)
    <3>1. r = [acc EXCEPT !.ok = FALSE]
      BY <1>7, <2>2, <2>5 DEF Entered, KeyBytes, bytes
    <3>2. r.ok = FALSE
      BY <1>1, <3>1
    <3> QED
      BY <1>4, <2>5, <3>2 DEF ReadUpTo, after, e
  <2> QED
    BY <2>4, <2>5
<1> QED
  BY <1>1, <1>6, <1>7

\* readSafe takes a file that has as many bytes as announced, and no shorter one.
LEMMA TornFileRejected ==
  ASSUME NEW m \in Maps, NEW max \in Nat
  PROVE  LET r == readSafe(write(m), max)
         IN  /\ r.ok <=> max >= getSizeInBytes(m)
             /\ r.ok => Members(r.map) = Members(m) /\ Keys(r.map) = Keys(m)
<1> DEFINE n == Cardinality(Keys(m))
           size == getSizeInBytes(m)
           r == readSafe(write(m), max)
<1>1. PICK f : /\ IsSizes(f, m) /\ size = CountBytes + RestBytes(m, f, 0) /\ RestBytes(m, f, 0) \in Nat
               /\ RestBytes(m, f, n) = 0
  BY RestEnds
<1>2. n \in Nat /\ \A i \in 1..n : write(m).entries[i] = EntryAt(m, i)
  BY KeysInOrder DEF write, EntryAt
<1> HIDE DEF size
<1>3. size \in Nat /\ size >= 8 /\ size = 8 + RestBytes(m, f, 0)
  BY <1>1 DEF CountBytes
<1>4. CASE max < CountBytes
  <2>1. r.ok = FALSE
    BY <1>4 DEF readSafe
  <2>2. ~(max >= size)
    BY <1>3, <1>4 DEF CountBytes
  <2> QED
    BY <2>1, <2>2 DEF size
<1>5. CASE ~(max < CountBytes)
  <2>1. PICK c : /\ r = c[n]
                 /\ c[0] = [ok |-> TRUE, map |-> Empty, left |-> max - CountBytes]
                 /\ \A i \in 1..n : c[i] = Entered(c[i - 1], write(m).entries[i])
    BY <1>5, ReadTurns
  <2> HIDE DEF r
  <2> DEFINE T == {i \in Nat : i <= n => c[i] \in ReadUpTo(m, f, max, i)}
  <2>2. 0 \in T
    <3> DEFINE rest == RestBytes(m, f, 0)
    <3>1. rest \in Nat /\ size = 8 + rest
      BY <1>1, <1>3
    <3> HIDE DEF rest
    <3>2. max - CountBytes = max - size + rest /\ max - size + rest >= 0 /\ max - CountBytes \in Int
      BY <1>3, <1>5, <3>1 DEF CountBytes
    <3>3. c[0] \in ReadUpTo(m, f, max, 0)
      BY <2>1, <3>2, MapEnds, EmptyFacts DEF ReadUpTo, rest, size
    <3> QED
      BY <3>3
  <2>3. ASSUME NEW i \in 1..n, i - 1 \in T PROVE i \in T
    <3>1. c[i - 1] \in ReadUpTo(m, f, max, i - 1)
      BY <1>2, <2>3
    <3>2. c[i] = Entered(c[i - 1], EntryAt(m, i))
      BY <1>2, <2>1
    <3>3. getSizeInBytes(m) \in Int
      BY <1>3 DEF size
    <3>4. c[i] \in ReadUpTo(m, f, max, i)
      BY <1>1, <3>1, <3>2, <3>3, ReadUpToContinues
    <3> QED
      BY <1>2, <3>4
  <2> HIDE DEF n
  <2>4. n \in T
    <3> HIDE DEF T
    <3> QED
      BY <1>2, <2>2, <2>3, BoundedInduction
  <2>5. r \in ReadUpTo(m, f, max, n)
    BY <1>2, <2>1, <2>4
  <2>6. (r.ok <=> max - size + RestBytes(m, f, n) >= 0) /\ (r.ok => r.map \in MapsTo(m, n))
    BY <2>5 DEF ReadUpTo, size
  <2>7. r.ok <=> max >= size
    BY <1>1, <1>3, <2>6
  <2> QED
    BY <2>6, <2>7, MapEnds DEF n, size, r
<1> QED
  BY <1>4, <1>5

-----------------------------------------------------------------------------
(* Frozen files.                                                           *)

\* The padding before an entry leaves room for its key and length, and aligns its bitmap.
LEMMA PaddedFacts ==
  ASSUME NEW pos \in Nat
  PROVE  /\ Padded(pos) \in Nat /\ Padded(pos) + metadata_size \in Nat
         /\ (Padded(pos) + metadata_size) % 32 = 0
<1> DEFINE d == (-(pos + 12)) % 32
<1>1. d \in Nat /\ (pos + d + 12) % 32 = 0
  OBVIOUS
<1>2. Padded(pos) = pos + d
  BY DEF Padded, metadata_size
<1> HIDE DEF d
<1> QED
  BY <1>1, <1>2 DEF metadata_size

\* Where the bitmap after byte pos starts, and where it ends.
StartAfter(pos) == Padded(pos) + metadata_size
EndAfter(pos, vals) == Padded(pos) + metadata_size + FrozenBytes(vals)

\* A bitmap starts at a multiple of 32.
LEMMA AfterFacts ==
  ASSUME NEW pos \in Nat, NEW V \in SUBSET Lowers
  PROVE  StartAfter(pos) \in Nat /\ StartAfter(pos) % 32 = 0 /\ EndAfter(pos, V) \in Nat
<1>1. Padded(pos) \in Nat /\ Padded(pos) + metadata_size \in Nat /\ FrozenBytes(V) \in Nat
  BY PaddedFacts, BytesFacts
<1>2. StartAfter(pos) % 32 = 0
  BY PaddedFacts DEF StartAfter
<1> QED
  BY <1>1, <1>2 DEF StartAfter, EndAfter, metadata_size

\* The same for the inner bitmap of a key.
LEMMA AfterKey ==
  ASSUME NEW m \in Maps, NEW pos \in Nat, NEW k \in Keys(m)
  PROVE  StartAfter(pos) \in Nat /\ EndAfter(pos, Vals(m, k)) \in Nat
BY MapParts, AfterFacts

\* The size of a frozen file is added up in the order of the keys.
LEMMA FrozenSizeTurns ==
  ASSUME NEW m \in Maps
  PROVE  \E c : /\ getFrozenSizeInBytes(m) = c[Cardinality(Keys(m))]
                /\ c[0] = CountBytes
                /\ \A i \in 1..Cardinality(Keys(m)) : c[i] = EndAfter(c[i - 1], Vals(m, KeySeq(m)[i]))
<1> DEFINE n == Cardinality(Keys(m))
           A == Nat
           s == KeySeq(m)
           base == CountBytes
           Step(it) == [x \in SUBSET DOMAIN s |->
                          IF x = {} THEN base ELSE EndAfter(it[x \ {Max(x)}], Vals(m, s[Max(x)]))]
           it == CHOOSE f : f = Step(f)
           G == [p \in (1..n) \X A |-> EndAfter(p[2], Vals(m, s[p[1]]))]
<1>1. getFrozenSizeInBytes(m) = it[DOMAIN s]
  BY DEF getFrozenSizeInBytes, EndAfter, FoldLeft, MapThenFoldSet
<1>2. n \in Nat /\ DOMAIN s = 1..n /\ \A i \in 1..n : s[i] \in Keys(m)
  BY KeysInOrder
<1> HIDE DEF s, n
<1>3. \A acc \in A, e \in Keys(m) : EndAfter(acc, Vals(m, e)) \in A
  BY AfterKey
<1>4. base \in A
  BY DEF CountBytes
<1> HIDE DEF A, base
<1>5. G \in [(1..n) \X A -> A]
  BY <1>2, <1>3
<1> HIDE DEF G
<1>6. PICK f \in [SUBSET (1..n) -> A] : Folds(f, n, base, G)
  BY <1>2, <1>4, <1>5, FoldExists
<1>7. ASSUME NEW x \in SUBSET (1..n), x # {}
      PROVE  f[x] = EndAfter(f[x \ {Max(x)}], Vals(m, s[Max(x)]))
  <2>1. Max(x) \in 1..n /\ x \ {Max(x)} \in SUBSET (1..n)
    BY <1>2, <1>7, LastIndex
  <2>2. f[x \ {Max(x)}] \in A
    BY <2>1
  <2> QED
    BY <1>6, <1>7, <2>1, <2>2 DEF G, Folds
<1>8. f = Step(f)
  BY <1>2, <1>6, <1>7 DEF Folds
<1>9. it = Step(it)
  BY <1>8
<1> HIDE DEF it
<1>10. \A x \in SUBSET (1..n) : it[x] = IF x = {} THEN base ELSE EndAfter(it[x \ {Max(x)}], Vals(m, s[Max(x)]))
  BY <1>2, <1>9
<1>11. ASSUME NEW i \in 1..n PROVE it[1..i] = EndAfter(it[1..(i - 1)], Vals(m, s[i]))
  <2>1. 1..i \in SUBSET (1..n) /\ 1..i # {} /\ Max(1..i) = i /\ (1..i) \ {Max(1..i)} = 1..(i - 1)
    BY <1>2, Segment
  <2>2. it[1..i] = EndAfter(it[(1..i) \ {Max(1..i)}], Vals(m, s[Max(1..i)]))
    BY <1>10, <2>1
  <2> QED
    BY <2>1, <2>2
<1> DEFINE c == [i \in 0..n |-> it[1..i]]
<1>12. c[0] = base
  <2>1. 1..0 = {} /\ 0 \in 0..n
    BY <1>2
  <2>2. c[0] = it[1..0]
    BY <2>1
  <2>3. it[{}] = base
    BY <1>10
  <2> QED
    BY <2>1, <2>2, <2>3
<1>13. ASSUME NEW i \in 1..n PROVE c[i] = EndAfter(c[i - 1], Vals(m, s[i]))
  <2>1. i \in 0..n /\ i - 1 \in 0..n
    BY <1>2
  <2>2. c[i] = it[1..i] /\ c[i - 1] = it[1..(i - 1)]
    BY <2>1
  <2> QED
    BY <1>11, <2>2
<1>14. c[n] = it[DOMAIN s]
  BY <1>2
<1> HIDE DEF c
<1>15. getFrozenSizeInBytes(m) = c[n]
  BY <1>1, <1>14
<1> QED
  BY <1>12, <1>13, <1>15 DEF n, s, base

\* One bitmap written.
Written(m, acc, k) ==
  [starts |-> Append(acc.starts, StartAfter(acc.end)),
   entries |-> Append(acc.entries, [key |-> k, vals |-> Vals(m, k)]),
   end |-> EndAfter(acc.end, Vals(m, k))]

FrozenFiles == [starts : Seq(Nat), entries : Seq(Entries), end : Nat]

\* A file with one bitmap more is a file.
LEMMA WrittenType ==
  ASSUME NEW m \in Maps, NEW acc \in FrozenFiles, NEW k \in Keys(m)
  PROVE  Written(m, acc, k) \in FrozenFiles
<1>1. acc.starts \in Seq(Nat) /\ acc.entries \in Seq(Entries) /\ acc.end \in Nat
  BY DEF FrozenFiles
<1>2. [key |-> k, vals |-> Vals(m, k)] \in Entries
  BY MapParts DEF Entries
<1>3. StartAfter(acc.end) \in Nat /\ EndAfter(acc.end, Vals(m, k)) \in Nat
  BY <1>1, AfterKey
<1> DEFINE e == [key |-> k, vals |-> Vals(m, k)]
<1> HIDE DEF e
<1>4. Append(acc.starts, StartAfter(acc.end)) \in Seq(Nat) /\ Append(acc.entries, e) \in Seq(Entries)
  BY <1>1, <1>2, <1>3 DEF e
<1> QED
  BY <1>3, <1>4 DEF Written, FrozenFiles, e

\* writeFrozen writes the bitmaps in the order of the keys.
LEMMA WriteTurns ==
  ASSUME NEW m \in Maps
  PROVE  \E c : /\ writeFrozen(m) = c[Cardinality(Keys(m))]
                /\ c[0] = [starts |-> <<>>, entries |-> <<>>, end |-> CountBytes]
                /\ \A i \in 1..Cardinality(Keys(m)) : c[i] = Written(m, c[i - 1], KeySeq(m)[i])
<1> DEFINE n == Cardinality(Keys(m))
           A == FrozenFiles
           s == KeySeq(m)
           base == [starts |-> <<>>, entries |-> <<>>, end |-> CountBytes]
           Step(it) == [x \in SUBSET DOMAIN s |->
                          IF x = {} THEN base ELSE Written(m, it[x \ {Max(x)}], s[Max(x)])]
           it == CHOOSE f : f = Step(f)
           G == [p \in (1..n) \X A |-> Written(m, p[2], s[p[1]])]
<1>1. writeFrozen(m) = it[DOMAIN s]
  BY DEF writeFrozen, Written, StartAfter, EndAfter, FoldLeft, MapThenFoldSet
<1>2. n \in Nat /\ DOMAIN s = 1..n /\ \A i \in 1..n : s[i] \in Keys(m)
  BY KeysInOrder
<1> HIDE DEF s, n
<1>3. \A acc \in A, e \in Keys(m) : Written(m, acc, e) \in A
  BY WrittenType
<1>4. base \in A
  BY DEF FrozenFiles, CountBytes
<1> HIDE DEF A, base
<1>5. G \in [(1..n) \X A -> A]
  BY <1>2, <1>3
<1> HIDE DEF G
<1>6. PICK f \in [SUBSET (1..n) -> A] : Folds(f, n, base, G)
  BY <1>2, <1>4, <1>5, FoldExists
<1>7. ASSUME NEW x \in SUBSET (1..n), x # {}
      PROVE  f[x] = Written(m, f[x \ {Max(x)}], s[Max(x)])
  <2>1. Max(x) \in 1..n /\ x \ {Max(x)} \in SUBSET (1..n)
    BY <1>2, <1>7, LastIndex
  <2>2. f[x \ {Max(x)}] \in A
    BY <2>1
  <2> QED
    BY <1>6, <1>7, <2>1, <2>2 DEF G, Folds
<1>8. f = Step(f)
  BY <1>2, <1>6, <1>7 DEF Folds
<1>9. it = Step(it)
  BY <1>8
<1> HIDE DEF it
<1>10. \A x \in SUBSET (1..n) : it[x] = IF x = {} THEN base ELSE Written(m, it[x \ {Max(x)}], s[Max(x)])
  BY <1>2, <1>9
<1>11. ASSUME NEW i \in 1..n PROVE it[1..i] = Written(m, it[1..(i - 1)], s[i])
  <2>1. 1..i \in SUBSET (1..n) /\ 1..i # {} /\ Max(1..i) = i /\ (1..i) \ {Max(1..i)} = 1..(i - 1)
    BY <1>2, Segment
  <2>2. it[1..i] = Written(m, it[(1..i) \ {Max(1..i)}], s[Max(1..i)])
    BY <1>10, <2>1
  <2> QED
    BY <2>1, <2>2
<1> DEFINE c == [i \in 0..n |-> it[1..i]]
<1>12. c[0] = base
  <2>1. 1..0 = {} /\ 0 \in 0..n
    BY <1>2
  <2>2. c[0] = it[1..0]
    BY <2>1
  <2>3. it[{}] = base
    BY <1>10
  <2> QED
    BY <2>1, <2>2, <2>3
<1>13. ASSUME NEW i \in 1..n PROVE c[i] = Written(m, c[i - 1], s[i])
  <2>1. i \in 0..n /\ i - 1 \in 0..n
    BY <1>2
  <2>2. c[i] = it[1..i] /\ c[i - 1] = it[1..(i - 1)]
    BY <2>1
  <2> QED
    BY <1>11, <2>2
<1>14. c[n] = it[DOMAIN s]
  BY <1>2
<1> HIDE DEF c
<1>15. writeFrozen(m) = c[n]
  BY <1>1, <1>14
<1> QED
  BY <1>12, <1>13, <1>15 DEF n, s, base

\* One bitmap that the view finds.
Viewed(file, acc, n) ==
  IF ~acc.ok \/ file.starts[n] # StartAfter(acc.pos) THEN [acc EXCEPT !.ok = FALSE]
  ELSE [ok |-> TRUE, pos |-> EndAfter(acc.pos, file.entries[n].vals),
        map |-> Put(acc.map, file.entries[n].key, [vals |-> file.entries[n].vals, cow |-> FALSE])]

\* A view with one bitmap more is a view.
LEMMA ViewedType ==
  ASSUME NEW file, NEW acc \in [ok : BOOLEAN, pos : Nat, map : Maps], NEW n, file.entries[n] \in Entries
  PROVE  Viewed(file, acc, n) \in [ok : BOOLEAN, pos : Nat, map : Maps]
<1> DEFINE e == file.entries[n]
           map == Put(acc.map, e.key, [vals |-> e.vals, cow |-> FALSE])
<1>1. e \in Entries /\ e.vals \in SUBSET Lowers
  BY DEF Entries
<1> HIDE DEF e
<1>2. map \in Maps /\ EndAfter(acc.pos, e.vals) \in Nat
  BY <1>1, EnteringFacts, AfterFacts
<1> HIDE DEF map
<1> QED
  BY <1>2 DEF Viewed, map, e

\* The view goes through the entries in turn.
LEMMA ViewTurns ==
  ASSUME NEW file, NEW size \in Nat, DOMAIN file.entries = 1..size, \A i \in 1..size : file.entries[i] \in Entries
  PROVE  \E c : /\ frozenView(file) = c[size]
                /\ c[0] = [ok |-> TRUE, pos |-> CountBytes, map |-> Empty]
                /\ \A i \in 1..size : c[i] = Viewed(file, c[i - 1], [p \in DOMAIN file.entries |-> p][i])
<1> DEFINE n == size
           A == [ok : BOOLEAN, pos : Nat, map : Maps]
           s == [p \in DOMAIN file.entries |-> p]
           base == [ok |-> TRUE, pos |-> CountBytes, map |-> Empty]
           Step(it) == [x \in SUBSET DOMAIN s |->
                          IF x = {} THEN base ELSE Viewed(file, it[x \ {Max(x)}], s[Max(x)])]
           it == CHOOSE f : f = Step(f)
           G == [p \in (1..n) \X A |-> Viewed(file, p[2], s[p[1]])]
<1>1. frozenView(file) = it[DOMAIN s]
  BY DEF frozenView, Viewed, StartAfter, EndAfter, FoldLeft, MapThenFoldSet
<1>2. n \in Nat /\ DOMAIN s = 1..n /\ \A i \in 1..n : s[i] \in 1..size
  OBVIOUS
<1> HIDE DEF s, n
<1>3. \A acc \in A, e \in 1..size : Viewed(file, acc, e) \in A
  BY ViewedType
<1>4. base \in A
  BY EmptyFacts DEF CountBytes
<1> HIDE DEF A, base
<1>5. G \in [(1..n) \X A -> A]
  BY <1>2, <1>3
<1> HIDE DEF G
<1>6. PICK f \in [SUBSET (1..n) -> A] : Folds(f, n, base, G)
  BY <1>2, <1>4, <1>5, FoldExists
<1>7. ASSUME NEW x \in SUBSET (1..n), x # {}
      PROVE  f[x] = Viewed(file, f[x \ {Max(x)}], s[Max(x)])
  <2>1. Max(x) \in 1..n /\ x \ {Max(x)} \in SUBSET (1..n)
    BY <1>2, <1>7, LastIndex
  <2>2. f[x \ {Max(x)}] \in A
    BY <2>1
  <2> QED
    BY <1>6, <1>7, <2>1, <2>2 DEF G, Folds
<1>8. f = Step(f)
  BY <1>2, <1>6, <1>7 DEF Folds
<1>9. it = Step(it)
  BY <1>8
<1> HIDE DEF it
<1>10. \A x \in SUBSET (1..n) : it[x] = IF x = {} THEN base ELSE Viewed(file, it[x \ {Max(x)}], s[Max(x)])
  BY <1>2, <1>9
<1>11. ASSUME NEW i \in 1..n PROVE it[1..i] = Viewed(file, it[1..(i - 1)], s[i])
  <2>1. 1..i \in SUBSET (1..n) /\ 1..i # {} /\ Max(1..i) = i /\ (1..i) \ {Max(1..i)} = 1..(i - 1)
    BY <1>2, Segment
  <2>2. it[1..i] = Viewed(file, it[(1..i) \ {Max(1..i)}], s[Max(1..i)])
    BY <1>10, <2>1
  <2> QED
    BY <2>1, <2>2
<1> DEFINE c == [i \in 0..n |-> it[1..i]]
<1>12. c[0] = base
  <2>1. 1..0 = {} /\ 0 \in 0..n
    BY <1>2
  <2>2. c[0] = it[1..0]
    BY <2>1
  <2>3. it[{}] = base
    BY <1>10
  <2> QED
    BY <2>1, <2>2, <2>3
<1>13. ASSUME NEW i \in 1..n PROVE c[i] = Viewed(file, c[i - 1], s[i])
  <2>1. i \in 0..n /\ i - 1 \in 0..n
    BY <1>2
  <2>2. c[i] = it[1..i] /\ c[i - 1] = it[1..(i - 1)]
    BY <2>1
  <2> QED
    BY <1>11, <2>2
<1>14. c[n] = it[DOMAIN s]
  BY <1>2
<1> HIDE DEF c
<1>15. frozenView(file) = c[n]
  BY <1>1, <1>14
<1> QED
  BY <1>12, <1>13, <1>15 DEF n, s, base

\* Where the i-th bitmap ends; the count comes before the first.
IsEnds(m, d) ==
  /\ d[0] = CountBytes
  /\ \A i \in 0..Cardinality(Keys(m)) : d[i] \in Nat
  /\ \A i \in 1..Cardinality(Keys(m)) : d[i] = EndAfter(d[i - 1], Vals(m, KeySeq(m)[i]))

\* There are such places, and the last one is the size announced.
LEMMA EndsExist ==
  ASSUME NEW m \in Maps
  PROVE  \E d : IsEnds(m, d) /\ getFrozenSizeInBytes(m) = d[Cardinality(Keys(m))]
<1> DEFINE n == Cardinality(Keys(m))
<1>1. PICK c : /\ getFrozenSizeInBytes(m) = c[n]
               /\ c[0] = CountBytes
               /\ \A i \in 1..n : c[i] = EndAfter(c[i - 1], Vals(m, KeySeq(m)[i]))
  BY FrozenSizeTurns
<1>2. n \in Nat /\ \A i \in 1..n : KeySeq(m)[i] \in Keys(m)
  BY KeysInOrder
<1> HIDE DEF n
<1> DEFINE T == {i \in Nat : i <= n => c[i] \in Nat}
<1>3. 0 \in T
  BY <1>1 DEF CountBytes
<1>4. ASSUME NEW i \in 1..n, i - 1 \in T PROVE i \in T
  <2>1. c[i - 1] \in Nat
    BY <1>2, <1>4
  <2>2. EndAfter(c[i - 1], Vals(m, KeySeq(m)[i])) \in Nat
    BY <1>2, <2>1, AfterKey
  <2> QED
    BY <1>1, <1>2, <2>2
<1>5. ASSUME NEW j \in 0..n PROVE c[j] \in Nat
  <2>1. \A i \in 1..j : i \in 1..n
    BY <1>2
  <2>2. j \in T
    <3> HIDE DEF T
    <3> QED
      BY <1>3, <1>4, <2>1, BoundedInduction
  <2> QED
    BY <2>2
<1> QED
  BY <1>1, <1>5 DEF IsEnds, n

\* What writeFrozen has written after i bitmaps.
WrittenTo(m, d, i) ==
  {acc \in FrozenFiles :
     /\ acc.end = d[i]
     /\ Len(acc.starts) = i /\ Len(acc.entries) = i
     /\ \A j \in 1..i : acc.starts[j] = StartAfter(d[j - 1]) /\ acc.entries[j] = EntryAt(m, j)}

\* The i-th bitmap goes where the (i - 1)-th one ends.
LEMMA WriteContinues ==
  ASSUME NEW m \in Maps, NEW d, IsEnds(m, d), NEW i \in 1..Cardinality(Keys(m)),
         NEW acc \in WrittenTo(m, d, i - 1)
  PROVE  Written(m, acc, KeySeq(m)[i]) \in WrittenTo(m, d, i)
<1> DEFINE n == Cardinality(Keys(m))
           k == KeySeq(m)[i]
           e == [key |-> k, vals |-> Vals(m, k)]
           r == Written(m, acc, k)
<1>1. n \in Nat /\ k \in Keys(m)
  BY KeysInOrder
<1>2. /\ acc \in FrozenFiles /\ acc.starts \in Seq(Nat) /\ acc.entries \in Seq(Entries)
      /\ acc.end = d[i - 1] /\ Len(acc.starts) = i - 1 /\ Len(acc.entries) = i - 1
      /\ \A j \in 1..(i - 1) : acc.starts[j] = StartAfter(d[j - 1]) /\ acc.entries[j] = EntryAt(m, j)
  BY DEF WrittenTo, FrozenFiles
<1>3. r \in FrozenFiles
  BY <1>1, <1>2, WrittenType
<1>4. e = EntryAt(m, i) /\ e \in Entries
  BY EntriesFacts DEF EntryAt
<1>5. i \in Nat /\ d[i] = EndAfter(d[i - 1], Vals(m, k)) /\ d[i - 1] \in Nat
  BY <1>1 DEF IsEnds
<1> HIDE DEF n, k, e
<1> DEFINE start == StartAfter(acc.end)
           starts == Append(acc.starts, start)
           entries == Append(acc.entries, e)
<1>6. r.starts = starts /\ r.entries = entries /\ r.end = d[i]
  BY <1>2, <1>5 DEF Written, e
<1>7. start = StartAfter(d[i - 1]) /\ start \in Nat
  BY <1>1, <1>2, <1>5, AfterKey
<1> HIDE DEF start
<1>8. Len(starts) = i /\ starts[i] = start /\ \A j \in 1..(i - 1) : starts[j] = acc.starts[j]
  BY <1>2, <1>5, <1>7
<1>9. Len(entries) = i /\ entries[i] = e /\ \A j \in 1..(i - 1) : entries[j] = acc.entries[j]
  BY <1>2, <1>4, <1>5
<1> HIDE DEF starts, entries, r
<1>10. ASSUME NEW j \in 1..i
       PROVE  r.starts[j] = StartAfter(d[j - 1]) /\ r.entries[j] = EntryAt(m, j)
  <2>1. CASE j = i
    BY <1>4, <1>6, <1>7, <1>8, <1>9, <2>1
  <2>2. CASE j # i
    <3>1. j \in 1..(i - 1)
      BY <1>5, <2>2
    <3> QED
      BY <1>2, <1>6, <1>8, <1>9, <3>1
  <2> QED
    BY <2>1, <2>2
<1>11. r \in WrittenTo(m, d, i)
  BY <1>3, <1>6, <1>8, <1>9, <1>10 DEF WrittenTo
<1> QED
  BY <1>11 DEF r, k

\* The whole file.
LEMMA WriteFrozenFacts ==
  ASSUME NEW m \in Maps, NEW d, IsEnds(m, d)
  PROVE  writeFrozen(m) \in WrittenTo(m, d, Cardinality(Keys(m)))
<1> DEFINE n == Cardinality(Keys(m))
<1>1. PICK c : /\ writeFrozen(m) = c[n]
               /\ c[0] = [starts |-> <<>>, entries |-> <<>>, end |-> CountBytes]
               /\ \A i \in 1..n : c[i] = Written(m, c[i - 1], KeySeq(m)[i])
  BY WriteTurns
<1>2. n \in Nat
  BY KeysInOrder
<1> DEFINE T == {i \in Nat : i <= n => c[i] \in WrittenTo(m, d, i)}
<1>3. 0 \in T
  <2>1. d[0] = CountBytes
    BY DEF IsEnds
  <2>2. c[0] \in WrittenTo(m, d, 0)
    BY <1>1, <2>1 DEF WrittenTo, FrozenFiles, CountBytes
  <2> QED
    BY <2>2
<1>4. ASSUME NEW i \in 1..n, i - 1 \in T PROVE i \in T
  <2>1. c[i - 1] \in WrittenTo(m, d, i - 1)
    BY <1>2, <1>4
  <2>2. c[i] \in WrittenTo(m, d, i)
    BY <1>1, <2>1, WriteContinues
  <2> QED
    BY <1>2, <2>2
<1> HIDE DEF n
<1>5. n \in T
  <2> HIDE DEF T
  <2> QED
    BY <1>2, <1>3, <1>4, BoundedInduction
<1> QED
  BY <1>1, <1>2, <1>5 DEF n

\* The state of a view that has found the first i bitmaps.
ViewedTo(m, d, i) ==
  {acc \in [ok : BOOLEAN, pos : Nat, map : Maps] : acc.ok /\ acc.pos = d[i] /\ acc.map \in MapsTo(m, i)}

\* The view finds the i-th bitmap where it was written.
LEMMA ViewContinues ==
  ASSUME NEW m \in Maps, NEW d, IsEnds(m, d), NEW file \in WrittenTo(m, d, Cardinality(Keys(m))),
         NEW i \in 1..Cardinality(Keys(m)), NEW acc \in ViewedTo(m, d, i - 1)
  PROVE  Viewed(file, acc, i) \in ViewedTo(m, d, i)
<1> DEFINE e == EntryAt(m, i)
           map == Put(acc.map, e.key, [vals |-> e.vals, cow |-> FALSE])
<1>1. acc.ok /\ acc.pos = d[i - 1] /\ acc.map \in MapsTo(m, i - 1)
  BY DEF ViewedTo
<1>2. file.starts[i] = StartAfter(d[i - 1]) /\ file.entries[i] = e
  BY DEF WrittenTo
<1>3. Cardinality(Keys(m)) \in Nat
  BY KeysInOrder
<1>4. d[i] = EndAfter(d[i - 1], e.vals) /\ d[i] \in Nat
  BY <1>3, EntriesFacts DEF IsEnds
<1>5. map \in MapsTo(m, i) /\ map \in Maps
  BY <1>1, MapContinues DEF MapsTo
<1> HIDE DEF e, map
<1>6. Viewed(file, acc, i) = [ok |-> TRUE, pos |-> d[i], map |-> map]
  BY <1>1, <1>2, <1>4 DEF Viewed, map
<1> QED
  BY <1>4, <1>5, <1>6 DEF ViewedTo

\* A frozen file has the bytes announced, its bitmaps are aligned, and the view gives
\* the values back.
LEMMA FrozenCorrect ==
  ASSUME NEW m \in Maps
  PROVE  LET file == writeFrozen(m)
             view == frozenView(file)
         IN  /\ file.end = getFrozenSizeInBytes(m)
             /\ \A n \in DOMAIN file.starts : file.starts[n] % 32 = 0
             /\ view.ok /\ Members(view.map) = Members(m)
<1> DEFINE n == Cardinality(Keys(m))
           file == writeFrozen(m)
           view == frozenView(file)
<1>1. PICK d : IsEnds(m, d) /\ getFrozenSizeInBytes(m) = d[n]
  BY EndsExist
<1>2. n \in Nat
  BY KeysInOrder
<1>3. file \in WrittenTo(m, d, n)
  BY <1>1, WriteFrozenFacts
<1> HIDE DEF file
<1>4. /\ file.end = d[n] /\ file.starts \in Seq(Nat) /\ Len(file.starts) = n
      /\ file.entries \in Seq(Entries) /\ Len(file.entries) = n
      /\ \A j \in 1..n : file.starts[j] = StartAfter(d[j - 1]) /\ file.entries[j] = EntryAt(m, j)
  BY <1>3 DEF WrittenTo, FrozenFiles
<1>5. ASSUME NEW j \in DOMAIN file.starts PROVE file.starts[j] % 32 = 0
  <2> HIDE DEF n
  <2>1. j \in 1..n /\ j - 1 \in 0..n
    BY <1>2, <1>4
  <2>2. d[j - 1] \in Nat
    BY <1>1, <2>1 DEF IsEnds, n
  <2>3. {} \in SUBSET Lowers
    OBVIOUS
  <2>4. StartAfter(d[j - 1]) % 32 = 0
    BY <2>2, <2>3, AfterFacts
  <2> QED
    BY <1>4, <2>1, <2>4
<1>6. DOMAIN file.entries = 1..n /\ \A i \in 1..n : file.entries[i] \in Entries
  BY <1>2, <1>4
<1>7. PICK c : /\ view = c[n]
               /\ c[0] = [ok |-> TRUE, pos |-> CountBytes, map |-> Empty]
               /\ \A i \in 1..n : c[i] = Viewed(file, c[i - 1], [p \in DOMAIN file.entries |-> p][i])
  BY <1>2, <1>6, ViewTurns
<1> HIDE DEF view
<1> DEFINE T == {i \in Nat : i <= n => c[i] \in ViewedTo(m, d, i)}
<1>8. 0 \in T
  <2>1. d[0] = CountBytes
    BY <1>1 DEF IsEnds
  <2>2. c[0] \in ViewedTo(m, d, 0)
    BY <1>7, <2>1, MapEnds, EmptyFacts DEF ViewedTo, CountBytes
  <2> QED
    BY <2>2
<1>9. ASSUME NEW i \in 1..n, i - 1 \in T PROVE i \in T
  <2>1. c[i - 1] \in ViewedTo(m, d, i - 1)
    BY <1>2, <1>9
  <2>2. c[i] = Viewed(file, c[i - 1], i)
    BY <1>6, <1>7
  <2>3. c[i] \in ViewedTo(m, d, i)
    BY <1>1, <1>3, <2>1, <2>2, ViewContinues
  <2> QED
    BY <1>2, <2>3
<1> HIDE DEF n
<1>10. n \in T
  <2> HIDE DEF T
  <2> QED
    BY <1>2, <1>8, <1>9, BoundedInduction
<1>11. view.ok /\ view.map \in MapsTo(m, n)
  BY <1>2, <1>7, <1>10 DEF ViewedTo
<1>12. Members(view.map) = Members(m)
  BY <1>11, MapEnds DEF n
<1> QED
  BY <1>1, <1>4, <1>5, <1>11, <1>12 DEF file, view

-----------------------------------------------------------------------------
(* The theorem about the files.                                            *)

\* After any calls write fills the bytes that getSizeInBytes announced, readSafe gives
\* back the keys and the values from as many bytes or more, and rejects a file that
\* lost any number of bytes; writeFrozen aligns every bitmap and frozenView finds
\* them all (roaring64map.hh, write, readSafe, writeFrozen, frozenView).
THEOREM TornFilesRejected ==
  Spec => []TornRejected
<1>1. ASSUME Inv PROVE TornRejected
  <2>1. a \in Maps /\ Members(a) = va
    BY <1>1 DEF Inv, Fits
  <2>2. FrozenAgrees
    BY <2>1, FrozenCorrect DEF FrozenAgrees
  <2>3. \A n \in Nat : LET r == readSafe(write(a), n)
                       IN  /\ r.ok <=> n >= getSizeInBytes(a)
                           /\ r.ok => Members(r.map) = va /\ Keys(r.map) = Keys(a)
    BY <2>1, TornFileRejected
  <2> DEFINE size == getSizeInBytes(a)
  <2>4. size \in Nat
    <3>1. PICK f : IsSizes(f, a) /\ size = CountBytes + RestBytes(a, f, 0) /\ RestBytes(a, f, 0) \in Nat
      BY <2>1, RestEnds
    <3> DEFINE rest == RestBytes(a, f, 0)
    <3> HIDE DEF size, rest
    <3> QED
      BY <3>1 DEF CountBytes, rest
  <2>5. \A n \in 0..(size + 1) : n \in Nat
    <3> HIDE DEF size
    <3> QED
      BY <2>4
  <2> QED
    BY <2>2, <2>3, <2>5 DEF TornRejected
<1> QED
  BY <1>1, InvHolds, PTL
=============================================================================
