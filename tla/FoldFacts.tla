----------------------------- MODULE FoldFacts -----------------------------
(***************************************************************************)
(* Facts about numbers, and about the folds over sequences and over sets   *)
(* that the models are written with.  A fold is the value of a recursive   *)
(* function on the subsets of an index set; the lemmas say that there is   *)
(* such a function and that what every step keeps holds of the result.     *)
(***************************************************************************)
EXTENDS Integers, FiniteSets, FiniteSetTheorems, WellFoundedInduction, SequencesExt,
        FiniteSetsExt, TLAPS

\* Natural induction for a set of numbers.
LEMMA SetInduction ==
  ASSUME NEW T, 0 \in T, \A n \in Nat : n \in T => n + 1 \in T
  PROVE  Nat \subseteq T
<1> DEFINE Bad == Nat \ T
<1>1. SUFFICES ASSUME Bad # {} PROVE FALSE
  OBVIOUS
<1>2. PICK x \in Bad : \A y \in Bad : ~(<<y, x>> \in OpToRel(<, Nat))
  <2>1. Bad \subseteq Nat
    OBVIOUS
  <2> QED
    BY <1>1, <2>1, NatLessThanWellFounded, WFMin
<1>3. x # 0 /\ x \in Nat
  OBVIOUS
<1>4. x - 1 \in Nat /\ (x - 1) + 1 = x
  BY <1>3
<1>5. x - 1 \in Bad
  BY <1>4
<1>6. <<x - 1, x>> \in OpToRel(<, Nat)
  BY <1>3, <1>4 DEF OpToRel
<1> QED
  BY <1>2, <1>5, <1>6

\* The same up to a bound.
LEMMA BoundedInduction ==
  ASSUME NEW n \in Nat, NEW T, 0 \in T, \A k \in 1..n : k - 1 \in T => k \in T
  PROVE  n \in T
<1> DEFINE S == {k \in Nat : k <= n => k \in T}
<1>1. 0 \in S
  OBVIOUS
<1>2. ASSUME NEW k \in Nat, k \in S PROVE k + 1 \in S
  <2>1. k + 1 \in Nat /\ (k + 1) - 1 = k
    OBVIOUS
  <2>2. CASE k + 1 <= n
    <3>1. k \in T /\ k + 1 \in 1..n
      BY <1>2, <2>2
    <3> QED
      BY <3>1, <2>1
  <2>3. CASE ~(k + 1 <= n)
    BY <2>3, <2>1
  <2> QED
    BY <2>2, <2>3
<1>3. Nat \subseteq S
  <2> HIDE DEF S
  <2> QED
    BY <1>1, <1>2, SetInduction
<1> QED
  BY <1>3

\* A set of natural numbers that is not empty has a least element.
LEMMA MinFacts ==
  ASSUME NEW S \in SUBSET Nat, S # {}
  PROVE  Min(S) \in S /\ \A y \in S : Min(S) <= y
<1>1. PICK x \in S : \A y \in S : ~(<<y, x>> \in OpToRel(<, Nat))
  BY NatLessThanWellFounded, WFMin
<1>2. ASSUME NEW y \in S PROVE x <= y
  <2>1. x \in Nat /\ y \in Nat
    OBVIOUS
  <2>2. <<y, x>> \in OpToRel(<, Nat) <=> y < x
    BY <2>1 DEF OpToRel
  <2>3. ~(y < x)
    BY <1>1, <2>2
  <2> QED
    BY <2>1, <2>3
<1>3. x \in S
  OBVIOUS
<1> QED
  BY <1>2, <1>3 DEF Min

\* A bounded one has a greatest element.
LEMMA MaxFacts ==
  ASSUME NEW S \in SUBSET Nat, S # {}, NEW n \in Nat, \A y \in S : y <= n
  PROVE  Max(S) \in S /\ \A y \in S : y <= Max(S)
<1> DEFINE R == {n - y : y \in S}
<1>1. R \in SUBSET Nat /\ R # {}
  <2>1. ASSUME NEW y \in S PROVE n - y \in Nat
    <3>1. y \in Nat /\ y <= n
      OBVIOUS
    <3> QED
      BY <3>1
  <2>2. PICK y : y \in S
    OBVIOUS
  <2>3. n - y \in R
    BY <2>2
  <2> QED
    BY <2>1, <2>3
<1>2. PICK y \in S : Min(R) = n - y
  BY <1>1, MinFacts
<1>3. \A z \in S : n - y <= n - z
  BY <1>1, <1>2, MinFacts
<1>4. \A z \in S : y >= z
  BY <1>3
<1> QED
  BY <1>4 DEF Max

\* An upper bound that is an element is the greatest element.
LEMMA MaxIs ==
  ASSUME NEW S \in SUBSET Int, NEW k \in S, \A y \in S : y <= k
  PROVE  Max(S) = k
<1>1. \A y \in S : k >= y
  OBVIOUS
<1>2. Max(S) \in S /\ \A y \in S : Max(S) >= y
  BY <1>1 DEF Max
<1>3. Max(S) \in Int /\ k \in Int /\ Max(S) <= k /\ Max(S) >= k
  BY <1>2
<1> QED
  BY <1>3

\* The least element, named.
LEMMA MinIs ==
  ASSUME NEW S \in SUBSET Int, NEW k \in S, \A y \in S : k <= y
  PROVE  Min(S) = k
<1>1. Min(S) \in S /\ \A y \in S : Min(S) <= y
  BY DEF Min
<1> DEFINE u == Min(S)
<1> HIDE DEF u
<1>2. u \in Int /\ k \in Int /\ u <= k /\ k <= u
  BY <1>1 DEF u
<1>3. u = k
  BY <1>2
<1> QED
  BY <1>3 DEF u

\* In particular of an interval.
LEMMA MaxOfInterval ==
  ASSUME NEW n \in Nat, n # 0
  PROVE  Max(1..n) = n
<1>1. 1..n \in SUBSET Int /\ n \in 1..n /\ \A y \in 1..n : y <= n
  OBVIOUS
<1> QED
  BY <1>1, MaxIs

-----------------------------------------------------------------------------
(* FoldLeft.                                                               *)

\* f is such a function, for base and step G.
Folds(f, n, base, G) ==
  \A x \in SUBSET (1..n) : f[x] = IF x = {} THEN base ELSE G[<<Max(x), f[x \ {Max(x)}]>>]

\* There is a function that satisfies the equation by which FoldLeft is
\* defined, for every step function G on a set A of values.
LEMMA FoldExists ==
  ASSUME NEW n \in Nat, NEW A, NEW base \in A, NEW G \in [(1..n) \X A -> A]
  PROVE  \E f \in [SUBSET (1..n) -> A] : Folds(f, n, base, G)
<1> DEFINE Fits(k) == {f \in [SUBSET (1..k) -> A] : \A x \in SUBSET (1..k) :
             f[x] = IF x = {} THEN base ELSE G[<<Max(x), f[x \ {Max(x)}]>>]}
           T == {k \in 0..n : Fits(k) # {}}
<1>1. 0 \in T
  <2> DEFINE f == [x \in SUBSET (1..0) |-> base]
  <2>1. f \in [SUBSET (1..0) -> A]
    OBVIOUS
  <2>2. \A x \in SUBSET (1..0) : x = {}
    OBVIOUS
  <2>3. f \in Fits(0)
    BY <2>1, <2>2
  <2> HIDE DEF Fits, f
  <2> QED
    BY <2>3
<1>2. ASSUME NEW k \in 1..n, k - 1 \in T PROVE k \in T
  <2>1. PICK f : f \in Fits(k - 1)
    BY <1>2
  <2> DEFINE g == [x \in SUBSET (1..k) |->
                     IF k \in x THEN G[<<k, f[x \ {k}]>>] ELSE f[x]]
  <2>2. ASSUME NEW x \in SUBSET (1..k), k \in x
        PROVE  Max(x) = k /\ x \ {k} \in SUBSET (1..(k - 1))
    <3>1. x \in SUBSET Int /\ \A y \in x : y <= k
      BY <2>2
    <3>2. Max(x) = k
      BY <3>1, <2>2, MaxIs
    <3> QED
      BY <3>2, <2>2
  <2>3. ASSUME NEW x \in SUBSET (1..k), k \notin x
        PROVE  x \in SUBSET (1..(k - 1))
    BY <2>3
  <2>4. g \in [SUBSET (1..k) -> A]
    <3>1. ASSUME NEW x \in SUBSET (1..k) PROVE g[x] \in A
      <4>1. CASE k \in x
        <5>1. f[x \ {k}] \in A
          BY <2>2, <4>1, <2>1
        <5>2. G[<<k, f[x \ {k}]>>] \in A
          BY <5>1
        <5> QED
          BY <5>2, <4>1
      <4>2. CASE k \notin x
        BY <4>2, <2>3, <2>1
      <4> QED
        BY <4>1, <4>2
    <3> QED
      BY <3>1
  <2>5. g \in Fits(k)
    <3>1. SUFFICES ASSUME NEW x \in SUBSET (1..k)
                   PROVE  g[x] = IF x = {} THEN base ELSE G[<<Max(x), g[x \ {Max(x)}]>>]
      BY <2>4
    <3>2. CASE k \in x
      <4>1. x \ {k} \in SUBSET (1..(k - 1)) /\ k \notin x \ {k} /\ Max(x) = k
        BY <2>2, <3>2
      <4>2. x \ {k} \in SUBSET (1..k)
        OBVIOUS
      <4>3. g[x \ {k}] = f[x \ {k}]
        BY <4>1, <4>2
      <4> QED
        BY <4>1, <4>3, <3>2
    <3>3. CASE k \notin x
      <4>1. x \in SUBSET (1..(k - 1))
        BY <3>3, <2>3
      <4>2. g[x] = f[x] /\ f[x] = IF x = {} THEN base ELSE G[<<Max(x), f[x \ {Max(x)}]>>]
        BY <3>3, <4>1, <2>1
      <4>3. k \notin x \ {Max(x)} /\ x \ {Max(x)} \in SUBSET (1..k)
        BY <3>3
      <4>4. g[x \ {Max(x)}] = f[x \ {Max(x)}]
        BY <4>3
      <4> QED
        BY <4>2, <4>4
    <3> QED
      BY <3>2, <3>3
  <2> HIDE DEF Fits, g
  <2> QED
    BY <2>5
<1>3. n \in T
  <2> HIDE DEF T
  <2> QED
    BY <1>1, <1>2, BoundedInduction
<1>4. PICK f : f \in Fits(n)
  <2> HIDE DEF Fits
  <2> QED
    BY <1>3
<1>5. Folds(f, n, base, G)
  BY <1>4 DEF Folds
<1> QED
  BY <1>4, <1>5

\* A function that satisfies such an equation goes through the elements in
\* order: what holds of the base and is kept by every step holds of the result.
LEMMA FoldKeeps ==
  ASSUME NEW n \in Nat, NEW J, NEW f,
         f[{}] \in J[0],
         \A k \in 1..n : f[1..(k - 1)] \in J[k - 1] => f[1..k] \in J[k]
  PROVE  f[1..n] \in J[n]
<1> DEFINE T == {k \in 0..n : f[1..k] \in J[k]}
<1>1. 0 \in T
  <2>1. 1..0 = {}
    OBVIOUS
  <2> QED
    BY <2>1
<1>2. ASSUME NEW k \in 1..n, k - 1 \in T PROVE k \in T
  BY <1>2
<1> HIDE DEF T
<1>3. n \in T
  BY <1>1, <1>2, BoundedInduction
<1> QED
  BY <1>3 DEF T

\* The greatest of some indices, and the initial segments of them.
LEMMA LastIndex ==
  ASSUME NEW n \in Nat, NEW x \in SUBSET (1..n), x # {}
  PROVE  Max(x) \in 1..n /\ x \ {Max(x)} \in SUBSET (1..n)
<1>1. x \in SUBSET Nat /\ \A y \in x : y <= n
  OBVIOUS
<1>2. Max(x) \in x
  BY <1>1, MaxFacts
<1> QED
  BY <1>2

\* An initial segment without its last index is the segment before.
LEMMA Segment ==
  ASSUME NEW n \in Nat, NEW k \in 1..n
  PROVE  /\ 1..k \in SUBSET (1..n) /\ 1..k # {}
         /\ Max(1..k) = k
         /\ (1..k) \ {Max(1..k)} = 1..(k - 1)
<1>1. Max(1..k) = k
  BY MaxOfInterval
<1> QED
  BY <1>1

\* The first lemma for a step function that need not map all values of a set
\* into it: A[x] are the values after the steps of x.
LEMMA FoldWithin ==
  ASSUME NEW n \in Nat, NEW A, NEW base \in A[{}], NEW G,
         \A x \in SUBSET (1..n) : x # {} =>
           \A b \in A[x \ {Max(x)}] : G[<<Max(x), b>>] \in A[x]
  PROVE  \E f : Folds(f, n, base, G) /\ \A x \in SUBSET (1..n) : f[x] \in A[x]
<1> DEFINE B == UNION {A[x] : x \in SUBSET (1..n)}
           H == [p \in (1..n) \X B |-> IF G[p] \in B THEN G[p] ELSE base]
<1>1. base \in B
  OBVIOUS
<1>2. H \in [(1..n) \X B -> B]
  BY <1>1
<1>3. \A x \in SUBSET (1..n) : \A b \in A[x] : b \in B
  OBVIOUS
<1>4. \A k \in 1..n, b \in B : G[<<k, b>>] \in B => H[<<k, b>>] = G[<<k, b>>]
  OBVIOUS
<1> HIDE DEF B, H
<1>5. PICK f : Folds(f, n, base, H)
  BY <1>1, <1>2, FoldExists
<1> DEFINE T == {k \in 0..n : \A x \in SUBSET (1..k) : f[x] \in A[x]}
<1>6. ASSUME NEW x \in SUBSET (1..n), x # {}, f[x \ {Max(x)}] \in A[x \ {Max(x)}]
      PROVE  f[x] = G[<<Max(x), f[x \ {Max(x)}]>>] /\ f[x] \in A[x]
  <2>1. Max(x) \in 1..n /\ x \ {Max(x)} \in SUBSET (1..n)
    BY <1>6, LastIndex
  <2> DEFINE b == f[x \ {Max(x)}]
             m == Max(x)
  <2>2. b \in B /\ G[<<m, b>>] \in A[x] /\ G[<<m, b>>] \in B
    BY <1>3, <1>6, <2>1
  <2>3. f[x] = H[<<m, b>>]
    BY <1>5, <1>6 DEF Folds
  <2> HIDE DEF b, m
  <2>4. m \in 1..n
    BY <2>1 DEF m
  <2>5. f[x] = G[<<m, b>>]
    BY <1>4, <2>2, <2>3, <2>4
  <2> QED
    BY <2>2, <2>5 DEF b, m
<1>7. f[{}] = base
  <2>1. {} \in SUBSET (1..n)
    OBVIOUS
  <2> QED
    BY <1>5, <2>1 DEF Folds
<1>8. 0 \in T
  <2>1. ASSUME NEW x \in SUBSET (1..0) PROVE f[x] \in A[x]
    <3>1. x = {}
      OBVIOUS
    <3> QED
      BY <1>7, <3>1
  <2>2. 0 \in 0..n
    OBVIOUS
  <2> QED
    BY <2>1, <2>2
<1>9. ASSUME NEW k \in 1..n, k - 1 \in T PROVE k \in T
  <2>1. ASSUME NEW x \in SUBSET (1..k), x = {} PROVE f[x] \in A[x]
    BY <1>7, <2>1
  <2>3. ASSUME NEW x \in SUBSET (1..k), x # {} PROVE f[x] \in A[x]
    <3>1. x \in SUBSET (1..n) /\ x \in SUBSET Nat /\ k \in Nat /\ \A y \in x : y <= k
      OBVIOUS
    <3>2. Max(x) \in x /\ \A y \in x : y <= Max(x)
      BY <2>3, <3>1, MaxFacts
    <3>3. x \ {Max(x)} \in SUBSET (1..(k - 1))
      <4> DEFINE m == Max(x)
      <4> HIDE DEF m
      <4>1. m \in x /\ \A y \in x : y <= m
        BY <3>2 DEF m
      <4>2. \A y \in x \ {m} : y \in 1..(k - 1)
        <5>1. \A y \in x : y \in Nat /\ y \in 1..k
          OBVIOUS
        <5> QED
          BY <4>1, <5>1
      <4> QED
        BY <4>2 DEF m
    <3>4. f[x \ {Max(x)}] \in A[x \ {Max(x)}]
      BY <1>9, <3>3
    <3> QED
      BY <1>6, <2>3, <3>1, <3>4
  <2>4. \A x \in SUBSET (1..k) : f[x] \in A[x]
    BY <2>1, <2>3
  <2>5. k \in 0..n
    OBVIOUS
  <2> QED
    BY <2>4, <2>5
<1>10. \A x \in SUBSET (1..n) : f[x] \in A[x]
  <2>1. n \in T
    <3> HIDE DEF T
    <3> QED
      BY <1>8, <1>9, BoundedInduction
  <2> QED
    BY <2>1
<1>11. Folds(f, n, base, G)
  <2>1. \A x \in SUBSET (1..n) : x # {} => f[x] = G[<<Max(x), f[x \ {Max(x)}]>>]
    <3>1. SUFFICES ASSUME NEW x \in SUBSET (1..n), x # {}
                   PROVE  f[x] = G[<<Max(x), f[x \ {Max(x)}]>>]
      OBVIOUS
    <3>2. x \ {Max(x)} \in SUBSET (1..n)
      BY <3>1, LastIndex
    <3> QED
      BY <1>6, <1>10, <3>1, <3>2
  <2> QED
    BY <1>7, <2>1 DEF Folds
<1> QED
  BY <1>10, <1>11

-----------------------------------------------------------------------------
(* MapThenSumSet.                                                          *)

\* f gives the sum of the numbers g of every subset of S.
Sums(f, S, g) ==
  \A s \in SUBSET S : f[s] = IF s = {} THEN 0
                             ELSE g[CHOOSE x \in s : TRUE] + f[s \ {CHOOSE x \in s : TRUE}]

\* There is a function that satisfies the equation by which MapThenSumSet is
\* defined.
LEMMA SumExists ==
  ASSUME NEW S, IsFiniteSet(S), NEW g \in [S -> Nat]
  PROVE  \E f \in [SUBSET S -> Nat] : Sums(f, S, g)
<1> DEFINE Next(f, s) == IF s = {} THEN 0
                         ELSE g[CHOOSE x \in s : TRUE] + f[s \ {CHOOSE x \in s : TRUE}]
           Fits(k) == {f \in [SUBSET S -> Nat] :
                         \A s \in SUBSET S : Cardinality(s) <= k => f[s] = Next(f, s)}
           T == {k \in Nat : Fits(k) # {}}
<1>1. ASSUME NEW s \in SUBSET S PROVE Cardinality(s) \in Nat /\ (Cardinality(s) = 0 <=> s = {})
  <2>1. IsFiniteSet(s)
    BY FS_Subset
  <2> QED
    BY <2>1, FS_CardinalityType, FS_EmptySet
<1>2. ASSUME NEW s \in SUBSET S, s # {}
      PROVE  LET x == CHOOSE x \in s : TRUE
             IN  /\ x \in s /\ g[x] \in Nat /\ s \ {x} \in SUBSET S
                 /\ Cardinality(s \ {x}) = Cardinality(s) - 1
  <2> DEFINE x == CHOOSE x \in s : TRUE
  <2>1. x \in s
    BY <1>2
  <2> HIDE DEF x
  <2>2. IsFiniteSet(s)
    BY FS_Subset
  <2>3. Cardinality(s \ {x}) = Cardinality(s) - 1
    BY <2>1, <2>2, FS_RemoveElement
  <2>4. g[x] \in Nat /\ s \ {x} \in SUBSET S
    BY <2>1
  <2> QED
    BY <2>1, <2>3, <2>4 DEF x
<1>3. \A f \in [SUBSET S -> Nat], s \in SUBSET S : Next(f, s) \in Nat
  BY <1>2
<1>4. 0 \in T
  <2> DEFINE f == [s \in SUBSET S |-> 0]
  <2>1. \A s \in SUBSET S : Cardinality(s) <= 0 => s = {}
    BY <1>1
  <2>2. f \in Fits(0)
    BY <2>1
  <2> QED
    BY <2>2
<1>5. ASSUME NEW k \in Nat, k \in T PROVE k + 1 \in T
  <2>1. PICK f : f \in Fits(k)
    BY <1>5
  <2> DEFINE h == [s \in SUBSET S |-> Next(f, s)]
  <2>2. h \in [SUBSET S -> Nat]
    <3> HIDE DEF Next
    <3> QED
      BY <1>3, <2>1
  <2>3. ASSUME NEW s \in SUBSET S, Cardinality(s) <= k PROVE h[s] = f[s]
    BY <2>1, <2>3
  <2>4. ASSUME NEW s \in SUBSET S, Cardinality(s) <= k + 1 PROVE h[s] = Next(h, s)
    <3>1. CASE s = {}
      BY <3>1
    <3>2. CASE s # {}
      <4> DEFINE x == CHOOSE x \in s : TRUE
      <4>1. s \ {x} \in SUBSET S /\ Cardinality(s \ {x}) <= k
        BY <1>1, <1>2, <2>4, <3>2
      <4>2. h[s \ {x}] = f[s \ {x}]
        BY <2>3, <4>1
      <4> QED
        BY <3>2, <4>2
    <3> QED
      BY <3>1, <3>2
  <2>5. h \in Fits(k + 1)
    <3> HIDE DEF Next, h
    <3> QED
      BY <2>2, <2>4
  <2> HIDE DEF Fits
  <2> QED
    BY <2>5
<1> HIDE DEF T
<1>6. Cardinality(S) \in T
  BY <1>1, <1>4, <1>5, SetInduction
<1> USE DEF T
<1>7. PICK f : f \in Fits(Cardinality(S))
  BY <1>6
<1>8. \A s \in SUBSET S : Cardinality(s) <= Cardinality(S)
  BY FS_Subset
<1>9. Sums(f, S, g)
  BY <1>7, <1>8 DEF Sums
<1> QED
  BY <1>7, <1>9

\* Sums of natural numbers are natural numbers.
LEMMA SumsAreNat ==
  ASSUME NEW S, IsFiniteSet(S), NEW g \in [S -> Nat], NEW f, Sums(f, S, g)
  PROVE  \A s \in SUBSET S : f[s] \in Nat
<1> DEFINE T == {k \in Nat : \A s \in SUBSET S : Cardinality(s) <= k => f[s] \in Nat}
<1>1. ASSUME NEW s \in SUBSET S
      PROVE  /\ Cardinality(s) \in Nat /\ (Cardinality(s) = 0 <=> s = {})
             /\ \A x \in s : Cardinality(s \ {x}) = Cardinality(s) - 1
  <2>1. IsFiniteSet(s)
    BY FS_Subset
  <2> QED
    BY <2>1, FS_CardinalityType, FS_EmptySet, FS_RemoveElement
<1>2. 0 \in T
  BY <1>1 DEF Sums
<1>3. ASSUME NEW k \in Nat, k \in T PROVE k + 1 \in T
  <2>1. SUFFICES ASSUME NEW s \in SUBSET S, Cardinality(s) <= k + 1 PROVE f[s] \in Nat
    OBVIOUS
  <2> DEFINE c == CHOOSE y \in s : TRUE
  <2>2. f[s] = IF s = {} THEN 0 ELSE g[c] + f[s \ {c}]
    BY DEF Sums
  <2>3. CASE s = {}
    BY <2>2, <2>3
  <2>4. CASE s # {}
    <3>1. c \in s
      BY <2>4
    <3> HIDE DEF c
    <3>2. Cardinality(s \ {c}) <= k /\ s \ {c} \in SUBSET S /\ g[c] \in Nat
      BY <1>1, <2>1, <3>1
    <3>3. f[s \ {c}] \in Nat
      BY <1>3, <3>2
    <3> QED
      BY <2>2, <2>4, <3>2, <3>3
  <2> QED
    BY <2>3, <2>4
<1> HIDE DEF T
<1>4. Cardinality(S) \in T
  BY <1>1, <1>2, <1>3, SetInduction
<1>5. \A s \in SUBSET S : Cardinality(s) <= Cardinality(S)
  BY FS_Subset
<1> QED
  BY <1>4, <1>5 DEF T

\* The order of the summands does not matter.
LEMMA SumSplits ==
  ASSUME NEW S, IsFiniteSet(S), NEW g \in [S -> Nat],
         NEW f, Sums(f, S, g)
  PROVE  \A s \in SUBSET S : \A x \in s : f[s] = g[x] + f[s \ {x}]
<1> DEFINE T == {k \in Nat : \A s \in SUBSET S : Cardinality(s) <= k => \A x \in s : f[s] = g[x] + f[s \ {x}]}
<1>1. ASSUME NEW s \in SUBSET S
      PROVE  /\ Cardinality(s) \in Nat /\ (Cardinality(s) = 0 <=> s = {})
             /\ \A x \in s : Cardinality(s \ {x}) = Cardinality(s) - 1
  <2>1. IsFiniteSet(s)
    BY FS_Subset
  <2> QED
    BY <2>1, FS_CardinalityType, FS_EmptySet, FS_RemoveElement
<1>2. 0 \in T
  BY <1>1
<1>3. ASSUME NEW k \in Nat, k \in T PROVE k + 1 \in T
  <2>1. SUFFICES ASSUME NEW s \in SUBSET S, Cardinality(s) <= k + 1, NEW x \in s
                 PROVE  f[s] = g[x] + f[s \ {x}]
    OBVIOUS
  <2> DEFINE c == CHOOSE y \in s : TRUE
  <2>2. c \in s /\ f[s] = g[c] + f[s \ {c}]
    BY DEF Sums
  <2> HIDE DEF c
  <2>3. CASE x = c
    BY <2>2, <2>3
  <2>4. CASE x # c
    <3> DEFINE sx == s \ {x}
               sc == s \ {c}
               sb == s \ {x, c}
    <3>1. sx \in SUBSET S /\ sc \in SUBSET S /\ sb \in SUBSET S /\ c \in sx /\ x \in sc
      BY <2>2, <2>4
    <3>2. sx \ {c} = sb /\ sc \ {x} = sb
      OBVIOUS
    <3>3. Cardinality(sx) <= k /\ Cardinality(sc) <= k
      BY <1>1, <2>1, <2>2
    <3> HIDE DEF sx, sc, sb
    <3>4. f[sx] = g[c] + f[sb] /\ f[sc] = g[x] + f[sb]
      BY <1>3, <3>1, <3>2, <3>3
    <3>5. f[sx] \in Nat /\ f[sc] \in Nat /\ f[sb] \in Nat /\ g[x] \in Nat /\ g[c] \in Nat
      BY <2>2, <3>1, SumsAreNat
    <3>6. f[s] = g[c] + f[sc]
      BY <2>2 DEF sc
    <3>7. f[s] = g[x] + f[sx]
      BY <3>4, <3>5, <3>6
    <3> QED
      BY <3>7 DEF sx
  <2> QED
    BY <2>3, <2>4
<1> HIDE DEF T
<1>4. Cardinality(S) \in T
  BY <1>1, <1>2, <1>3, SetInduction
<1>5. \A s \in SUBSET S : Cardinality(s) <= Cardinality(S)
  BY FS_Subset
<1> QED
  BY <1>4, <1>5 DEF T

-----------------------------------------------------------------------------
(* Arithmetic.                                                             *)

\* Multiplication, division and remainder, with a bound that is not a literal.
LEMMA ProductGrows ==
  ASSUME NEW p \in Int, NEW q \in Int, NEW n \in Nat, p <= q
  PROVE  p * n \in Int /\ q * n \in Int /\ p * n <= q * n
  OBVIOUS

\* A number is its quotient and its remainder.
LEMMA Divided ==
  ASSUME NEW x \in Nat, NEW n \in Nat \ {0}
  PROVE  /\ x \div n \in Nat /\ x % n \in 0..(n - 1)
         /\ x = (x \div n) * n + (x % n)
  OBVIOUS

\* The order of two numbers is that of their quotients, then of their remainders.
LEMMA UniqueDivision ==
  ASSUME NEW n \in Nat \ {0}, NEW p \in Nat, NEW q \in Nat, NEW v \in 0..(n - 1), NEW w \in 0..(n - 1),
         p * n + v <= q * n + w
  PROVE p < q \/ (p = q /\ v <= w)
<1>1. CASE p < q
  BY <1>1
<1>2. CASE p = q
  BY <1>2
<1>3. CASE q < p
  <2>1. (q + 1) * n <= p * n
    BY <1>3, ProductGrows
  <2>2. (q + 1) * n = q * n + n
    OBVIOUS
  <2>3. p * n \in Int /\ q * n \in Int
    OBVIOUS
  <2> QED BY <2>1, <2>2, <2>3
<1> QED BY <1>1, <1>2, <1>3

\* And the other way round.
LEMMA OrderedDivision ==
  ASSUME NEW n \in Nat \ {0}, NEW p \in Nat, NEW q \in Nat, NEW v \in 0..(n - 1), NEW w \in 0..(n - 1),
          p < q \/ (p = q /\ v <= w)
  PROVE p * n + v <= q * n + w
<1>1. CASE p < q
  <2>1. (p + 1) * n <= q * n
    BY <1>1, ProductGrows
  <2>2. (p + 1) * n = p * n + n
    OBVIOUS
  <2>3. p * n \in Int /\ q * n \in Int
    OBVIOUS
  <2> QED BY <2>1, <2>2, <2>3
<1>2. CASE p = q /\ v <= w
  <2>3. p * n \in Int /\ q * n \in Int
    OBVIOUS
  <2> QED
    BY <1>2, <2>3
<1> QED BY <1>1, <1>2

\* Quotient and remainder of a number that is given by them.
LEMMA ToHalves ==
  ASSUME NEW n \in Nat \ {0}, NEW p \in Nat, NEW v \in 0..(n - 1)
  PROVE  p * n + v \in Nat /\ (p * n + v) \div n = p /\ (p * n + v) % n = v
<1>1. p * n \in Nat
  OBVIOUS
<1> DEFINE x == p * n + v
<1>2. x \in Nat
  BY <1>1
<1> HIDE DEF x
<1>3. x \div n \in Nat /\ x % n \in 0..(n - 1) /\ x = (x \div n) * n + (x % n)
  BY <1>2, Divided
<1>4. p * n + v <= (x \div n) * n + (x % n) /\ (x \div n) * n + (x % n) <= p * n + v
  BY <1>1, <1>2, <1>3 DEF x
<1>5. p < x \div n \/ (p = x \div n /\ v <= x % n)
  BY <1>3, <1>4, UniqueDivision
<1>6. x \div n < p \/ (p = x \div n /\ x % n <= v)
  BY <1>3, <1>4, UniqueDivision
<1> DEFINE q == x \div n
           r == x % n
<1>7. q \in Int /\ r \in Int /\ (p < q \/ (p = q /\ v <= r)) /\ (q < p \/ (p = q /\ r <= v))
  BY <1>3, <1>5, <1>6
<1>8. p = q /\ v = r
  <2> HIDE DEF q, r
  <2> QED
    BY <1>7
<1> QED
  BY <1>2, <1>8 DEF x

\* A number made from two in bounds is in bounds.
LEMMA InProduct ==
  ASSUME NEW n \in Nat \ {0}, NEW h \in Nat \ {0}, NEW p \in 0..(h - 1), NEW v \in 0..(n - 1)
  PROVE  p * n + v \in 0..(h * n - 1)
<1>1. (p + 1) * n <= h * n /\ (p + 1) * n = p * n + n /\ p * n \in Nat /\ h * n \in Nat
  BY ProductGrows
<1> QED
  BY <1>1

\* The quotient of a number in bounds is in bounds.
LEMMA OutOfProduct ==
  ASSUME NEW n \in Nat \ {0}, NEW h \in Nat \ {0}, NEW x \in 0..(h * n - 1)
  PROVE  x \div n \in 0..(h - 1)
<1>1. x \in Nat /\ h * n \in Nat
  OBVIOUS
<1>2. x \div n \in Nat /\ x % n \in 0..(n - 1) /\ x = (x \div n) * n + (x % n)
  BY <1>1, Divided
<1>3. CASE h <= x \div n
  <2>1. h * n <= (x \div n) * n /\ (x \div n) * n \in Int
    BY <1>2, <1>3, ProductGrows
  <2> QED
    BY <1>1, <1>2, <2>1
<1> QED
  BY <1>2, <1>3

\* The elements of the sets P[k].
AllOf(P, s) == UNION {P[k] : k \in s}

\* g has the sizes of the sets P[k], which have no element in common.
HasSizes(P, g, S) ==
  /\ \A k \in S : IsFiniteSet(P[k]) /\ Cardinality(P[k]) = g[k]
  /\ \A j, k \in S : j # k => P[j] \cap P[k] = {}

\* The sum of the sizes of sets that have no element in common is the size of their union.
LEMMA SumsCount ==
  ASSUME NEW S, IsFiniteSet(S), NEW g \in [S -> Nat], NEW f, Sums(f, S, g),
         NEW P, HasSizes(P, g, S)
  PROVE  \A s \in SUBSET S : IsFiniteSet(AllOf(P, s)) /\ f[s] = Cardinality(AllOf(P, s))
<1> DEFINE All(s) == UNION {P[k] : k \in s}
           Good(s) == IsFiniteSet(All(s)) /\ f[s] = Cardinality(All(s))
           T == {n \in Nat : \A s \in SUBSET S : Cardinality(s) = n => Good(s)}
<1> USE DEF HasSizes
<1>1. 0 \in T
  <2> SUFFICES ASSUME NEW s \in SUBSET S, Cardinality(s) = 0 PROVE Good(s)
    OBVIOUS
  <2>1. s = {}
    BY FS_EmptySet, FS_Subset
  <2>2. f[s] = 0
    BY <2>1 DEF Sums
  <2>3. All(s) = {}
    BY <2>1
  <2> QED
    BY <2>2, <2>3, FS_EmptySet
<1>2. ASSUME NEW n \in Nat, n \in T PROVE n + 1 \in T
  <2> SUFFICES ASSUME NEW s \in SUBSET S, Cardinality(s) = n + 1 PROVE Good(s)
    OBVIOUS
  <2>1. IsFiniteSet(s)
    BY FS_Subset
  <2>2. s # {}
    BY <2>1, FS_EmptySet
  <2>3. PICK x \in s : TRUE
    BY <2>2
  <2> DEFINE t == s \ {x}
             A == All(t)
             B == P[x]
  <2>4. Cardinality(t) = n /\ t \in SUBSET S
    <3>1. Cardinality(s \ {x}) = IF x \in s THEN Cardinality(s) - 1 ELSE Cardinality(s)
      BY <2>1, FS_RemoveElement
    <3>2. Cardinality(s \ {x}) = n
      BY <2>3, <3>1
    <3> QED
      BY <3>2
  <2>5. IsFiniteSet(A) /\ f[t] = Cardinality(A)
    BY <1>2, <2>4
  <2>6. f[s] = g[x] + f[t]
    BY SumSplits
  <2>7. IsFiniteSet(B) /\ Cardinality(B) = g[x] /\ g[x] \in Nat
    OBVIOUS
  <2>8. A \cap B = {}
    <3>1. \A k \in t : k \in S /\ x \in S /\ k # x
      OBVIOUS
    <3>2. \A k \in t : P[k] \cap B = {}
      BY <3>1
    <3> QED
      BY <3>2
  <2>9. All(s) = A \cup B
    OBVIOUS
  <2> HIDE DEF A, B, All, t
  <2>10. Cardinality(A \cap B) = 0
    BY <2>8, FS_EmptySet
  <2>11. IsFiniteSet(A \cup B) /\ Cardinality(A \cup B) = Cardinality(A) + Cardinality(B) - Cardinality(A \cap B)
    BY <2>5, <2>7, FS_Union
  <2>12. Cardinality(A) \in Nat
    BY <2>5, FS_CardinalityType
  <2>13. f[s] = Cardinality(A \cup B)
    BY <2>5, <2>6, <2>7, <2>10, <2>11, <2>12
  <2> QED
    BY <2>9, <2>11, <2>13
<1>3. Nat \subseteq T
  <2> HIDE DEF T
  <2> QED
    BY <1>1, <1>2, SetInduction
<1>4. \A s \in SUBSET S : Cardinality(s) \in Nat
  BY FS_Subset, FS_CardinalityType
<1>5. \A s \in SUBSET S : Good(s)
  BY <1>3, <1>4
<1> QED
  BY <1>5 DEF AllOf

-----------------------------------------------------------------------------
(* Initial indices, and sequences with an element more or less.            *)

\* A set of indices that holds every smaller index with an index is an interval.
LEMMA InitialIndices ==
  ASSUME NEW n \in Nat, NEW S \in SUBSET (1..n),
         \A i \in S : \A j \in 1..i : j \in S
  PROVE  Cardinality(S) \in 0..n /\ S = 1..Cardinality(S)
<1>1. CASE S = {}
  <2>1. S = 1..0 /\ Cardinality(S) = 0
    BY <1>1, FS_EmptySet
  <2> QED
    BY <2>1
<1>2. CASE S # {}
  <2>1. Max(S) \in 1..n
    BY <1>2, LastIndex
  <2>2. Max(S) \in S /\ \A i \in S : i <= Max(S)
    BY <1>2, MaxFacts
  <2> DEFINE top == Max(S)
  <2> HIDE DEF top
  <2>3. top \in 1..n /\ top \in S /\ \A i \in S : i <= top
    BY <2>1, <2>2 DEF top
  <2>4. S = 1..top
    <3>1. \A i \in S : i \in 1..top
      BY <2>3
    <3>2. \A i \in 1..top : i \in S
      BY <2>3
    <3> QED
      BY <3>1, <3>2
  <2>5. Cardinality(1..top) = top
    BY <2>3, FS_Interval
  <2> QED
    BY <2>3, <2>4, <2>5
<1> QED
  BY <1>1, <1>2

\* w is u behind s.
PutBehind(w, s, u) ==
  /\ Len(w) = Len(s) + Len(u)
  /\ \A i \in 1..Len(s) : w[i] = s[i]
  /\ \A i \in 1..Len(u) : w[i + Len(s)] = u[i]

\* So is their concatenation.
LEMMA Concatenated ==
  ASSUME NEW R, NEW s \in Seq(R), NEW u \in Seq(R), NEW w, w = s \o u
  PROVE  w \in Seq(R) /\ PutBehind(w, s, u)
<1> DEFINE m == Len(s)
           n == Len(u)
<1>1. m \in Nat /\ n \in Nat
  OBVIOUS
<1>2. s \o u \in Seq(R) /\ Len(s \o u) = m + n
  OBVIOUS
<1>3. \A i \in 1..(m + n) : (s \o u)[i] = IF i <= m THEN s[i] ELSE u[i - m]
  OBVIOUS
<1> HIDE DEF m, n
<1>4. ASSUME NEW i \in 1..m PROVE (s \o u)[i] = s[i]
  <2>1. i \in 1..(m + n) /\ i <= m
    BY <1>1
  <2> QED
    BY <1>3, <2>1
<1>5. ASSUME NEW i \in 1..n PROVE (s \o u)[i + m] = u[i]
  <2>1. i + m \in 1..(m + n) /\ ~(i + m <= m) /\ (i + m) - m = i
    BY <1>1
  <2> DEFINE j == i + m
  <2> HIDE DEF j
  <2>2. j \in 1..(m + n) /\ ~(j <= m) /\ j - m = i
    BY <2>1 DEF j
  <2>3. (s \o u)[j] = u[i]
    BY <1>3, <2>2
  <2> QED
    BY <2>3 DEF j
<1> QED
  BY <1>2, <1>4, <1>5 DEF m, n, PutBehind

\* The entries from one place to another.
LEMMA Segments ==
  ASSUME NEW R, NEW r \in Seq(R), NEW p \in 0..Len(r)
  PROVE  /\ SubSeq(r, 1, p) \in Seq(R) /\ Len(SubSeq(r, 1, p)) = p
         /\ \A i \in 1..p : SubSeq(r, 1, p)[i] = r[i]
         /\ SubSeq(r, p + 1, Len(r)) \in Seq(R)
         /\ Len(SubSeq(r, p + 1, Len(r))) = Len(r) - p
         /\ \A i \in 1..(Len(r) - p) : SubSeq(r, p + 1, Len(r))[i] = r[p + i]
  OBVIOUS

\* t is r with the entry e at place j and the ones from there moved by one.
OneMore(R, t, r, j, e) ==
  /\ t \in Seq(R) /\ Len(t) = Len(r) + 1
  /\ \A i \in 1..(j - 1) : t[i] = r[i]
  /\ t[j] = e
  /\ \A i \in j..Len(r) : t[i + 1] = r[i]

\* The array with an entry more.
LEMMA InsertFacts ==
  ASSUME NEW R, NEW r \in Seq(R), NEW j \in 1..(Len(r) + 1), NEW e \in R, NEW t,
         t = InsertAt(r, j, e)
  PROVE  OneMore(R, t, r, j, e)
<1> DEFINE p == j - 1
<1>0. p \in 0..Len(r) /\ j = p + 1 /\ j - 1 = p
  OBVIOUS
<1> HIDE DEF p
<1> DEFINE front == SubSeq(r, 1, p)
           back == SubSeq(r, p + 1, Len(r))
<1>1. front \in Seq(R) /\ Len(front) = p /\ \A i \in 1..p : front[i] = r[i]
  BY <1>0, Segments
<1>2. /\ back \in Seq(R) /\ Len(back) = Len(r) - p
      /\ \A i \in 1..(Len(r) - p) : back[i] = r[p + i]
  BY <1>0, Segments
<1>3. <<e>> \in Seq(R) /\ Len(<<e>>) = 1 /\ <<e>>[1] = e
  OBVIOUS
<1>4. t = (front \o <<e>>) \o back
  BY <1>0 DEF InsertAt
<1>5. Len(r) \in Nat /\ p \in Nat /\ Len(r) - p \in Nat /\ p + 1 \in Nat
  BY <1>0
<1> HIDE DEF front, back
<1> DEFINE one == front \o <<e>>
<1>6. /\ one \in Seq(R) /\ Len(one) = p + 1
      /\ \A i \in 1..p : one[i] = r[i]
      /\ one[p + 1] = e
  BY <1>1, <1>3, <1>5
<1> HIDE DEF one
<1>7. t = one \o back
  BY <1>4 DEF one
<1>8. /\ t \in Seq(R) /\ Len(t) = (p + 1) + (Len(r) - p)
      /\ \A i \in 1..(p + 1) : t[i] = one[i]
      /\ \A i \in 1..(Len(r) - p) : t[i + (p + 1)] = back[i]
  <2>1. one \in Seq(R) /\ back \in Seq(R)
    BY <1>2, <1>6
  <2>2. t \in Seq(R) /\ PutBehind(t, one, back)
    BY <1>7, <2>1, Concatenated
  <2> QED
    BY <1>2, <1>6, <2>2 DEF PutBehind
<1>9. \A i \in (p + 1)..Len(r) : t[i + 1] = r[i]
  <2>1. SUFFICES ASSUME NEW i \in (p + 1)..Len(r) PROVE t[i + 1] = r[i]
    OBVIOUS
  <2>2. i - p \in 1..(Len(r) - p) /\ (i - p) + (p + 1) = i + 1 /\ p + (i - p) = i
    BY <1>5
  <2> QED
    BY <1>2, <1>8, <2>2
<1>10. \A i \in 1..p : i \in 1..(p + 1)
  BY <1>5
<1>11. p + 1 \in 1..(p + 1) /\ (p + 1) + (Len(r) - p) = Len(r) + 1
  BY <1>5
<1> QED
  BY <1>0, <1>6, <1>8, <1>9, <1>10, <1>11 DEF OneMore

\* t is r without the entry at place p, the ones behind it moved by one.
OneLess(R, t, r, p) ==
  /\ t \in Seq(R) /\ Len(t) = Len(r) - 1
  /\ \A i \in 1..(p - 1) : t[i] = r[i]
  /\ \A i \in (p + 1)..Len(r) : t[i - 1] = r[i]

\* The array with an entry less.
LEMMA RemoveFacts ==
  ASSUME NEW R, NEW r \in Seq(R), NEW p \in 1..Len(r), NEW t, t = RemoveAt(r, p)
  PROVE  OneLess(R, t, r, p)
<1> DEFINE front == SubSeq(r, 1, p - 1)
           back == SubSeq(r, p + 1, Len(r))
<1>1. p - 1 \in 0..Len(r) /\ p \in 0..Len(r)
  OBVIOUS
<1>2. front \in Seq(R) /\ Len(front) = p - 1 /\ \A i \in 1..(p - 1) : front[i] = r[i]
  BY <1>1, Segments
<1>3. /\ back \in Seq(R) /\ Len(back) = Len(r) - p
      /\ \A i \in 1..(Len(r) - p) : back[i] = r[p + i]
  BY <1>1, Segments
<1>4. t = front \o back
  BY DEF RemoveAt
<1>5. Len(r) \in Nat /\ p \in Nat /\ Len(r) - p \in Nat /\ p - 1 \in Nat
  OBVIOUS
<1> HIDE DEF front, back
<1>6. /\ t \in Seq(R) /\ Len(t) = (p - 1) + (Len(r) - p)
      /\ \A i \in 1..(p - 1) : t[i] = front[i]
      /\ \A i \in 1..(Len(r) - p) : t[i + (p - 1)] = back[i]
  <2>1. front \in Seq(R) /\ back \in Seq(R)
    BY <1>2, <1>3
  <2>2. t \in Seq(R) /\ PutBehind(t, front, back)
    BY <1>4, <2>1, Concatenated
  <2> QED
    BY <1>2, <1>3, <2>2 DEF PutBehind
<1>7. \A i \in (p + 1)..Len(r) : t[i - 1] = r[i]
  <2>1. SUFFICES ASSUME NEW i \in (p + 1)..Len(r) PROVE t[i - 1] = r[i]
    OBVIOUS
  <2>2. i - p \in 1..(Len(r) - p) /\ (i - p) + (p - 1) = i - 1 /\ p + (i - p) = i
    BY <1>5
  <2> QED
    BY <1>3, <1>6, <2>2
<1>8. (p - 1) + (Len(r) - p) = Len(r) - 1
  BY <1>5
<1> QED
  BY <1>2, <1>6, <1>7, <1>8 DEF OneLess
=============================================================================
