------------------------- MODULE RoaringArrayProofs -------------------------
(***************************************************************************)
(* What the calls of module RoaringArray do to the chunks of a bitmap: for *)
(* all numbers of keys and of low halves, the result of each call is again *)
(* the sorted array of the chunks that are not empty, and these are the    *)
(* chunks that the call is to leave.                                       *)
(***************************************************************************)
EXTENDS RoaringArray, FoldFacts

\* What an array of the code may hold while entries are moved in it.
Rows == [key : Int, container : SUBSET Int]

\* The values of a bitmap by key.
Chunks == [Keys -> SUBSET Lows]

\* The entries a .. b of s are those of the chunks C[lo] .. C[hi], in order.
Covers(s, a, b, C, lo, hi) ==
  /\ \A i \in a..b : /\ s[i].key \in lo..hi
                     /\ s[i].container = C[s[i].key] /\ s[i].container # {}
  /\ \A i, j \in a..b : i < j => s[i].key < s[j].key
  /\ \A k \in lo..hi : C[k] # {} => \E i \in a..b : s[i].key = k

\* The array of the chunks C.
Holds(r, C) == r \in Seq(Rows) /\ C \in Chunks /\ Covers(r, 1, Len(r), C, 0, KeyCount - 1)

-----------------------------------------------------------------------------
(* Segments of arrays.                                                     *)

\* Two segments, one behind the other.
LEMMA Joined ==
  ASSUME NEW s, NEW C, NEW a \in Int, NEW b \in Int, NEW c \in Int,
         NEW lo \in Int, NEW m \in Int, NEW hi \in Int,
         a <= b + 1, b <= c, lo <= m + 1, m <= hi,
         Covers(s, a, b, C, lo, m), Covers(s, b + 1, c, C, m + 1, hi)
  PROVE  Covers(s, a, c, C, lo, hi)
<1>1. \A i \in a..c : i \in a..b \/ i \in (b + 1)..c
  OBVIOUS
<1>2. \A k \in lo..hi : k \in lo..m \/ k \in (m + 1)..hi
  OBVIOUS
<1>3. ASSUME NEW i \in a..c
      PROVE  s[i].key \in lo..hi /\ s[i].container = C[s[i].key] /\ s[i].container # {}
  BY <1>1 DEF Covers
<1>4. ASSUME NEW i \in a..c, NEW j \in a..c, i < j
      PROVE  s[i].key < s[j].key
  <2>1. CASE i \in a..b /\ j \in a..b
    BY <2>1, <1>4 DEF Covers
  <2>2. CASE i \in (b + 1)..c /\ j \in (b + 1)..c
    BY <2>2, <1>4 DEF Covers
  <2>3. CASE i \in a..b /\ j \in (b + 1)..c
    <3>1. s[i].key \in lo..m /\ s[j].key \in (m + 1)..hi
      BY <2>3 DEF Covers
    <3> QED
      BY <3>1
  <2> QED
    BY <2>1, <2>2, <2>3, <1>4
<1>5. ASSUME NEW k \in lo..hi, C[k] # {} PROVE \E i \in a..c : s[i].key = k
  <2>1. CASE k \in lo..m
    <3>1. PICK i \in a..b : s[i].key = k
      BY <2>1, <1>5 DEF Covers
    <3> QED
      BY <3>1
  <2>2. CASE k \in (m + 1)..hi
    <3>1. PICK i \in (b + 1)..c : s[i].key = k
      BY <2>2, <1>5 DEF Covers
    <3> QED
      BY <3>1
  <2> QED
    BY <1>2, <2>1, <2>2
<1> QED
  BY <1>3, <1>4, <1>5 DEF Covers

\* The entries a .. b of s stand distance places further in t.
Moves(s, t, a, b, distance) == \A i \in a..b : t[i + distance] = s[i]

\* A segment that stands elsewhere in another array.
LEMMA Shifted ==
  ASSUME NEW s, NEW t, NEW C, NEW D, NEW a \in Int, NEW b \in Int, NEW d \in Int,
         NEW lo \in Int, NEW hi \in Int,
         NEW p \in Int, NEW q \in Int, p = a + d, q = b + d,
         Covers(s, a, b, C, lo, hi),
         Moves(s, t, a, b, d),
         \A k \in lo..hi : D[k] = C[k]
  PROVE  Covers(t, p, q, D, lo, hi)
<1>1. \A i \in (a + d)..(b + d) : i - d \in a..b /\ (i - d) + d = i
  OBVIOUS
<1>2. \A i \in (a + d)..(b + d) : t[i] = s[i - d]
  BY <1>1 DEF Moves
<1>3. ASSUME NEW i \in (a + d)..(b + d)
      PROVE  t[i].key \in lo..hi /\ t[i].container = D[t[i].key] /\ t[i].container # {}
  BY <1>1, <1>2 DEF Covers
<1>4. ASSUME NEW i \in (a + d)..(b + d), NEW j \in (a + d)..(b + d), i < j
      PROVE  t[i].key < t[j].key
  <2>1. i - d < j - d
    BY <1>4
  <2> QED
    BY <2>1, <1>1, <1>2 DEF Covers
<1>5. ASSUME NEW k \in lo..hi, D[k] # {} PROVE \E i \in (a + d)..(b + d) : t[i].key = k
  <2>1. PICK i \in a..b : s[i].key = k
    BY <1>5 DEF Covers
  <2>2. i + d \in (a + d)..(b + d) /\ t[i + d].key = k
    BY <2>1 DEF Moves
  <2> QED
    BY <2>2
<1> QED
  BY <1>3, <1>4, <1>5 DEF Covers

\* A segment that stands at the same place in another array.
LEMMA Unmoved ==
  ASSUME NEW s, NEW t, NEW C, NEW D, NEW a \in Int, NEW b \in Int,
         NEW lo \in Int, NEW hi \in Int,
         Covers(s, a, b, C, lo, hi),
         \A i \in a..b : t[i] = s[i],
         \A k \in lo..hi : D[k] = C[k]
  PROVE  Covers(t, a, b, D, lo, hi)
  BY DEF Covers

\* No entry is needed for empty chunks.
LEMMA NoEntry ==
  ASSUME NEW s, NEW C, NEW a \in Int, NEW lo \in Int, NEW hi \in Int,
         \A k \in lo..hi : C[k] = {}
  PROVE  Covers(s, a, a - 1, C, lo, hi)
  BY DEF Covers

\* One entry.
LEMMA OneEntry ==
  ASSUME NEW s, NEW C, NEW a \in Int, NEW k \in Int,
         s[a].key = k, s[a].container = C[k], C[k] # {}
  PROVE  Covers(s, a, a, C, k, k)
  BY DEF Covers

\* A segment falls into the entries up to a key and the ones above it.
LEMMA Parted ==
  ASSUME NEW s, NEW C, NEW a \in Int, NEW b \in Int, NEW n \in Int,
         NEW lo \in Int, NEW m \in Int, NEW hi \in Int,
         a <= n + 1, n <= b, lo <= m + 1, m <= hi,
         Covers(s, a, b, C, lo, hi),
         \A i \in a..n : s[i].key <= m,
         \A i \in (n + 1)..b : s[i].key > m
  PROVE  Covers(s, a, n, C, lo, m) /\ Covers(s, n + 1, b, C, m + 1, hi)
<1>1. \A i \in a..b : s[i].key \in Int
  BY DEF Covers
<1>2. a..n \subseteq a..b /\ (n + 1)..b \subseteq a..b
  OBVIOUS
<1>3. Covers(s, a, n, C, lo, m)
  <2>1. ASSUME NEW k \in lo..m, C[k] # {} PROVE \E i \in a..n : s[i].key = k
    <3>1. PICK i \in a..b : s[i].key = k
      BY <2>1 DEF Covers
    <3>2. i \in a..n
      BY <3>1
    <3> QED
      BY <3>1, <3>2
  <2>2. ASSUME NEW i \in a..n
        PROVE  s[i].key \in lo..m /\ s[i].container = C[s[i].key] /\ s[i].container # {}
    BY <1>2 DEF Covers
  <2> QED
    BY <1>2, <2>1, <2>2 DEF Covers
<1>4. Covers(s, n + 1, b, C, m + 1, hi)
  <2>1. ASSUME NEW k \in (m + 1)..hi, C[k] # {} PROVE \E i \in (n + 1)..b : s[i].key = k
    <3>1. PICK i \in a..b : s[i].key = k
      BY <2>1 DEF Covers
    <3>2. i \in (n + 1)..b
      BY <3>1
    <3> QED
      BY <3>1, <3>2
  <2>2. ASSUME NEW i \in (n + 1)..b
        PROVE  s[i].key \in (m + 1)..hi /\ s[i].container = C[s[i].key] /\ s[i].container # {}
    BY <1>2, <1>1 DEF Covers
  <2> QED
    BY <1>2, <2>1, <2>2 DEF Covers
<1> QED
  BY <1>3, <1>4

\* What is left behind the first entry, and before the last one.
LEMMA BehindFirst ==
  ASSUME NEW s, NEW C, NEW a \in Int, NEW b \in Int, NEW k \in Int, NEW hi \in Int,
         a <= b, k <= hi, Covers(s, a, b, C, k, hi), s[a].key = k
  PROVE  Covers(s, a + 1, b, C, k + 1, hi)
<1>1. \A i \in (a + 1)..b : i \in a..b /\ a \in a..b /\ a < i
  OBVIOUS
<1>2. \A i \in a..b : s[i].key \in k..hi
  BY DEF Covers
<1>3. \A i \in (a + 1)..b : s[i].key > k
  BY <1>1, <1>2 DEF Covers
<1>4. \A i \in a..a : s[i].key <= k
  OBVIOUS
<1>5. a <= a + 1 /\ k <= k + 1
  OBVIOUS
<1> QED
  BY <1>3, <1>4, <1>5, Parted

\* Without its last row a segment covers one key less.
LEMMA BeforeLast ==
  ASSUME NEW s, NEW C, NEW a \in Int, NEW b \in Int, NEW lo \in Int, NEW k \in Int,
         a <= b, lo <= k, Covers(s, a, b, C, lo, k), s[b].key = k
  PROVE  Covers(s, a, b - 1, C, lo, k - 1)
<1>1. \A i \in a..(b - 1) : i \in a..b /\ b \in a..b /\ i < b
  OBVIOUS
<1>2. \A i \in a..b : s[i].key \in lo..k
  BY DEF Covers
<1>3. \A i \in a..(b - 1) : s[i].key <= k - 1
  BY <1>1, <1>2 DEF Covers
<1>4. \A i \in ((b - 1) + 1)..b : s[i].key > k - 1
  OBVIOUS
<1>5. /\ b - 1 \in Int /\ k - 1 \in Int /\ a <= (b - 1) + 1 /\ b - 1 <= b
      /\ lo <= (k - 1) + 1 /\ k - 1 <= k
  OBVIOUS
<1> DEFINE n == b - 1
           m == k - 1
<1> HIDE DEF n, m
<1>6. Covers(s, a, n, C, lo, m)
  <2>1. /\ n \in Int /\ m \in Int /\ a <= n + 1 /\ n <= b /\ lo <= m + 1 /\ m <= k
        /\ \A i \in a..n : s[i].key <= m
        /\ \A i \in (n + 1)..b : s[i].key > m
    BY <1>3, <1>4, <1>5 DEF n, m
  <2> QED
    BY <2>1, Parted
<1> QED
  BY <1>6 DEF n, m

\* Empty chunks at either end need not be counted to a segment.
LEMMA Trimmed ==
  ASSUME NEW s, NEW C, NEW a \in Int, NEW b \in Int, NEW lo \in Int, NEW hi \in Int,
         NEW l \in Int, NEW h \in Int, Covers(s, a, b, C, lo, hi), lo <= l, h <= hi,
         \A k \in lo..hi : k \notin l..h => C[k] = {}
  PROVE  Covers(s, a, b, C, l, h)
<1>1. ASSUME NEW i \in a..b PROVE s[i].key \in l..h
  BY DEF Covers
<1> QED
  BY <1>1 DEF Covers

\* They may be counted to it.
LEMMA Extended ==
  ASSUME NEW s, NEW C, NEW a \in Int, NEW b \in Int, NEW lo \in Int, NEW hi \in Int,
         NEW l \in Int, NEW h \in Int, Covers(s, a, b, C, l, h), lo <= l, h <= hi,
         \A k \in lo..hi : k \notin l..h => C[k] = {}
  PROVE  Covers(s, a, b, C, lo, hi)
<1>1. l..h \subseteq lo..hi
  OBVIOUS
<1> QED
  BY <1>1 DEF Covers

\* A segment has no more entries than there are keys for it.
LEMMA Spread ==
  ASSUME NEW s, NEW C, NEW a \in Int, NEW b \in Int, NEW lo \in Int, NEW hi \in Int,
         a <= b + 1, lo <= hi + 1,
         Covers(s, a, b, C, lo, hi)
  PROVE  b - a <= hi - lo
<1>1. CASE b < a
  BY <1>1
<1>2. CASE b >= a
  <2> DEFINE T == {n \in 0..(b - a) : s[a + n].key >= lo + n}
  <2>1. \A i \in a..b : s[i].key \in lo..hi
    BY DEF Covers
  <2>2. 0 \in T
    <3>1. a \in a..b /\ a + 0 = a /\ lo + 0 = lo
      BY <1>2
    <3> QED
      BY <3>1, <2>1, <1>2
  <2>3. ASSUME NEW n \in 1..(b - a), n - 1 \in T PROVE n \in T
    <3>1. a + (n - 1) \in a..b /\ a + n \in a..b /\ a + (n - 1) < a + n
      OBVIOUS
    <3>2. s[a + (n - 1)].key < s[a + n].key
      BY <3>1 DEF Covers
    <3>3. s[a + (n - 1)].key >= lo + (n - 1)
      BY <2>3
    <3> QED
      BY <3>1, <3>2, <3>3, <2>1
  <2>4. b - a \in T
    <3>1. b - a \in Nat
      BY <1>2
    <3> HIDE DEF T
    <3> QED
      BY <3>1, <2>2, <2>3, BoundedInduction
  <2>5. s[b].key >= lo + (b - a) /\ s[b].key \in lo..hi
    <3>1. a + (b - a) = b /\ b \in a..b
      BY <1>2
    <3> QED
      BY <2>4, <3>1, <2>1
  <2> QED
    BY <2>5
<1> QED
  BY <1>1, <1>2

-----------------------------------------------------------------------------
(* Searches.                                                               *)

\* The constants.
LEMMA Sizes ==
  /\ KeyCount \in Nat \ {0} /\ ChunkSize \in Nat \ {0, 1}
  /\ Keys = 0..(KeyCount - 1) /\ Keys \subseteq Nat
  /\ Lows = 0..(ChunkSize - 1) /\ Lows \subseteq Nat /\ LowMax \in Lows /\ 0 \in Lows
  /\ LowMax = ChunkSize - 1
  BY RoaringArrayAssumption DEF Keys, Lows, LowMax

\* The entries of a segment from the first one with a key below key.
LEMMA CountLess ==
  ASSUME NEW s, NEW n \in Nat, NEW C, NEW hi \in Int, NEW key \in Int,
         Covers(s, 1, n, C, 0, hi)
  PROVE  /\ count_less(s, n, key) \in 0..n
         /\ \A i \in 1..count_less(s, n, key) : s[i].key < key
         /\ \A i \in (count_less(s, n, key) + 1)..n : s[i].key >= key
<1> DEFINE S == {i \in 1..n : s[i].key < key}
           c == Cardinality(S)
<1>1. \A i \in 1..n : s[i].key \in Int
  BY DEF Covers
<1>2. ASSUME NEW i \in S, NEW j \in 1..i PROVE j \in S
  <2>1. j \in 1..n /\ i \in 1..n /\ (j < i \/ j = i)
    OBVIOUS
  <2>2. CASE j < i
    <3>1. s[j].key < s[i].key
      BY <2>1, <2>2 DEF Covers
    <3> QED
      BY <3>1, <2>1, <1>1
  <2> QED
    BY <2>1, <2>2
<1>3. count_less(s, n, key) = c
  BY DEF count_less
<1>4. c \in 0..n /\ S = 1..c
  <2>1. S \in SUBSET (1..n)
    OBVIOUS
  <2> HIDE DEF S
  <2> QED
    BY <1>2, <2>1, InitialIndices
<1> HIDE DEF c
<1>5. \A i \in (c + 1)..n : i \in 1..n /\ i \notin 1..c
  BY <1>4
<1> QED
  BY <1>1, <1>3, <1>4, <1>5

\* The last m of the n entries are the ones above a key.
LastAbove(s, n, key, m) ==
  /\ m \in 0..n
  /\ \A i \in 1..(n - m) : s[i].key <= key
  /\ \A i \in (n - m + 1)..n : s[i].key > key

\* And the entries with a key above key.
LEMMA CountGreater ==
  ASSUME NEW s, NEW n \in Nat, NEW C, NEW hi \in Int, NEW key \in Int,
         Covers(s, 1, n, C, 0, hi)
  PROVE  LastAbove(s, n, key, count_greater(s, n, key))
<1> DEFINE less == count_less(s, n, key + 1)
           S == {i \in 1..n : s[i].key > key}
<1>1. \A i \in 1..n : s[i].key \in Int
  BY DEF Covers
<1>2. /\ less \in 0..n
      /\ \A i \in 1..less : s[i].key < key + 1
      /\ \A i \in (less + 1)..n : s[i].key >= key + 1
  <2>1. key + 1 \in Int
    OBVIOUS
  <2> QED
    BY <2>1, CountLess
<1> HIDE DEF less
<1>3. S = (less + 1)..n
  BY <1>1, <1>2
<1>4. Cardinality((less + 1)..n) = n - less
  <2>1. less + 1 \in Int /\ n \in Int /\ less \in 0..n
    BY <1>2
  <2>2. Cardinality((less + 1)..n) = IF less + 1 > n THEN 0 ELSE n - (less + 1) + 1
    BY <2>1, FS_Interval
  <2> QED
    BY <2>1, <2>2
<1>5. count_greater(s, n, key) = n - less
  BY <1>3, <1>4 DEF count_greater
<1>6. n - (n - less) = less
  BY <1>2
<1>7. \A i \in 1..less : s[i].key <= key
  BY <1>1, <1>2
<1>8. \A i \in (less + 1)..n : s[i].key > key
  BY <1>1, <1>2
<1> QED
  BY <1>2, <1>5, <1>6, <1>7, <1>8 DEF LastAbove

\* What a search in the array of the chunks C says of the chunk of a key, and
\* how it parts the array.
LEMMA Searched ==
  ASSUME NEW r, NEW C, Holds(r, C), NEW key \in Keys
  PROVE  LET i == ra_get_index(r, key)
             at == IF i >= 0 THEN i ELSE -i - 1
         IN  /\ i \in Int /\ at \in 0..Len(r)
             /\ i >= 0 <=> C[key] # {}
             /\ i >= 0 => /\ at + 1 \in 1..Len(r)
                          /\ r[at + 1].key = key /\ r[at + 1].container = C[key]
             /\ Covers(r, 1, at, C, 0, key - 1)
             /\ Covers(r, IF i >= 0 THEN at + 2 ELSE at + 1, Len(r), C, key + 1, KeyCount - 1)
<1> DEFINE n == Len(r)
           less == count_less(r, n, key)
           i == ra_get_index(r, key)
<1>1. n \in Nat /\ key \in Int /\ KeyCount - 1 \in Int /\ 0 <= key /\ key <= KeyCount - 1
  BY Sizes DEF Holds
<1>2. Covers(r, 1, n, C, 0, KeyCount - 1)
  BY DEF Holds
<1>3. /\ less \in 0..n
      /\ \A j \in 1..less : r[j].key < key
      /\ \A j \in (less + 1)..n : r[j].key >= key
  BY <1>1, <1>2, CountLess
<1>4. i = IF less < n /\ r[less + 1].key = key THEN less ELSE -less - 1
  BY DEF ra_get_index
<1> HIDE DEF less, n, i
<1>5. \A j \in 1..n : r[j].key \in 0..(KeyCount - 1)
  BY <1>2 DEF Covers
<1>6. Covers(r, 1, less, C, 0, key - 1) /\ Covers(r, less + 1, n, C, key, KeyCount - 1)
  <2>1. /\ key - 1 \in Int /\ less \in Int /\ 1 <= less + 1 /\ less <= n
        /\ 0 <= (key - 1) + 1 /\ key - 1 <= KeyCount - 1 /\ (key - 1) + 1 = key
    BY <1>1, <1>3
  <2>2. \A j \in 1..less : r[j].key <= key - 1
    BY <1>1, <1>3, <1>5
  <2>3. \A j \in (less + 1)..n : r[j].key > key - 1
    BY <1>1, <1>3, <1>5
  <2> DEFINE low == key - 1
  <2> HIDE DEF low
  <2>4. Covers(r, 1, less, C, 0, low) /\ Covers(r, less + 1, n, C, low + 1, KeyCount - 1)
    BY <1>1, <1>2, <2>1, <2>2, <2>3, Parted DEF low
  <2> QED
    BY <2>1, <2>4 DEF low
<1>7. CASE less < n /\ r[less + 1].key = key
  <2>1. i = less /\ i >= 0 /\ less + 1 \in 1..n /\ (less + 1) + 1 = less + 2
    BY <1>1, <1>3, <1>4, <1>7
  <2>2. r[less + 1].container = C[key] /\ C[key] # {}
    BY <1>2, <1>7, <2>1 DEF Covers
  <2>3. \A j \in (less + 2)..n : r[less + 1].key < r[j].key
    BY <1>1, <1>2, <1>3, <2>1 DEF Covers
  <2>4. Covers(r, less + 2, n, C, key + 1, KeyCount - 1)
    <3> DEFINE first == less + 1
    <3>1. first \in Int /\ first <= n /\ r[first].key = key
      BY <1>1, <1>3, <1>7, <2>1
    <3>2. Covers(r, first, n, C, key, KeyCount - 1)
      BY <1>6
    <3> HIDE DEF first
    <3>3. Covers(r, first + 1, n, C, key + 1, KeyCount - 1)
      BY <1>1, <3>1, <3>2, BehindFirst
    <3> QED
      BY <2>1, <3>3 DEF first
  <2>5. (IF i >= 0 THEN i ELSE -i - 1) = less
    BY <2>1
  <2> QED
    BY <1>3, <1>6, <1>7, <2>1, <2>2, <2>4, <2>5 DEF n, i
<1>8. CASE ~(less < n /\ r[less + 1].key = key)
  <2>1. i = -less - 1 /\ ~(i >= 0) /\ -i - 1 = less /\ i \in Int
    BY <1>1, <1>3, <1>4, <1>8
  <2>2. \A j \in (less + 1)..n : r[j].key > key
    <3>1. SUFFICES ASSUME NEW j \in (less + 1)..n PROVE r[j].key > key
      OBVIOUS
    <3>2. less < n /\ less + 1 \in 1..n /\ j \in 1..n
      BY <1>1, <1>3
    <3>3. r[less + 1].key > key
      BY <1>8, <1>3, <3>2, <1>1, <1>5
    <3>4. CASE j = less + 1
      BY <3>3, <3>4
    <3>5. CASE j # less + 1
      <4>1. less + 1 < j
        BY <3>5, <1>1, <1>3
      <4>2. r[less + 1].key < r[j].key
        BY <4>1, <3>2, <1>2 DEF Covers
      <4> QED
        BY <4>2, <3>2, <3>3, <1>1, <1>5
    <3> QED
      BY <3>4, <3>5
  <2>3. C[key] = {}
    <3>1. SUFFICES ASSUME C[key] # {} PROVE FALSE
      OBVIOUS
    <3>2. key \in key..(KeyCount - 1)
      BY <1>1
    <3>3. PICK j \in (less + 1)..n : r[j].key = key
      BY <1>6, <3>1, <3>2 DEF Covers
    <3> QED
      BY <2>2, <3>3, <1>1
  <2>4. Covers(r, less + 1, n, C, key + 1, KeyCount - 1)
    <3> DEFINE top == KeyCount - 1
    <3>1. /\ less + 1 \in Int /\ top \in Int /\ key + 1 \in Int /\ key <= key + 1 /\ top <= top
          /\ \A k \in key..top : k \notin (key + 1)..top => k = key
      BY <1>1, <1>3
    <3>2. Covers(r, less + 1, n, C, key, top)
      BY <1>6
    <3> HIDE DEF top
    <3>3. Covers(r, less + 1, n, C, key + 1, top)
      BY <1>1, <2>3, <3>1, <3>2, Trimmed
    <3> QED
      BY <3>3 DEF top
  <2>5. (IF i >= 0 THEN i ELSE -i - 1) = less
    BY <2>1
  <2> QED
    BY <1>3, <1>6, <2>1, <2>3, <2>4, <2>5 DEF n, i
<1> QED
  BY <1>7, <1>8

-----------------------------------------------------------------------------
(* Single entries.                                                         *)

\* An array put together around the entry of one key, or around none.
LEMMA AroundEntry ==
  ASSUME NEW t \in Seq(Rows), NEW C \in Chunks, NEW key \in Keys, NEW q \in Nat,
         q + 1 <= Len(t),
         Covers(t, 1, q, C, 0, key - 1),
         t[q + 1].key = key, t[q + 1].container = C[key], C[key] # {},
         Covers(t, q + 2, Len(t), C, key + 1, KeyCount - 1)
  PROVE  Holds(t, C)
<1> DEFINE n == Len(t)
           top == KeyCount - 1
           p == q + 1
           low == key - 1
<1>1. /\ n \in Int /\ top \in Int /\ key \in Int /\ p \in Int /\ q \in Int /\ low \in Int
      /\ 0 <= key /\ key <= top /\ low + 1 = key /\ q + 1 = p /\ p + 1 = q + 2 /\ p <= n /\ 1 <= p
  BY Sizes
<1>2. Covers(t, 1, q, C, 0, low) /\ Covers(t, p + 1, n, C, key + 1, top)
  BY <1>1
<1>3. Covers(t, p, p, C, key, key)
  BY <1>1, OneEntry
<1> HIDE DEF n, top, p, low
<1>4. Covers(t, 1, p, C, 0, key)
  <2>1. Covers(t, q + 1, p, C, low + 1, key)
    BY <1>1, <1>3
  <2>2. 1 <= q + 1 /\ q <= p /\ 0 <= low + 1 /\ low <= key
    BY <1>1
  <2> QED
    BY <1>1, <1>2, <2>1, <2>2, Joined
<1>5. Covers(t, 1, n, C, 0, top)
  <2>1. 1 <= p + 1 /\ 0 <= key + 1
    BY <1>1
  <2> QED
    BY <1>1, <1>2, <1>4, <2>1, Joined
<1> QED
  BY <1>5 DEF Holds, n, top

\* Two segments around a key that has no chunk are the whole array.
LEMMA AroundNone ==
  ASSUME NEW t \in Seq(Rows), NEW C \in Chunks, NEW key \in Keys, NEW q \in Nat,
         q <= Len(t), C[key] = {},
         Covers(t, 1, q, C, 0, key - 1),
         Covers(t, q + 1, Len(t), C, key + 1, KeyCount - 1)
  PROVE  Holds(t, C)
<1> DEFINE n == Len(t)
           top == KeyCount - 1
           low == key - 1
<1>1. /\ n \in Int /\ top \in Int /\ key \in Int /\ q \in Int /\ low \in Int /\ key - 1 \in Int
      /\ 0 <= key /\ key <= top /\ low <= key /\ q <= n /\ 1 <= q + 1 /\ 0 <= key + 1
      /\ \A k \in 0..key : k \notin 0..low => k = key
  BY Sizes
<1>2. Covers(t, 1, q, C, 0, low) /\ Covers(t, q + 1, n, C, key + 1, top)
  OBVIOUS
<1> HIDE DEF n, top, low
<1>3. Covers(t, 1, q, C, 0, key)
  BY <1>1, <1>2, Extended
<1>4. Covers(t, 1, n, C, 0, top)
  BY <1>1, <1>2, <1>3, Joined
<1> QED
  BY <1>4 DEF Holds, n, top

\* The chunks with one of them replaced.
With(C, key, c) == [C EXCEPT ![key] = c]

\* What they are.
LEMMA ReplacedChunk ==
  ASSUME NEW C \in Chunks, NEW key \in Keys, NEW c \in SUBSET Lows,
         NEW D, D = With(C, key, c)
  PROVE  /\ D \in Chunks /\ D[key] = c
         /\ \A k \in 0..(key - 1) : D[k] = C[k]
         /\ \A k \in (key + 1)..(KeyCount - 1) : D[k] = C[k]
  BY Sizes DEF Chunks, With

\* Replacing the container of a chunk, giving a chunk its first container, and
\* taking its container away.
LEMMA Replaced ==
  ASSUME NEW r, NEW C, Holds(r, C), NEW key \in Keys, NEW c \in SUBSET Lows, c # {},
         C[key] # {}
  PROVE  LET p == ra_get_index(r, key) + 1
         IN  /\ p \in 1..Len(r)
             /\ Holds([r EXCEPT ![p].container = c], With(C, key, c))
<1> DEFINE q == ra_get_index(r, key)
           n == Len(r)
           top == KeyCount - 1
           D == With(C, key, c)
           t == [r EXCEPT ![q + 1].container = c]
<1>1. /\ q \in 0..n /\ q + 1 \in 1..n
      /\ r[q + 1].key = key
      /\ Covers(r, 1, q, C, 0, key - 1)
      /\ Covers(r, q + 2, n, C, key + 1, top)
  BY Searched
<1>2. r \in Seq(Rows) /\ C \in Chunks /\ n \in Nat /\ top \in Int /\ key \in Int
  BY Sizes DEF Holds
<1>3. /\ D \in Chunks /\ D[key] = c
      /\ \A k \in 0..(key - 1) : D[k] = C[k]
      /\ \A k \in (key + 1)..(KeyCount - 1) : D[k] = C[k]
  <2>1. D = With(C, key, c)
    OBVIOUS
  <2> HIDE DEF D
  <2> QED
    BY <1>2, <2>1, ReplacedChunk
<1>4. c \in SUBSET Int
  BY Sizes
<1> HIDE DEF q, D
<1>5. /\ t \in Seq(Rows) /\ Len(t) = n
      /\ t[q + 1].key = key /\ t[q + 1].container = c
      /\ \A i \in 1..n : i # q + 1 => t[i] = r[i]
  <2>1. r[q + 1] \in Rows /\ [r[q + 1] EXCEPT !.container = c] \in Rows
    <3>1. r[q + 1] \in Rows
      BY <1>1, <1>2
    <3> DEFINE e == r[q + 1]
    <3> HIDE DEF e
    <3>2. e \in Rows => [e EXCEPT !.container = c] \in Rows
      BY <1>4 DEF Rows
    <3> QED
      BY <3>1, <3>2 DEF e
  <2>2. t = [r EXCEPT ![q + 1] = [r[q + 1] EXCEPT !.container = c]]
    OBVIOUS
  <2>3. /\ [r[q + 1] EXCEPT !.container = c].key = key
        /\ [r[q + 1] EXCEPT !.container = c].container = c
    BY <1>1, <1>2 DEF Rows
  <2> QED
    BY <1>1, <1>2, <2>1, <2>2, <2>3
<1> HIDE DEF t, n
<1>6. Covers(t, 1, q, D, 0, key - 1)
  <2>1. \A i \in 1..q : t[i] = r[i]
    BY <1>1, <1>2, <1>5
  <2>2. key - 1 \in Int /\ q \in Int
    BY <1>1, <1>2
  <2> QED
    BY <1>1, <1>3, <2>1, <2>2, Unmoved
<1>7. Covers(t, q + 2, n, D, key + 1, top)
  <2>1. \A i \in (q + 2)..n : t[i] = r[i]
    BY <1>1, <1>2, <1>5
  <2>2. key + 1 \in Int /\ q + 2 \in Int
    BY <1>1, <1>2
  <2> QED
    BY <1>1, <1>2, <1>3, <2>1, <2>2, Unmoved
<1>8. Holds(t, D)
  BY <1>1, <1>3, <1>5, <1>6, <1>7, AroundEntry
<1> QED
  BY <1>1, <1>8 DEF q, t, D, n

\* A row inserted at the place of its key.
LEMMA Inserted ==
  ASSUME NEW r, NEW C, Holds(r, C), NEW key \in Keys, NEW c \in SUBSET Lows, c # {},
         C[key] = {}
  PROVE  Holds(ra_insert_new_key_value_at(r, -ra_get_index(r, key) - 1, key, c),
               With(C, key, c))
<1> DEFINE q == -ra_get_index(r, key) - 1
           n == Len(r)
           top == KeyCount - 1
           D == With(C, key, c)
           t == ra_insert_new_key_value_at(r, q, key, c)
<1>1. /\ q \in 0..n
      /\ Covers(r, 1, q, C, 0, key - 1)
      /\ Covers(r, q + 1, n, C, key + 1, top)
  BY Searched
<1>2. r \in Seq(Rows) /\ C \in Chunks /\ n \in Nat /\ top \in Int /\ key \in Int
  BY Sizes DEF Holds
<1>3. /\ D \in Chunks /\ D[key] = c
      /\ \A k \in 0..(key - 1) : D[k] = C[k]
      /\ \A k \in (key + 1)..(KeyCount - 1) : D[k] = C[k]
  <2>1. D = With(C, key, c)
    OBVIOUS
  <2> HIDE DEF D
  <2> QED
    BY <1>2, <2>1, ReplacedChunk
<1>4. Entry(key, c) \in Rows /\ Entry(key, c).key = key /\ Entry(key, c).container = c
  BY <1>2, Sizes DEF Entry, Rows
<1> HIDE DEF q, D
<1>5. t = InsertAt(r, q + 1, Entry(key, c))
  BY DEF ra_insert_new_key_value_at
<1> HIDE DEF t
<1>6. /\ t \in Seq(Rows) /\ Len(t) = n + 1
      /\ \A i \in 1..q : t[i] = r[i]
      /\ t[q + 1] = Entry(key, c)
      /\ \A i \in (q + 1)..n : t[i + 1] = r[i]
  <2> DEFINE e == Entry(key, c)
         j == q + 1
  <2>1. /\ e \in Rows /\ t = InsertAt(r, j, e) /\ r \in Seq(Rows)
        /\ j \in 1..(Len(r) + 1) /\ j - 1 = q
    BY <1>1, <1>2, <1>4, <1>5
  <2> HIDE DEF e, j
  <2>2. OneMore(Rows, t, r, j, e)
    BY <2>1, InsertFacts
  <2>3. /\ t \in Seq(Rows) /\ Len(t) = Len(r) + 1
        /\ \A i \in 1..(j - 1) : t[i] = r[i]
        /\ t[j] = e
        /\ \A i \in j..Len(r) : t[i + 1] = r[i]
    BY <2>2 DEF OneMore
  <2> QED
    BY <2>1, <2>3 DEF e, j
<1> HIDE DEF n
<1>7. Covers(t, 1, q, D, 0, key - 1)
  <2>1. key - 1 \in Int /\ q \in Int
    BY <1>1, <1>2
  <2> QED
    BY <1>1, <1>3, <1>6, <2>1, Unmoved
<1>8. Covers(t, q + 2, n + 1, D, key + 1, top)
  <2>1. key + 1 \in Int /\ q + 1 \in Int /\ (q + 1) + 1 = q + 2 /\ n \in Int
    BY <1>1, <1>2
  <2> DEFINE f == q + 1
             d == 1
  <2>2. /\ f \in Int /\ Covers(r, f, n, C, key + 1, top)
        /\ Moves(r, t, f, n, d)
    BY <1>1, <1>6, <2>1 DEF Moves
  <2>3. /\ q + 2 \in Int /\ n + 1 \in Int /\ q + 2 = f + d /\ n + 1 = n + d /\ d \in Int
    BY <1>1, <1>2
  <2> HIDE DEF f, d
  <2> QED
    BY <1>2, <1>3, <2>1, <2>2, <2>3, Shifted
<1>9. Holds(t, D)
  <2>1. q \in Nat /\ q + 1 <= n + 1
    BY <1>1, <1>2
  <2> QED
    BY <1>3, <1>4, <1>6, <1>7, <1>8, <2>1, AroundEntry
<1> QED
  BY <1>9 DEF q, t, D

\* A row removed where its key is.
LEMMA Removed ==
  ASSUME NEW r, NEW C, Holds(r, C), NEW key \in Keys, C[key] # {}
  PROVE  Holds(ra_remove_at_index(r, ra_get_index(r, key)), With(C, key, {}))
<1> DEFINE q == ra_get_index(r, key)
           n == Len(r)
           top == KeyCount - 1
           D == With(C, key, {})
           t == ra_remove_at_index(r, q)
<1>1. /\ q \in 0..n /\ q + 1 \in 1..n
      /\ Covers(r, 1, q, C, 0, key - 1)
      /\ Covers(r, q + 2, n, C, key + 1, top)
  BY Searched
<1>2. r \in Seq(Rows) /\ C \in Chunks /\ n \in Nat /\ top \in Int /\ key \in Int
  BY Sizes DEF Holds
<1>3. /\ D \in Chunks /\ D[key] = {}
      /\ \A k \in 0..(key - 1) : D[k] = C[k]
      /\ \A k \in (key + 1)..(KeyCount - 1) : D[k] = C[k]
  <2>1. D = With(C, key, {})
    OBVIOUS
  <2>2. {} \in SUBSET Lows
    OBVIOUS
  <2> HIDE DEF D
  <2> QED
    BY <1>2, <2>1, <2>2, ReplacedChunk
<1> HIDE DEF q, D
<1> DEFINE p == q + 1
<1>4. p \in 1..n /\ p - 1 = q /\ p + 1 = q + 2 /\ t = RemoveAt(r, p)
  BY <1>1, <1>2 DEF ra_remove_at_index
<1> HIDE DEF p, t
<1>5. /\ t \in Seq(Rows) /\ Len(t) = n - 1
      /\ \A i \in 1..(p - 1) : t[i] = r[i]
      /\ \A i \in (p + 1)..n : t[i - 1] = r[i]
  <2>1. OneLess(Rows, t, r, p)
    <3>1. r \in Seq(Rows) /\ p \in 1..Len(r)
      BY <1>2, <1>4
    <3> QED
      BY <1>4, <3>1, RemoveFacts
  <2> QED
    BY <2>1 DEF OneLess
<1> HIDE DEF n
<1>6. Covers(t, 1, q, D, 0, key - 1)
  <2>1. key - 1 \in Int /\ q \in Int
    BY <1>1, <1>2
  <2> QED
    BY <1>1, <1>3, <1>4, <1>5, <2>1, Unmoved
<1>7. Covers(t, q + 1, n - 1, D, key + 1, top)
  <2>1. /\ key + 1 \in Int /\ q + 2 \in Int /\ (q + 2) + (-1) = q + 1 /\ n \in Int
        /\ n + (-1) = n - 1 /\ -1 \in Int
    BY <1>1, <1>2
  <2> DEFINE f == q + 2
             d == -1
  <2>2. \A i \in f..n : i + d = i - 1
    BY <1>2, <2>1
  <2>3. Moves(r, t, f, n, d)
    BY <1>4, <1>5, <2>2 DEF Moves
  <2>4. f \in Int /\ d \in Int /\ Covers(r, f, n, C, key + 1, top)
    BY <1>1, <2>1
  <2> HIDE DEF f, d
  <2>5. q + 1 \in Int /\ n - 1 \in Int /\ q + 1 = f + d /\ n - 1 = n + d
    BY <1>1, <1>2 DEF f, d
  <2> QED
    BY <1>2, <1>3, <2>1, <2>3, <2>4, <2>5, Shifted
<1>8. Holds(t, D)
  <2>1. q \in Nat /\ q <= n - 1
    BY <1>1, <1>2
  <2> QED
    BY <1>3, <1>5, <1>6, <1>7, <2>1, AroundNone
<1> QED
  BY <1>8 DEF q, t, D

\* Replacing a chunk by itself changes nothing.
LEMMA WithItself ==
  ASSUME NEW C \in Chunks, NEW key \in Keys
  PROVE  With(C, key, C[key]) = C
  BY DEF With, Chunks

\* A chunk is a set of low halves.
LEMMA ChunkType ==
  ASSUME NEW r, NEW C, Holds(r, C), NEW key \in Keys
  PROVE  r \in Seq(Rows) /\ C \in Chunks /\ C[key] \in SUBSET Lows
  BY DEF Holds, Chunks

\* What the calls on one value, and on the part of a range that falls into one
\* chunk, do to the chunk.
LEMMA AddedTo ==
  ASSUME NEW r, NEW C, Holds(r, C), NEW x, High(x) \in Keys, Low(x) \in Lows
  PROVE  Holds(roaring_bitmap_add(r, x), With(C, High(x), C[High(x)] \cup {Low(x)}))
<1> DEFINE key == High(x)
           i == ra_get_index(r, key)
           c == C[key] \cup {Low(x)}
<1>1. key \in Keys /\ c \in SUBSET Lows /\ c # {} /\ r \in Seq(Rows) /\ C \in Chunks
  BY ChunkType
<1>2. CASE i >= 0
  <2>1. C[key] # {} /\ r[i + 1].container = C[key]
    BY <1>1, <1>2, Searched
  <2>2. i + 1 \in 1..Len(r) /\ Holds([r EXCEPT ![i + 1].container = c], With(C, key, c))
    <3> HIDE DEF key, c
    <3> QED
      BY <1>1, <2>1, Replaced DEF i
  <2>3. roaring_bitmap_add(r, x) = [r EXCEPT ![i + 1].container = c]
    BY <1>2, <2>1 DEF roaring_bitmap_add
  <2> QED
    BY <2>2, <2>3
<1>3. CASE ~(i >= 0)
  <2>1. C[key] = {}
    BY <1>1, <1>3, Searched
  <2>2. c = {Low(x)}
    BY <2>1
  <2>3. Holds(ra_insert_new_key_value_at(r, -i - 1, key, c), With(C, key, c))
    <3> HIDE DEF key, c
    <3> QED
      BY <1>1, <2>1, Inserted DEF i
  <2>4. roaring_bitmap_add(r, x) = ra_insert_new_key_value_at(r, -i - 1, key, c)
    BY <1>3, <2>2 DEF roaring_bitmap_add
  <2> QED
    BY <2>3, <2>4
<1> QED
  BY <1>2, <1>3

\* A value removed, with the row that gets empty.
LEMMA RemovedFrom ==
  ASSUME NEW r, NEW C, Holds(r, C), NEW x, High(x) \in Keys
  PROVE  Holds(roaring_bitmap_remove(r, x), With(C, High(x), C[High(x)] \ {Low(x)}))
<1> DEFINE key == High(x)
           i == ra_get_index(r, key)
           c == C[key] \ {Low(x)}
<1>1. key \in Keys /\ c \in SUBSET Lows /\ r \in Seq(Rows) /\ C \in Chunks /\ i \in Int
  BY ChunkType, Searched
<1>2. CASE i >= 0
  <2>1. C[key] # {} /\ r[i + 1].container = C[key] /\ ~(i < 0)
    BY <1>1, <1>2, Searched
  <2>2. CASE c # {}
    <3>1. i + 1 \in 1..Len(r) /\ Holds([r EXCEPT ![i + 1].container = c], With(C, key, c))
      <4> HIDE DEF key, c
      <4> QED
        BY <1>1, <2>1, <2>2, Replaced DEF i
    <3>2. roaring_bitmap_remove(r, x) = [r EXCEPT ![i + 1].container = c]
      BY <2>1, <2>2 DEF roaring_bitmap_remove
    <3> QED
      BY <3>1, <3>2
  <2>3. CASE c = {}
    <3>1. Holds(ra_remove_at_index(r, i), With(C, key, {}))
      <4> HIDE DEF key
      <4> QED
        BY <1>1, <2>1, Removed DEF i
    <3>2. roaring_bitmap_remove(r, x) = ra_remove_at_index(r, i)
      BY <2>1, <2>3 DEF roaring_bitmap_remove
    <3> QED
      BY <2>3, <3>1, <3>2
  <2> QED
    BY <2>2, <2>3
<1>3. CASE ~(i >= 0)
  <2>1. C[key] = {} /\ i < 0
    BY <1>1, <1>3, Searched
  <2>2. c = C[key]
    BY <2>1
  <2>3. roaring_bitmap_remove(r, x) = r
    BY <2>1 DEF roaring_bitmap_remove
  <2> QED
    BY <1>1, <2>2, <2>3, WithItself
<1> QED
  BY <1>2, <1>3

\* The flip of a part of one container in place.
LEMMA FlippedInPlace ==
  ASSUME NEW r, NEW C, Holds(r, C), NEW hb \in Keys, NEW s, NEW e,
         s..e \in SUBSET Lows, s..e # {}
  PROVE  Holds(inplace_flip_container(r, hb, s, e), With(C, hb, SymDiff(C[hb], s..e)))
<1> DEFINE i == ra_get_index(r, hb)
           c == SymDiff(C[hb], s..e)
<1>1. c \in SUBSET Lows /\ r \in Seq(Rows) /\ C \in Chunks /\ i \in Int
  BY ChunkType, Searched DEF SymDiff
<1>2. CASE i >= 0
  <2>1. C[hb] # {} /\ r[i + 1].container = C[hb] /\ ~(i < 0)
    BY <1>1, <1>2, Searched
  <2>2. CASE c # {}
    <3>1. i + 1 \in 1..Len(r) /\ Holds([r EXCEPT ![i + 1].container = c], With(C, hb, c))
      <4> HIDE DEF c
      <4> QED
        BY <1>1, <2>1, <2>2, Replaced DEF i
    <3>2. inplace_flip_container(r, hb, s, e) = [r EXCEPT ![i + 1].container = c]
      BY <2>1, <2>2 DEF inplace_flip_container
    <3> QED
      BY <3>1, <3>2
  <2>3. CASE c = {}
    <3>1. Holds(ra_remove_at_index(r, i), With(C, hb, {}))
      BY <1>1, <2>1, Removed DEF i
    <3>2. inplace_flip_container(r, hb, s, e) = ra_remove_at_index(r, i)
      BY <2>1, <2>3 DEF inplace_flip_container
    <3> QED
      BY <2>3, <3>1, <3>2
  <2> QED
    BY <2>2, <2>3
<1>3. CASE ~(i >= 0)
  <2>1. C[hb] = {} /\ i < 0
    BY <1>1, <1>3, Searched
  <2>2. c = s..e /\ c # {}
    BY <2>1 DEF SymDiff
  <2>3. Holds(ra_insert_new_key_value_at(r, -i - 1, hb, c), With(C, hb, c))
    <3> HIDE DEF c
    <3> QED
      BY <1>1, <2>1, <2>2, Inserted DEF i
  <2>4. inplace_flip_container(r, hb, s, e) = ra_insert_new_key_value_at(r, -i - 1, hb, c)
    BY <2>1, <2>2 DEF inplace_flip_container
  <2> QED
    BY <2>3, <2>4
<1> QED
  BY <1>2, <1>3

\* The flip of a part of one container into another array.
LEMMA FlippedInto ==
  ASSUME NEW r, NEW C, Holds(r, C), NEW ans, NEW D, Holds(ans, D), NEW hb \in Keys, D[hb] = {},
         NEW s, NEW e, s..e \in SUBSET Lows, s..e # {}
  PROVE  Holds(insert_flipped_container(ans, r, hb, s, e), With(D, hb, SymDiff(C[hb], s..e)))
<1> DEFINE i == ra_get_index(r, hb)
           j == ra_get_index(ans, hb)
           c == SymDiff(C[hb], s..e)
<1>1. c \in SUBSET Lows /\ D \in Chunks /\ i \in Int
  BY ChunkType, Searched DEF SymDiff
<1>2. c # {} => Holds(ra_insert_new_key_value_at(ans, -j - 1, hb, c), With(D, hb, c))
  <2> HIDE DEF c
  <2> QED
    BY <1>1, Inserted DEF j
<1>3. CASE i >= 0
  <2>1. C[hb] # {} /\ r[i + 1].container = C[hb] /\ ~(i < 0)
    BY <1>1, <1>3, Searched
  <2>2. insert_flipped_container(ans, r, hb, s, e)
          = IF c # {} THEN ra_insert_new_key_value_at(ans, -j - 1, hb, c) ELSE ans
    BY <2>1 DEF insert_flipped_container
  <2>3. c = {} => With(D, hb, c) = D
    <3> HIDE DEF c
    <3> QED
      BY <1>1, WithItself
  <2>4. Holds(insert_flipped_container(ans, r, hb, s, e), With(D, hb, c))
    <3> HIDE DEF c
    <3> QED
      BY <1>2, <2>2, <2>3
  <2> QED
    BY <2>4
<1>4. CASE ~(i >= 0)
  <2>1. C[hb] = {} /\ i < 0
    BY <1>1, <1>4, Searched
  <2>2. c = s..e /\ c # {}
    BY <2>1 DEF SymDiff
  <2>3. insert_flipped_container(ans, r, hb, s, e)
          = ra_insert_new_key_value_at(ans, -j - 1, hb, c)
    BY <2>1, <2>2 DEF insert_flipped_container
  <2> QED
    BY <1>2, <2>2, <2>3
<1> QED
  BY <1>3, <1>4

-----------------------------------------------------------------------------
-----------------------------------------------------------------------------
(* Values, ranges and their halves.                                        *)

Uint32 == 0..(Universe - 1)

\* The halves of a value.
LEMMA HalvesOf ==
  ASSUME NEW x \in Uint32
  PROVE  /\ High(x) \in Keys /\ Low(x) \in Lows
         /\ x = High(x) * ChunkSize + Low(x)
<1>1. KeyCount \in Nat \ {0} /\ ChunkSize \in Nat \ {0} /\ x \in 0..(KeyCount * ChunkSize - 1)
  BY Sizes DEF Uint32, Universe
<1>2. x \div ChunkSize \in 0..(KeyCount - 1)
  BY <1>1, OutOfProduct
<1>3. x \in Nat
  BY DEF Uint32
<1>4. x % ChunkSize \in 0..(ChunkSize - 1) /\ x = (x \div ChunkSize) * ChunkSize + (x % ChunkSize)
  BY <1>1, <1>3, Divided
<1> QED
  BY <1>2, <1>4, Sizes DEF High, Low

\* The value of two halves.
LEMMA ValueOf ==
  ASSUME NEW k \in Keys, NEW v \in Lows
  PROVE  /\ k * ChunkSize + v \in Uint32
         /\ High(k * ChunkSize + v) = k /\ Low(k * ChunkSize + v) = v
<1>1. KeyCount \in Nat \ {0} /\ ChunkSize \in Nat \ {0} /\ k \in 0..(KeyCount - 1) /\ v \in 0..(ChunkSize - 1)
  BY Sizes
<1>2. k * ChunkSize + v \in 0..(KeyCount * ChunkSize - 1)
  BY <1>1, InProduct
<1>3. (k * ChunkSize + v) \div ChunkSize = k /\ (k * ChunkSize + v) % ChunkSize = v
  <2>1. k \in Nat
    BY <1>1
  <2> QED
    BY <1>1, <2>1, ToHalves
<1> QED
  BY <1>2, <1>3 DEF High, Low, Uint32, Universe

\* The order of values is that of their high halves, then of their low ones.
LEMMA HalvesOrder ==
  ASSUME NEW x \in Uint32, NEW y \in Uint32
  PROVE  x <= y <=> High(x) < High(y) \/ (High(x) = High(y) /\ Low(x) <= Low(y))
<1> DEFINE n == ChunkSize
           p == High(x)
           q == High(y)
           v == Low(x)
           w == Low(y)
<1>1. /\ n \in Nat \ {0} /\ p \in Nat /\ q \in Nat /\ v \in 0..(n - 1) /\ w \in 0..(n - 1)
      /\ x = p * n + v /\ y = q * n + w
  BY HalvesOf, Sizes
<1> HIDE DEF n, p, q, v, w
<1>2. p * n + v <= q * n + w <=> p < q \/ (p = q /\ v <= w)
  BY <1>1, UniqueDivision, OrderedDivision
<1> QED
  BY <1>1, <1>2 DEF p, q, v, w

\* The keys of a range and the parts of it.
LEMMA RangeKeys ==
  ASSUME NEW min \in Uint32, NEW max \in Uint32, min <= max
  PROVE  /\ High(min) \in Keys /\ High(max) \in Keys /\ High(min) <= High(max)
         /\ High(min)..High(max) \subseteq Keys
         /\ \A k \in High(min)..High(max) :
              PartOf(min, max, k) \in SUBSET Lows /\ PartOf(min, max, k) # {}
<1>1. /\ High(min) \in Keys /\ High(max) \in Keys
      /\ Low(min) \in Lows /\ Low(max) \in Lows
      /\ High(min) < High(max) \/ (High(min) = High(max) /\ Low(min) <= Low(max))
  BY HalvesOf, HalvesOrder
<1> DEFINE p == High(min)
           q == High(max)
           v == Low(min)
           w == Low(max)
<1>2. /\ p \in 0..(KeyCount - 1) /\ q \in 0..(KeyCount - 1)
      /\ v \in 0..(ChunkSize - 1) /\ w \in 0..(ChunkSize - 1)
      /\ p < q \/ (p = q /\ v <= w)
      /\ KeyCount \in Nat /\ ChunkSize \in Nat \ {0, 1}
  BY <1>1, Sizes
<1> HIDE DEF p, q, v, w
<1>3. p <= q /\ p..q \subseteq 0..(KeyCount - 1)
  BY <1>2
<1>4. ASSUME NEW k \in p..q
      PROVE  PartOf(min, max, k) \in SUBSET Lows /\ PartOf(min, max, k) # {}
  <2> DEFINE from == IF k = p THEN v ELSE 0
             to == IF k = q THEN w ELSE ChunkSize - 1
  <2>1. from \in 0..(ChunkSize - 1) /\ to \in 0..(ChunkSize - 1) /\ from <= to
    BY <1>2
  <2>2. PartOf(min, max, k) = from..to
    BY Sizes DEF PartOf, p, q, v, w
  <2> HIDE DEF from, to
  <2>3. from..to \in SUBSET (0..(ChunkSize - 1)) /\ from \in from..to
    BY <2>1, <1>2
  <2> QED
    BY <2>2, <2>3, Sizes
<1> QED
  BY <1>1, <1>3, <1>4, Sizes DEF p, q

-----------------------------------------------------------------------------
(* Flips.                                                                  *)

\* The chunks with the part of the range start .. end below key flipped, and
\* those of a copy that has got so far.
Flipped(C, start, end, key) ==
  [h \in Keys |-> IF h \in High(start)..High(end) /\ h < key
                  THEN SymDiff(C[h], PartOf(start, end, h)) ELSE C[h]]

Copied(C, start, end, key) ==
  [h \in Keys |-> IF h < key THEN Flipped(C, start, end, key)[h] ELSE {}]

\* How they go on.
LEMMA NextFlipped ==
  ASSUME NEW C \in Chunks, NEW start \in Uint32, NEW end \in Uint32, start <= end,
         NEW k \in High(start)..High(end)
  PROVE  /\ Flipped(C, start, end, k) \in Chunks
         /\ Flipped(C, start, end, k)[k] = C[k]
         /\ With(Flipped(C, start, end, k), k, SymDiff(C[k], PartOf(start, end, k)))
              = Flipped(C, start, end, k + 1)
         /\ Copied(C, start, end, k) \in Chunks
         /\ Copied(C, start, end, k)[k] = {}
         /\ With(Copied(C, start, end, k), k, SymDiff(C[k], PartOf(start, end, k)))
              = Copied(C, start, end, k + 1)
<1> DEFINE p == High(start)
           q == High(end)
           F == Flipped(C, start, end, k)
           G == Flipped(C, start, end, k + 1)
           H == Copied(C, start, end, k)
           K == Copied(C, start, end, k + 1)
           c == SymDiff(C[k], PartOf(start, end, k))
<1>1. /\ k \in Keys /\ k \in p..q /\ p \in Int /\ q \in Int /\ k \in Int /\ Keys \subseteq Int
      /\ \A h \in p..q : PartOf(start, end, h) \in SUBSET Lows
  BY RangeKeys, Sizes
<1>2. \A h \in Keys : C[h] \in SUBSET Lows
  BY DEF Chunks
<1>3. \A h \in p..q : h \in Keys => SymDiff(C[h], PartOf(start, end, h)) \in SUBSET Lows
  BY <1>1, <1>2 DEF SymDiff
<1>4. F \in Chunks /\ G \in Chunks
  BY <1>2, <1>3 DEF Chunks, Flipped
<1>5. \A h \in Keys : h # k => G[h] = F[h]
  BY <1>1 DEF Flipped
<1>6. F[k] = C[k] /\ G[k] = c
  BY <1>1 DEF Flipped
<1> HIDE DEF p, q, F, G, c
<1>7. With(F, k, c) = G
  <2>1. \A h \in Keys : [F EXCEPT ![k] = c][h] = G[h]
    BY <1>1, <1>4, <1>5, <1>6 DEF Chunks
  <2> QED
    BY <2>1, <1>4 DEF With, Chunks
<1>8. H = [h \in Keys |-> IF h < k THEN F[h] ELSE {}] /\ K = [h \in Keys |-> IF h < k + 1 THEN G[h] ELSE {}]
  BY DEF Copied, F, G
<1> HIDE DEF H, K
<1>9. H \in Chunks /\ K \in Chunks /\ H[k] = {} /\ K[k] = c
  <2>1. \A h \in Keys : F[h] \in SUBSET Lows /\ G[h] \in SUBSET Lows
    BY <1>4 DEF Chunks
  <2> QED
    BY <1>1, <1>6, <1>8, <2>1 DEF Chunks
<1>10. \A h \in Keys : h # k => K[h] = H[h]
  BY <1>1, <1>5, <1>8
<1>11. With(H, k, c) = K
  <2>1. \A h \in Keys : [H EXCEPT ![k] = c][h] = K[h]
    BY <1>1, <1>9, <1>10 DEF Chunks
  <2> QED
    BY <2>1, <1>9 DEF With, Chunks
<1> QED
  BY <1>4, <1>6, <1>7, <1>9, <1>11 DEF F, G, H, K, c

\* One turn of each of the two flips.
LEMMA TurnInPlace ==
  ASSUME NEW C \in Chunks, NEW start \in Uint32, NEW end \in Uint32, start <= end,
         NEW k \in High(start)..High(end), NEW s, NEW e, s..e = PartOf(start, end, k),
         NEW b, Holds(b, Flipped(C, start, end, k))
  PROVE  Holds(inplace_flip_container(b, k, s, e), Flipped(C, start, end, k + 1))
<1> DEFINE F == Flipped(C, start, end, k)
<1>1. k \in Keys /\ s..e \in SUBSET Lows /\ s..e # {}
  BY RangeKeys
<1>2. Holds(inplace_flip_container(b, k, s, e), With(F, k, SymDiff(F[k], s..e)))
  <2> HIDE DEF F
  <2>1. Holds(b, F)
    BY DEF F
  <2> QED
    BY <1>1, <2>1, FlippedInPlace
<1> QED
  BY <1>2, NextFlipped

\* One turn of a flip into a copy does one key more.
LEMMA TurnInto ==
  ASSUME NEW C \in Chunks, NEW start \in Uint32, NEW end \in Uint32, start <= end,
         NEW k \in High(start)..High(end), NEW s, NEW e, s..e = PartOf(start, end, k),
         NEW r, Holds(r, C), NEW b, Holds(b, Copied(C, start, end, k))
  PROVE  Holds(insert_flipped_container(b, r, k, s, e), Copied(C, start, end, k + 1))
<1> DEFINE D == Copied(C, start, end, k)
<1>0. k \in Keys /\ s..e \in SUBSET Lows /\ s..e # {}
  BY RangeKeys
<1>1. D[k] = {}
  BY NextFlipped
<1>2. Holds(insert_flipped_container(b, r, k, s, e), With(D, k, SymDiff(C[k], s..e)))
  <2> HIDE DEF D
  <2>1. Holds(b, D)
    BY DEF D
  <2> QED
    BY <1>0, <1>1, <2>1, FlippedInto
<1> QED
  BY <1>2, NextFlipped

\* The turns over the chunks lo .. hi, which lie in the range as a whole.
FullInPlace(a, lo, hi) ==
  FoldLeft(LAMBDA b, hb : inplace_flip_container(b, hb, 0, LowMax), a,
           [i \in 1 .. hi - lo + 1 |-> lo + i - 1])

FullInto(a, r, lo, hi) ==
  FoldLeft(LAMBDA b, hb : insert_flipped_container(b, r, hb, 0, LowMax), a,
           [i \in 1 .. hi - lo + 1 |-> lo + i - 1])

\* The turns over whole containers flip them in place.
LEMMA FullInPlaceCorrect ==
  ASSUME NEW C \in Chunks, NEW start \in Uint32, NEW end \in Uint32, start <= end,
         NEW lo \in Int, NEW hi \in Int, lo <= hi + 1, High(start) <= lo, hi <= High(end),
         \A k \in lo..hi : PartOf(start, end, k) = 0..LowMax,
         NEW a, Holds(a, Flipped(C, start, end, lo))
  PROVE  Holds(FullInPlace(a, lo, hi), Flipped(C, start, end, hi + 1))
<1> DEFINE n == hi - lo + 1
           q == [i \in 1..n |-> lo + i - 1]
           A == {b \in Seq(Rows) : \E D \in Chunks : Holds(b, D)}
           flip(b, i) == inplace_flip_container(b, q[i], 0, LowMax)
           G == [p \in (1..n) \X A |-> flip(p[2], p[1])]
           Step(it) == [x \in SUBSET DOMAIN q |-> IF x = {} THEN a ELSE flip(it[x \ {Max(x)}], Max(x))]
           it == CHOOSE f : f = Step(f)
           J == [i \in 0..n |-> {b \in Seq(Rows) : Holds(b, Flipped(C, start, end, lo + i))}]
<1>1. n \in Nat /\ High(start) \in Int /\ High(end) \in Int
  BY HalvesOf, Sizes
<1>2. Len(q) = n /\ DOMAIN q = 1..n
  BY <1>1
<1>3. FullInPlace(a, lo, hi) = it[1..n]
  <2>1. FullInPlace(a, lo, hi) = it[DOMAIN q]
    BY DEF FullInPlace, FoldLeft, MapThenFoldSet
  <2> QED
    BY <1>2, <2>1
<1>4. ASSUME NEW i \in 1..n
      PROVE  q[i] = lo + i - 1 /\ q[i] \in lo..hi /\ q[i] \in High(start)..High(end) /\ q[i] \in Keys
  <2>1. lo + i - 1 \in lo..hi
    BY <1>1
  <2>2. lo + i - 1 \in High(start)..High(end)
    BY <1>1, <2>1
  <2> QED
    BY <2>1, <2>2, RangeKeys
<1> HIDE DEF n, q
<1>5. 0..LowMax = Lows /\ 0..LowMax # {}
  BY Sizes
<1>6. \A b \in A, i \in 1..n : flip(b, i) \in A
  <2>1. SUFFICES ASSUME NEW b \in A, NEW i \in 1..n PROVE flip(b, i) \in A
    OBVIOUS
  <2>2. PICK D \in Chunks : Holds(b, D)
    OBVIOUS
  <2>3. Holds(flip(b, i), With(D, q[i], SymDiff(D[q[i]], 0..LowMax)))
    BY <1>4, <1>5, <2>2, FlippedInPlace
  <2> QED
    BY <2>3 DEF Holds
<1>7. a \in A
  BY DEF Holds
<1>8. G \in [(1..n) \X A -> A]
  <2> HIDE DEF A, flip
  <2> QED
    BY <1>6
<1> HIDE DEF A
<1>9. PICK f \in [SUBSET (1..n) -> A] : Folds(f, n, a, G)
  <2> HIDE DEF G
  <2> QED
    BY <1>1, <1>7, <1>8, FoldExists
<1>10. f = Step(f)
  <2>1. ASSUME NEW x \in SUBSET (1..n), x # {}
        PROVE  f[x] = flip(f[x \ {Max(x)}], Max(x))
    <3>1. Max(x) \in 1..n /\ x \ {Max(x)} \in SUBSET (1..n)
      BY <1>1, <2>1, LastIndex
    <3>2. f[x \ {Max(x)}] \in A
      BY <3>1
    <3> HIDE DEF flip
    <3> QED
      BY <1>9, <2>1, <3>1, <3>2 DEF Folds
  <2> HIDE DEF flip
  <2> QED
    BY <1>2, <1>9, <2>1 DEF Folds
<1>11. it = Step(it)
  BY <1>10
<1> HIDE DEF it, J, flip
<1>12. it[{}] = a /\ \A i \in 1..n : it[1..i] = flip(it[1..(i - 1)], i)
  <2>1. \A x \in SUBSET (1..n) : it[x] = IF x = {} THEN a ELSE flip(it[x \ {Max(x)}], Max(x))
    BY <1>2, <1>11
  <2> QED
    BY <1>1, <2>1, Segment
<1>13. it[{}] \in J[0]
  BY <1>1, <1>12 DEF J, Holds
<1>14. ASSUME NEW i \in 1..n, it[1..(i - 1)] \in J[i - 1] PROVE it[1..i] \in J[i]
  <2> DEFINE b == it[1..(i - 1)]
             k == q[i]
  <2>1. i - 1 \in 0..n /\ i \in 0..n
    BY <1>1
  <2>2. k = lo + (i - 1) /\ k + 1 = lo + i
    BY <1>1, <1>4
  <2>3. Holds(b, Flipped(C, start, end, k))
    BY <1>14, <2>1, <2>2 DEF J
  <2>4. k \in High(start)..High(end) /\ 0..LowMax = PartOf(start, end, k)
    BY <1>4
  <2> HIDE DEF b, k
  <2>5. Holds(inplace_flip_container(b, k, 0, LowMax), Flipped(C, start, end, k + 1))
    BY <2>3, <2>4, TurnInPlace
  <2> QED
    BY <1>12, <2>1, <2>2, <2>5 DEF J, flip, b, k, Holds
<1>15. it[1..n] \in J[n]
  BY <1>1, <1>13, <1>14, FoldKeeps
<1>16. lo + n = hi + 1
  BY DEF n
<1> QED
  BY <1>1, <1>3, <1>15, <1>16 DEF J

\* The turns over whole containers flip them into the copy.
LEMMA FullIntoCorrect ==
  ASSUME NEW C \in Chunks, NEW start \in Uint32, NEW end \in Uint32, start <= end,
         NEW lo \in Int, NEW hi \in Int, lo <= hi + 1, High(start) <= lo, hi <= High(end),
         \A k \in lo..hi : PartOf(start, end, k) = 0..LowMax,
         NEW r, Holds(r, C), NEW a, Holds(a, Copied(C, start, end, lo))
  PROVE  Holds(FullInto(a, r, lo, hi), Copied(C, start, end, hi + 1))
<1> DEFINE n == hi - lo + 1
           q == [i \in 1..n |-> lo + i - 1]
           Free(D, x) == \A i \in 1..n : (\A y \in x : y < i) => D[q[i]] = {}
           A == [x \in SUBSET (1..n) |-> {b \in Seq(Rows) : \E D \in Chunks : Holds(b, D) /\ Free(D, x)}]
           B == UNION {A[x] : x \in SUBSET (1..n)}
           flip(b, i) == insert_flipped_container(b, r, q[i], 0, LowMax)
           G == [p \in (1..n) \X B |-> flip(p[2], p[1])]
           Step(it) == [x \in SUBSET DOMAIN q |-> IF x = {} THEN a ELSE flip(it[x \ {Max(x)}], Max(x))]
           it == CHOOSE f : f = Step(f)
           J == [i \in 0..n |-> {b \in Seq(Rows) : Holds(b, Copied(C, start, end, lo + i))}]
<1>1. n \in Nat /\ High(start) \in Int /\ High(end) \in Int
  BY HalvesOf, Sizes
<1>2. Len(q) = n /\ DOMAIN q = 1..n
  BY <1>1
<1>3. FullInto(a, r, lo, hi) = it[1..n]
  <2>1. FullInto(a, r, lo, hi) = it[DOMAIN q]
    BY DEF FullInto, FoldLeft, MapThenFoldSet
  <2> QED
    BY <1>2, <2>1
<1>4. ASSUME NEW i \in 1..n
      PROVE  q[i] = lo + i - 1 /\ q[i] \in lo..hi /\ q[i] \in High(start)..High(end) /\ q[i] \in Keys
  <2>1. lo + i - 1 \in lo..hi
    BY <1>1
  <2>2. lo + i - 1 \in High(start)..High(end)
    BY <1>1, <2>1
  <2> QED
    BY <2>1, <2>2, RangeKeys
<1>4a. \A i, j \in 1..n : i # j => q[i] # q[j]
  BY <1>1
<1>4b. lo + n = hi + 1
  OBVIOUS
<1> HIDE DEF n, q
<1>5. 0..LowMax \in SUBSET Lows /\ 0..LowMax # {}
  BY Sizes
<1>6. ASSUME NEW x \in SUBSET (1..n), x # {}, NEW b \in A[x \ {Max(x)}]
      PROVE  flip(b, Max(x)) \in A[x]
  <2> DEFINE m == Max(x)
  <2>1. m \in 1..n /\ m \in x /\ x \ {m} \in SUBSET (1..n) /\ \A y \in x : y <= m
    <3>1. x \in SUBSET Nat /\ \A y \in x : y <= n
      BY <1>1
    <3> QED
      BY <1>1, <1>6, <3>1, MaxFacts
  <2>2. b \in A[x \ {m}]
    BY <1>6
  <2> HIDE DEF m
  <2>3. PICK D \in Chunks : Holds(b, D) /\ Free(D, x \ {m})
    BY <2>1, <2>2
  <2>4. D[q[m]] = {}
    <3>1. \A y \in x \ {m} : y < m
      BY <1>1, <2>1
    <3> QED
      BY <2>1, <2>3, <3>1
  <2> DEFINE c == SymDiff(C[q[m]], 0..LowMax)
             E == With(D, q[m], c)
  <2>5. Holds(flip(b, m), E)
    BY <1>4, <1>5, <2>1, <2>3, <2>4, FlippedInto
  <2>6. E \in Chunks /\ flip(b, m) \in Seq(Rows)
    BY <2>5 DEF Holds
  <2>7. \A k \in Keys : k # q[m] => E[k] = D[k]
    BY DEF With, Chunks
  <2> HIDE DEF E
  <2>8. Free(E, x)
    <3>1. SUFFICES ASSUME NEW i \in 1..n, \A y \in x : y < i PROVE E[q[i]] = {}
      OBVIOUS
    <3>2. i # m /\ \A y \in x \ {m} : y < i
      BY <1>1, <2>1, <3>1
    <3>3. q[i] # q[m] /\ q[i] \in Keys
      BY <1>4, <1>4a, <2>1, <3>2
    <3>4. D[q[i]] = {}
      BY <2>3, <3>2
    <3> QED
      BY <2>7, <3>3, <3>4
  <2> HIDE DEF flip
  <2>9. flip(b, m) \in A[x]
    BY <2>5, <2>6, <2>8
  <2> QED
    BY <2>9 DEF m
<1>7. a \in A[{}]
  <2>1. Copied(C, start, end, lo) \in Chunks /\ a \in Seq(Rows)
    BY DEF Holds
  <2>2. Free(Copied(C, start, end, lo), {})
    <3>1. SUFFICES ASSUME NEW i \in 1..n PROVE Copied(C, start, end, lo)[q[i]] = {}
      OBVIOUS
    <3>2. q[i] \in Keys /\ ~(q[i] < lo)
      BY <1>1, <1>4
    <3> QED
      BY <3>2 DEF Copied
  <2>3. {} \in SUBSET (1..n)
    OBVIOUS
  <2> HIDE DEF Free
  <2> QED
    BY <2>1, <2>2, <2>3
<1>8. \A x \in SUBSET (1..n) : \A b \in A[x] : b \in B
  OBVIOUS
<1> HIDE DEF A
<1>9. \A x \in SUBSET (1..n) : x # {} => \A b \in A[x \ {Max(x)}] : G[<<Max(x), b>>] \in A[x]
  <2>1. SUFFICES ASSUME NEW x \in SUBSET (1..n), x # {}, NEW b \in A[x \ {Max(x)}]
                 PROVE  G[<<Max(x), b>>] \in A[x]
    OBVIOUS
  <2>2. Max(x) \in 1..n /\ x \ {Max(x)} \in SUBSET (1..n)
    BY <1>1, <2>1, LastIndex
  <2>3. b \in B
    BY <1>8, <2>2
  <2>4. flip(b, Max(x)) \in A[x]
    BY <1>6, <2>1
  <2> HIDE DEF flip, B
  <2> QED
    BY <2>2, <2>3, <2>4
<1>10. PICK f : Folds(f, n, a, G) /\ \A x \in SUBSET (1..n) : f[x] \in A[x]
  <2> HIDE DEF G
  <2> QED
    BY <1>1, <1>7, <1>9, FoldWithin
<1>11. \A x \in SUBSET (1..n) : f[x] = IF x = {} THEN a ELSE flip(f[x \ {Max(x)}], Max(x))
  <2>1. ASSUME NEW x \in SUBSET (1..n), x # {}
        PROVE  f[x] = flip(f[x \ {Max(x)}], Max(x))
    <3>1. Max(x) \in 1..n /\ x \ {Max(x)} \in SUBSET (1..n)
      BY <1>1, <2>1, LastIndex
    <3>2. f[x \ {Max(x)}] \in B
      BY <1>8, <1>10, <3>1
    <3> HIDE DEF flip, B
    <3> QED
      BY <1>10, <2>1, <3>1, <3>2 DEF Folds
  <2> HIDE DEF flip
  <2> QED
    BY <1>10, <2>1 DEF Folds
<1> DEFINE g == [x \in SUBSET DOMAIN q |-> f[x]]
<1>12. g = Step(g)
  <2>1. \A x \in SUBSET (1..n) : g[x] = f[x]
    BY <1>2
  <2>2. \A x \in SUBSET (1..n) : x # {} => g[x \ {Max(x)}] = f[x \ {Max(x)}]
    BY <1>1, <2>1, LastIndex
  <2> HIDE DEF g, flip
  <2>3. \A x \in SUBSET (1..n) : g[x] = IF x = {} THEN a ELSE flip(g[x \ {Max(x)}], Max(x))
    BY <1>11, <2>1, <2>2
  <2>4. \A x \in SUBSET DOMAIN q : Step(g)[x] = g[x]
    BY <1>2, <2>3
  <2>5. g = [x \in SUBSET DOMAIN q |-> g[x]]
    BY DEF g
  <2> QED
    BY <2>4, <2>5
<1>13. it = Step(it)
  BY <1>12
<1> HIDE DEF it, J, flip
<1>14. it[{}] = a /\ \A i \in 1..n : it[1..i] = flip(it[1..(i - 1)], i)
  <2>1. \A x \in SUBSET (1..n) : it[x] = IF x = {} THEN a ELSE flip(it[x \ {Max(x)}], Max(x))
    BY <1>2, <1>13
  <2> QED
    BY <1>1, <2>1, Segment
<1>15. it[{}] \in J[0]
  BY <1>1, <1>14 DEF J, Holds
<1>16. ASSUME NEW i \in 1..n, it[1..(i - 1)] \in J[i - 1] PROVE it[1..i] \in J[i]
  <2> DEFINE b == it[1..(i - 1)]
             k == q[i]
  <2>1. i - 1 \in 0..n /\ i \in 0..n
    BY <1>1
  <2>2. k = lo + (i - 1) /\ k + 1 = lo + i
    BY <1>1, <1>4
  <2>3. Holds(b, Copied(C, start, end, k))
    BY <1>16, <2>1, <2>2 DEF J
  <2>4. k \in High(start)..High(end) /\ 0..LowMax = PartOf(start, end, k)
    BY <1>4
  <2> HIDE DEF b, k
  <2>5. Holds(insert_flipped_container(b, r, k, 0, LowMax), Copied(C, start, end, k + 1))
    BY <2>3, <2>4, TurnInto
  <2> QED
    BY <1>14, <2>1, <2>2, <2>5 DEF J, flip, b, k, Holds
<1>17. it[1..n] \in J[n]
  BY <1>1, <1>15, <1>16, FoldKeeps
<1> QED
  BY <1>1, <1>3, <1>4b, <1>17 DEF J

\* The entries below a key, and the ones above it behind another array.
LEMMA CopiedUntil ==
  ASSUME NEW r, NEW C, Holds(r, C), NEW key \in Keys, NEW D \in Chunks,
         \A k \in Keys : D[k] = IF k < key THEN C[k] ELSE {}
  PROVE  Holds(ra_append_copies_until(<<>>, r, key), D)
<1> DEFINE n == Len(r)
           less == count_less(r, n, key)
           t == SubSeq(r, 1, less)
           top == KeyCount - 1
           low == key - 1
<1>1. /\ n \in Nat /\ key \in Int /\ r \in Seq(Rows) /\ top \in Int /\ low \in Int
      /\ 0 <= low + 1 /\ low <= top /\ key = low + 1 /\ Keys = 0..top
  BY Sizes DEF Holds
<1>2. Covers(r, 1, n, C, 0, top)
  BY DEF Holds
<1>3. /\ less \in 0..n
      /\ \A j \in 1..less : r[j].key < key
      /\ \A j \in (less + 1)..n : r[j].key >= key
  BY <1>1, <1>2, CountLess
<1> HIDE DEF less
<1>4. t \in Seq(Rows) /\ Len(t) = less /\ \A i \in 1..less : t[i] = r[i]
  BY <1>1, <1>3, Segments
<1>5. <<>> \o t = t
  BY <1>4
<1> HIDE DEF n, t, top, low
<1>6. Covers(r, 1, less, C, 0, low)
  <2>1. \A j \in 1..n : r[j].key \in Int
    BY <1>1, <1>2 DEF Covers
  <2>2. \A j \in 1..less : r[j].key <= low
    BY <1>1, <1>3, <2>1
  <2>3. \A j \in (less + 1)..n : r[j].key > low
    BY <1>1, <1>3, <2>1
  <2>4. less \in Int /\ n \in Int /\ 1 <= less + 1 /\ less <= n
    BY <1>1, <1>3
  <2> QED
    BY <1>1, <1>2, <2>2, <2>3, <2>4, Parted
<1>7. Covers(t, 1, less, D, 0, low)
  <2>1. \A k \in 0..low : D[k] = C[k]
    BY <1>1
  <2>2. less \in Int /\ low \in Int /\ \A i \in 1..less : t[i] = r[i]
    BY <1>1, <1>3, <1>4
  <2> QED
    BY <1>6, <2>1, <2>2, Unmoved
<1>8. Covers(t, 1, less, D, 0, top)
  <2>1. \A k \in 0..top : k \notin 0..low => D[k] = {}
    BY <1>1
  <2>2. less \in Int
    BY <1>3
  <2> QED
    BY <1>1, <1>7, <2>1, <2>2, Extended
<1>9. ra_append_copies_until(<<>>, r, key) = t
  BY <1>5 DEF ra_append_copies_until, t, less, n
<1> QED
  BY <1>4, <1>8, <1>9 DEF Holds, top

\* The rows after a key are copied as they are.
LEMMA CopiedAfter ==
  ASSUME NEW r, NEW C, Holds(r, C), NEW ans, NEW E, Holds(ans, E), NEW key \in Keys,
         NEW D \in Chunks,
         \A k \in Keys : k > key => E[k] = {},
         \A k \in Keys : D[k] = IF k <= key THEN E[k] ELSE C[k]
  PROVE  Holds(ra_append_copies_after(ans, r, key), D)
<1> DEFINE i == ra_get_index(r, key)
           at == IF i >= 0 THEN i + 1 ELSE -i - 1
           n == Len(r)
           m == Len(ans)
           u == SubSeq(r, at + 1, n)
           w == ans \o u
           top == KeyCount - 1
<1>1. /\ n \in Nat /\ m \in Nat /\ key \in Int /\ r \in Seq(Rows) /\ ans \in Seq(Rows) /\ top \in Int
      /\ 0 <= key /\ key <= top /\ Keys = 0..top
  BY Sizes DEF Holds
<1>2. at \in 0..n /\ Covers(r, at + 1, n, C, key + 1, top)
  <2>1. LET a == IF i >= 0 THEN i ELSE -i - 1
        IN  /\ i \in Int /\ a \in 0..n
            /\ i >= 0 => a + 1 \in 1..n
            /\ Covers(r, IF i >= 0 THEN a + 2 ELSE a + 1, n, C, key + 1, top)
    BY Searched
  <2>2. CASE i >= 0
    <3>1. (i + 1) + 1 = i + 2
      BY <2>1
    <3> QED
      BY <2>1, <2>2, <3>1
  <2>3. CASE ~(i >= 0)
    BY <2>1, <2>3
  <2> QED
    BY <2>2, <2>3
<1>3. Covers(ans, 1, m, E, 0, top)
  BY DEF Holds
<1>4. ra_append_copies_after(ans, r, key) = w
  BY DEF ra_append_copies_after
<1> HIDE DEF at, i
<1>5. /\ u \in Seq(Rows) /\ Len(u) = n - at
      /\ \A j \in 1..(n - at) : u[j] = r[at + j]
  BY <1>1, <1>2, Segments
<1> HIDE DEF u
<1>6. w \in Seq(Rows) /\ PutBehind(w, ans, u)
  BY <1>1, <1>5, Concatenated
<1> HIDE DEF w, n, m, top
<1>7. /\ Len(w) = m + (n - at)
      /\ \A j \in 1..m : w[j] = ans[j]
      /\ \A j \in 1..(n - at) : w[j + m] = u[j]
  BY <1>5, <1>6 DEF PutBehind, m
<1>8. Covers(w, 1, m, D, 0, key)
  <2>1. Covers(ans, 1, m, E, 0, key)
    <3>1. \A k \in 0..top : k \notin 0..key => E[k] = {}
      BY <1>1
    <3> QED
      BY <1>1, <1>3, <3>1, Trimmed
  <2>2. \A k \in 0..key : D[k] = E[k]
    BY <1>1
  <2> QED
    BY <1>1, <1>7, <2>1, <2>2, Unmoved
<1>9. Covers(w, m + 1, Len(w), D, key + 1, top)
  <2> DEFINE d == m - at
             f == at + 1
             f2 == m + 1
             n2 == Len(w)
             lo == key + 1
  <2>1. /\ d \in Int /\ f \in Int /\ f2 = f + d /\ n2 = n + d
        /\ f2 \in Int /\ n2 \in Int /\ lo \in Int /\ top \in Int
    BY <1>1, <1>2, <1>7
  <2>2. ASSUME NEW j \in f..n PROVE w[j + d] = r[j]
    <3>1. j - at \in 1..(n - at) /\ (j - at) + m = j + d /\ at + (j - at) = j
      BY <1>1, <1>2
    <3> QED
      BY <1>5, <1>7, <3>1
  <2>3. \A k \in lo..top : D[k] = C[k]
    BY <1>1
  <2>4. Covers(r, f, n, C, lo, top) /\ n \in Int
    BY <1>1, <1>2
  <2> HIDE DEF d, f, f2, n2, lo
  <2>5. Moves(r, w, f, n, d)
    BY <2>2 DEF Moves
  <2>6. Covers(w, f2, n2, D, lo, top)
    BY <2>1, <2>3, <2>4, <2>5, Shifted
  <2> QED
    BY <2>6 DEF f2, n2, lo
<1>10. Covers(w, 1, Len(w), D, 0, top)
  <2>1. m \in Int /\ Len(w) \in Int /\ 1 <= m + 1 /\ m <= Len(w) /\ 0 <= key + 1
    BY <1>1, <1>2, <1>7
  <2> QED
    BY <1>1, <1>8, <1>9, <2>1, Joined
<1> QED
  BY <1>4, <1>6, <1>10 DEF Holds, top

\* The chunks before and after the first and the last turn of a flip.
LEMMA FlipEnds ==
  ASSUME NEW C \in Chunks, NEW start \in Uint32, NEW end \in Uint32, start <= end
  PROVE  /\ Flipped(C, start, end, High(start)) = C
         /\ Copied(C, start, end, High(start)) \in Chunks
         /\ \A k \in Keys : Copied(C, start, end, High(start))[k]
                              = IF k < High(start) THEN C[k] ELSE {}
         /\ Flipped(C, start, end, High(end) + 1) \in Chunks
         /\ \A k \in Keys : k > High(end) => Copied(C, start, end, High(end) + 1)[k] = {}
         /\ \A k \in Keys : Flipped(C, start, end, High(end) + 1)[k]
                              = IF k <= High(end) THEN Copied(C, start, end, High(end) + 1)[k] ELSE C[k]
<1> DEFINE p == High(start)
           q == High(end)
<1>1. /\ p \in Int /\ q \in Int /\ Keys \subseteq Int /\ p \in p..q /\ q \in p..q
      /\ p <= q /\ q \in Keys
  BY RangeKeys, Sizes
<1>2. /\ Flipped(C, start, end, p) \in Chunks /\ Copied(C, start, end, p) \in Chunks
      /\ Flipped(C, start, end, q) \in Chunks
      /\ With(Flipped(C, start, end, q), q, SymDiff(C[q], PartOf(start, end, q)))
           = Flipped(C, start, end, q + 1)
  BY <1>1, NextFlipped
<1>3. \A k \in Keys : Flipped(C, start, end, p)[k] = C[k]
  BY <1>1 DEF Flipped
<1>4. Flipped(C, start, end, p) = C
  BY <1>2, <1>3 DEF Chunks
<1>5. Flipped(C, start, end, q + 1) \in Chunks
  <2>1. PartOf(start, end, q) \in SUBSET Lows /\ C[q] \in SUBSET Lows
    BY <1>1, RangeKeys DEF Chunks
  <2>2. SymDiff(C[q], PartOf(start, end, q)) \in SUBSET Lows
    BY <2>1 DEF SymDiff
  <2> QED
    BY <1>1, <1>2, <2>2, ReplacedChunk
<1>6. \A k \in Keys : k > q => Flipped(C, start, end, q + 1)[k] = C[k]
  BY <1>1 DEF Flipped
<1>7. \A k \in Keys : Copied(C, start, end, q + 1)[k]
                        = IF k < q + 1 THEN Flipped(C, start, end, q + 1)[k] ELSE {}
  BY DEF Copied
<1>8. \A k \in Keys : Copied(C, start, end, p)[k] = IF k < p THEN C[k] ELSE {}
  BY <1>4 DEF Copied
<1>9. \A k \in Keys : k < q + 1 <=> k <= q
  BY <1>1
<1> HIDE DEF p, q
<1>10. \A k \in Keys : k <= q <=> ~(k > q)
  BY <1>1
<1> QED
  BY <1>2, <1>4, <1>5, <1>6, <1>7, <1>8, <1>9, <1>10 DEF p, q

\* The first turn, the turns over whole chunks and the last turn together visit
\* each chunk of the range once.
LEMMA Turns ==
  ASSUME NEW start \in Uint32, NEW end \in Uint32, start <= end
  PROVE  LET p == High(start)
             q == High(end)
             lo == IF Low(start) > 0 THEN p + 1 ELSE p
             hi == IF Low(end) # LowMax THEN q - 1 ELSE q
         IN  /\ p = q => Low(start)..Low(end) = PartOf(start, end, p)
             /\ p # q =>
                  /\ Low(start) > 0 => Low(start)..LowMax = PartOf(start, end, p)
                  /\ lo \in Int /\ hi \in Int /\ lo <= hi + 1 /\ p <= lo /\ hi <= q
                  /\ \A k \in lo..hi : PartOf(start, end, k) = 0..LowMax
                  /\ Low(end) # LowMax => hi + 1 = q /\ 0..Low(end) = PartOf(start, end, q)
<1> DEFINE p == High(start)
           q == High(end)
           v == Low(start)
           w == Low(end)
           lo == IF v > 0 THEN p + 1 ELSE p
           hi == IF w # LowMax THEN q - 1 ELSE q
<1>1. p \in Int /\ q \in Int /\ p <= q /\ v \in Nat /\ w \in Nat
  BY RangeKeys, HalvesOf, Sizes
<1>2. \A k : PartOf(start, end, k) = (IF k = p THEN v ELSE 0)..(IF k = q THEN w ELSE LowMax)
  BY DEF PartOf
<1> HIDE DEF p, q, v, w
<1>3. p # q => lo \in Int /\ hi \in Int /\ lo <= hi + 1 /\ p <= lo /\ hi <= q
  BY <1>1
<1>4. ASSUME NEW k \in lo..hi, p # q PROVE PartOf(start, end, k) = 0..LowMax
  <2>1. k = p => v = 0
    BY <1>1
  <2>2. k = q => w = LowMax
    BY <1>1
  <2> QED
    BY <1>2, <2>1, <2>2
<1>5. w # LowMax => hi + 1 = q
  BY <1>1
<1>6. /\ p = q => v..w = PartOf(start, end, p)
      /\ p # q => v..LowMax = PartOf(start, end, p)
      /\ p # q => 0..w = PartOf(start, end, q)
  BY <1>2
<1> QED
  BY <1>3, <1>4, <1>5, <1>6 DEF p, q, v, w

\* roaring_bitmap_flip_inplace_closed flips the range.
LEMMA FlipInPlaceCorrect ==
  ASSUME NEW r, NEW C, Holds(r, C), NEW start \in Uint32, NEW end \in Uint32, start <= end
  PROVE  Holds(roaring_bitmap_flip_inplace_closed(r, start, end),
               Flipped(C, start, end, High(end) + 1))
<1> DEFINE p == High(start)
           q == High(end)
           lo == IF Low(start) > 0 THEN p + 1 ELSE p
           hi == IF Low(end) # LowMax THEN q - 1 ELSE q
           first == IF Low(start) > 0
                    THEN inplace_flip_container(r, p, Low(start), LowMax) ELSE r
           full == FullInPlace(first, lo, hi)
           t == roaring_bitmap_flip_inplace_closed(r, start, end)
           F(k) == Flipped(C, start, end, k)
<1>1. /\ p \in p..q /\ q \in p..q /\ p \in Int /\ q \in Int /\ start \in Int /\ end \in Int
  <2>1. p \in Int /\ q \in Int /\ p <= q
    BY RangeKeys, Sizes
  <2> QED
    BY <2>1 DEF Uint32
<1>2. C \in Chunks /\ Holds(r, F(p))
  <2>1. C \in Chunks
    BY DEF Holds
  <2> QED
    BY <2>1, FlipEnds
<1>3. /\ p = q => Low(start)..Low(end) = PartOf(start, end, p)
      /\ p # q =>
           /\ Low(start) > 0 => Low(start)..LowMax = PartOf(start, end, p)
           /\ lo \in Int /\ hi \in Int /\ lo <= hi + 1 /\ p <= lo /\ hi <= q
           /\ \A k \in lo..hi : PartOf(start, end, k) = 0..LowMax
           /\ Low(end) # LowMax => hi + 1 = q /\ 0..Low(end) = PartOf(start, end, q)
  BY Turns
<1>4. t = IF p = q THEN inplace_flip_container(r, p, Low(start), Low(end))
          ELSE IF Low(end) # LowMax THEN inplace_flip_container(full, hi + 1, 0, Low(end))
          ELSE full
  <2>1. ~(start > end)
    BY <1>1
  <2> QED
    BY <2>1 DEF roaring_bitmap_flip_inplace_closed, FlipChunks, FullInPlace
<1>5. CASE p = q
  <2>1. Holds(inplace_flip_container(r, p, Low(start), Low(end)), F(p + 1))
    BY <1>1, <1>2, <1>3, <1>5, TurnInPlace
  <2> QED
    BY <1>4, <1>5, <2>1
<1>6. CASE p # q
  <2>1. Holds(first, F(lo))
    <3>1. CASE Low(start) > 0
      <4>1. Holds(inplace_flip_container(r, p, Low(start), LowMax), F(p + 1))
        BY <1>1, <1>2, <1>3, <1>6, <3>1, TurnInPlace
      <4> QED
        BY <3>1, <4>1
    <3>2. CASE ~(Low(start) > 0)
      BY <1>2, <3>2
    <3> QED
      BY <3>1, <3>2
  <2>2. Holds(full, F(hi + 1))
    <3> HIDE DEF lo, hi, first
    <3> QED
      BY <1>2, <1>3, <1>6, <2>1, FullInPlaceCorrect
  <2>3. CASE Low(end) # LowMax
    <3>1. hi + 1 = q /\ 0..Low(end) = PartOf(start, end, q)
      BY <1>3, <1>6, <2>3
    <3>2. t = inplace_flip_container(full, q, 0, Low(end)) /\ Holds(full, F(q))
      BY <1>4, <1>6, <2>2, <2>3, <3>1
    <3> HIDE DEF full
    <3>3. Holds(inplace_flip_container(full, q, 0, Low(end)), F(q + 1))
      BY <1>1, <1>2, <3>1, <3>2, TurnInPlace
    <3> QED
      BY <3>2, <3>3
  <2>4. CASE Low(end) = LowMax
    <3>1. hi = q /\ t = full
      BY <1>4, <1>6, <2>4
    <3> HIDE DEF hi, full
    <3> QED
      BY <2>2, <3>1
  <2> QED
    BY <2>3, <2>4
<1> QED
  BY <1>5, <1>6

\* roaring_bitmap_flip_closed gives a copy with the range flipped.
LEMMA FlipCorrect ==
  ASSUME NEW r, NEW C, Holds(r, C), NEW start \in Uint32, NEW end \in Uint32, start <= end
  PROVE  Holds(roaring_bitmap_flip_closed(r, start, end),
               Flipped(C, start, end, High(end) + 1))
<1> DEFINE p == High(start)
           q == High(end)
           lo == IF Low(start) > 0 THEN p + 1 ELSE p
           hi == IF Low(end) # LowMax THEN q - 1 ELSE q
           before == ra_append_copies_until(<<>>, r, p)
           first == IF Low(start) > 0
                    THEN insert_flipped_container(before, r, p, Low(start), LowMax) ELSE before
           full == FullInto(first, r, lo, hi)
           t == IF p = q THEN insert_flipped_container(before, r, p, Low(start), Low(end))
                ELSE IF Low(end) # LowMax
                     THEN insert_flipped_container(full, r, hi + 1, 0, Low(end))
                ELSE full
           F(k) == Copied(C, start, end, k)
<1>1. /\ p \in p..q /\ q \in p..q /\ p \in Int /\ q \in Int /\ start \in Int /\ end \in Int
      /\ p \in Keys /\ q \in Keys
  <2>1. p \in Int /\ q \in Int /\ p <= q /\ p \in Keys /\ q \in Keys
    BY RangeKeys, Sizes
  <2> QED
    BY <2>1 DEF Uint32
<1>2. C \in Chunks /\ Holds(before, F(p))
  <2>1. C \in Chunks
    BY DEF Holds
  <2>2. F(p) \in Chunks /\ \A k \in Keys : F(p)[k] = IF k < p THEN C[k] ELSE {}
    BY <2>1, FlipEnds
  <2> HIDE DEF F, p
  <2> QED
    BY <1>1, <2>1, <2>2, CopiedUntil
<1>3. /\ p = q => Low(start)..Low(end) = PartOf(start, end, p)
      /\ p # q =>
           /\ Low(start) > 0 => Low(start)..LowMax = PartOf(start, end, p)
           /\ lo \in Int /\ hi \in Int /\ lo <= hi + 1 /\ p <= lo /\ hi <= q
           /\ \A k \in lo..hi : PartOf(start, end, k) = 0..LowMax
           /\ Low(end) # LowMax => hi + 1 = q /\ 0..Low(end) = PartOf(start, end, q)
  BY Turns
<1>4. roaring_bitmap_flip_closed(r, start, end) = ra_append_copies_after(t, r, q)
  <2>1. ~(start > end)
    BY <1>1
  <2> QED
    BY <2>1 DEF roaring_bitmap_flip_closed, FlipChunks, FullInto
<1> HIDE DEF before
<1>5. Holds(t, F(q + 1))
  <2>1. CASE p = q
    <3>1. Holds(insert_flipped_container(before, r, p, Low(start), Low(end)), F(p + 1))
      BY <1>1, <1>2, <1>3, <2>1, TurnInto
    <3> QED
      BY <2>1, <3>1
  <2>2. CASE p # q
    <3>1. Holds(first, F(lo))
      <4>1. CASE Low(start) > 0
        <5>1. Holds(insert_flipped_container(before, r, p, Low(start), LowMax), F(p + 1))
          BY <1>1, <1>2, <1>3, <2>2, <4>1, TurnInto
        <5> QED
          BY <4>1, <5>1
      <4>2. CASE ~(Low(start) > 0)
        BY <1>2, <4>2
      <4> QED
        BY <4>1, <4>2
    <3>2. Holds(full, F(hi + 1))
      <4> HIDE DEF lo, hi, first
      <4> QED
        BY <1>2, <1>3, <2>2, <3>1, FullIntoCorrect
    <3>3. CASE Low(end) # LowMax
      <4>1. hi + 1 = q /\ 0..Low(end) = PartOf(start, end, q)
        BY <1>3, <2>2, <3>3
      <4>2. t = insert_flipped_container(full, r, q, 0, Low(end)) /\ Holds(full, F(q))
        BY <2>2, <3>2, <3>3, <4>1
      <4> HIDE DEF full
      <4>3. Holds(insert_flipped_container(full, r, q, 0, Low(end)), F(q + 1))
        BY <1>1, <1>2, <4>1, <4>2, TurnInto
      <4> QED
        BY <4>2, <4>3
    <3>4. CASE Low(end) = LowMax
      <4>1. hi = q /\ t = full
        BY <2>2, <3>4
      <4> HIDE DEF hi, full, t
      <4> QED
        BY <3>2, <4>1
    <3> QED
      BY <3>3, <3>4
  <2> QED
    BY <2>1, <2>2
<1> HIDE DEF t, F, q
<1>6. /\ \A k \in Keys : k > q => F(q + 1)[k] = {}
      /\ Flipped(C, start, end, q + 1) \in Chunks
      /\ \A k \in Keys : Flipped(C, start, end, q + 1)[k] = IF k <= q THEN F(q + 1)[k] ELSE C[k]
  BY <1>2, FlipEnds DEF F, q
<1>7. Holds(ra_append_copies_after(t, r, q), Flipped(C, start, end, q + 1))
  <2> DEFINE E == F(q + 1)
             D == Flipped(C, start, end, q + 1)
  <2>1. /\ Holds(t, E) /\ D \in Chunks
        /\ \A k \in Keys : k > q => E[k] = {}
        /\ \A k \in Keys : D[k] = IF k <= q THEN E[k] ELSE C[k]
    BY <1>5, <1>6
  <2> HIDE DEF E, D
  <2>2. Holds(ra_append_copies_after(t, r, q), D)
    BY <1>1, <2>1, CopiedAfter
  <2> QED
    BY <2>2 DEF D
<1> QED
  BY <1>4, <1>7 DEF q

-----------------------------------------------------------------------------
(* Adding a range.                                                         *)

\* The chunks with the range min .. max added.
Added(C, min, max) ==
  [h \in Keys |-> IF h \in High(min)..High(max) THEN C[h] \cup PartOf(min, max, h) ELSE C[h]]

\* A range adds its part to every key it covers, and nothing to the others.
LEMMA AddedFacts ==
  ASSUME NEW C \in Chunks, NEW min \in Uint32, NEW max \in Uint32, min <= max
  PROVE  /\ Added(C, min, max) \in Chunks
         /\ \A k \in High(min)..High(max) : /\ Added(C, min, max)[k] = C[k] \cup PartOf(min, max, k)
                                            /\ Added(C, min, max)[k] # {}
         /\ \A k \in Keys : k \notin High(min)..High(max) => Added(C, min, max)[k] = C[k]
<1>1. /\ High(min)..High(max) \subseteq Keys
      /\ \A k \in High(min)..High(max) :
           PartOf(min, max, k) \in SUBSET Lows /\ PartOf(min, max, k) # {}
  BY RangeKeys
<1>2. \A k \in Keys : C[k] \in SUBSET Lows
  BY DEF Chunks
<1>3. \A k \in High(min)..High(max) : C[k] \cup PartOf(min, max, k) \in SUBSET Lows
  BY <1>1, <1>2
<1>4. Added(C, min, max) \in Chunks
  BY <1>2, <1>3 DEF Added, Chunks
<1> QED
  BY <1>1, <1>4 DEF Added

\* One turn of the loop that fills the gap.
FillStep(s, key, min, max) ==
  LET merge == s.src >= 0 /\ s.ra[s.src + 1].key = key
      old == IF merge THEN s.ra[s.src + 1].container ELSE {}
  IN  [ra  |-> [s.ra EXCEPT ![s.dst + 1] = Entry(key, old \cup PartOf(min, max, key))],
       src |-> IF merge THEN s.src - 1 ELSE s.src,
       dst |-> s.dst - 1]

\* Its state when the keys above key are done, where pre entries of r are below
\* the range and those behind the first last ones above it: the entries of r up
\* to src are those of the keys that are left, and have not been overwritten.
Filling(s, r, wide, C, pre, last, min, max, key) ==
  LET size == pre + (High(max) - High(min) + 1)
      left == pre + (key - High(min) + 1)
  IN  /\ s.dst = left - 1
      /\ s.src \in (pre - 1)..(last - 1)
      /\ Covers(r, pre + 1, s.src + 1, C, High(min), key)
      /\ \A i \in 1..left : s.ra[i] = wide[i]
      /\ \A i \in (size + 1)..Len(wide) : s.ra[i] = wide[i]
      /\ Covers(s.ra, left + 1, size, Added(C, min, max), key + 1, High(max))

FillStates(n) == [ra : [1..n -> Rows], src : (-1)..(n - 1), dst : Int]

\* One turn of the filling loop leaves rows and places in the array.
LEMMA FillStepType ==
  ASSUME NEW n \in Nat, NEW s \in FillStates(n), NEW key \in Int,
         NEW min \in Uint32, NEW max \in Uint32
  PROVE  FillStep(s, key, min, max) \in FillStates(n)
<1> DEFINE merge == s.src >= 0 /\ s.ra[s.src + 1].key = key
           old == IF merge THEN s.ra[s.src + 1].container ELSE {}
           e == Entry(key, old \cup PartOf(min, max, key))
           ra == s.ra
           src == s.src
           dst == s.dst
<1>1. ra \in [1..n -> Rows] /\ src \in (-1)..(n - 1) /\ dst \in Int
  BY DEF FillStates
<1> HIDE DEF ra, src, dst
<1>2. merge => src + 1 \in 1..n
  BY <1>1 DEF src
<1>3. old \in SUBSET Int
  BY <1>1, <1>2 DEF ra, src, Rows
<1>4. PartOf(min, max, key) \in SUBSET Int
  BY HalvesOf, Sizes DEF PartOf
<1>5. e \in Rows
  <2> HIDE DEF old
  <2> QED
    BY <1>3, <1>4 DEF Rows, Entry
<1>6. (IF merge THEN src - 1 ELSE src) \in (-1)..(n - 1)
  BY <1>1 DEF src
<1>7. [ra EXCEPT ![dst + 1] = e] \in [1..n -> Rows] /\ dst - 1 \in Int
  <2> DEFINE d == dst + 1
             D == 1..n
  <2>1. ra \in [D -> Rows] /\ e \in Rows /\ dst - 1 \in Int
    BY <1>1, <1>5
  <2> HIDE DEF e, d, D
  <2>2. [ra EXCEPT ![d] = e] \in [D -> Rows]
    BY <2>1
  <2> QED
    BY <2>1, <2>2 DEF d, D
<1>8. FillStep(s, key, min, max) =
        [ra |-> [ra EXCEPT ![dst + 1] = e], src |-> IF merge THEN src - 1 ELSE src, dst |-> dst - 1]
  BY DEF FillStep, ra, src, dst
<1> HIDE DEF merge, old, e
<1> QED
  BY <1>6, <1>7, <1>8 DEF FillStates

\* One turn of the filling loop, from the last key down, does one key more.
LEMMA FillTurn ==
  ASSUME NEW r \in Seq(Rows), NEW C \in Chunks, NEW min \in Uint32, NEW max \in Uint32, min <= max,
         NEW wide \in Seq(Rows), NEW pre \in Nat, NEW last \in Nat, pre <= last, last <= Len(wide),
         last <= Len(r),
         \A i \in 1..last : wide[i] = r[i],
         Covers(r, 1, pre, C, 0, High(min) - 1),
         pre + (High(max) - High(min) + 1) <= Len(wide),
         NEW key \in High(min)..High(max),
         NEW s \in FillStates(Len(wide)),
         Filling(s, r, wide, C, pre, last, min, max, key)
  PROVE  Filling(FillStep(s, key, min, max), r, wide, C, pre, last, min, max, key - 1)
<1> DEFINE p == High(min)
           q == High(max)
           D == Added(C, min, max)
           size == pre + (q - p + 1)
           left == pre + (key - p + 1)
           n == Len(wide)
           ra == s.ra
           src == s.src
           dst == s.dst
           merge == src >= 0 /\ ra[src + 1].key = key
           old == IF merge THEN ra[src + 1].container ELSE {}
           e == Entry(key, old \cup PartOf(min, max, key))
           t == [ra EXCEPT ![dst + 1] = e]
           src2 == IF merge THEN src - 1 ELSE src
<1>1. /\ p \in Nat /\ q \in Nat /\ p <= q /\ key \in Int /\ p <= key /\ key <= q /\ key \in Keys
      /\ n \in Nat /\ pre \in Nat /\ last \in Nat
  BY RangeKeys, Sizes
<1>2. ra \in [1..n -> Rows] /\ src \in (-1)..(n - 1) /\ dst \in Int
  BY DEF FillStates
<1>3. /\ dst = left - 1 /\ src \in (pre - 1)..(last - 1)
      /\ Covers(r, pre + 1, src + 1, C, p, key)
      /\ \A i \in 1..left : ra[i] = wide[i]
      /\ \A i \in (size + 1)..n : ra[i] = wide[i]
      /\ Covers(ra, left + 1, size, D, key + 1, q)
  BY DEF Filling
<1>4. FillStep(s, key, min, max) = [ra |-> t, src |-> src2, dst |-> dst - 1]
  BY DEF FillStep
<1>5. D[key] = C[key] \cup PartOf(min, max, key) /\ D[key] # {}
  BY AddedFacts
<1>6. Covers(r, 1, pre, C, 0, p - 1) /\ size <= n /\ \A i \in 1..last : wide[i] = r[i]
  OBVIOUS
<1> HIDE DEF p, q, D, n, ra, src, dst
<1>7. src + 1 <= left /\ left \in 1..size /\ dst + 1 = left /\ left \in 1..n
  <2>1. src \in Int /\ pre - 1 <= src
    <3> DEFINE lower == pre - 1
               upper == last - 1
    <3>1. lower \in Int /\ upper \in Int /\ src \in lower..upper
      BY <1>1, <1>3
    <3> HIDE DEF lower, upper
    <3>2. src \in Int /\ lower <= src
      BY <3>1
    <3> QED
      BY <3>2 DEF lower
  <2>4. p <= key + 1
    BY <1>1
  <2> DEFINE a == pre + 1
             b == src + 1
  <2>5. Covers(r, a, b, C, p, key)
    BY <1>3
  <2>2. a \in Int /\ b \in Int /\ a <= b + 1
    BY <1>1, <2>1
  <2> HIDE DEF a, b
  <2>3. b - a <= key - p
    BY <1>1, <2>4, <2>5, <2>2, Spread
  <2> QED
    BY <1>1, <1>3, <1>6, <2>3 DEF a, b
<1>8. src >= 0 => ra[src + 1] = r[src + 1]
  <2>1. src >= 0 => src + 1 \in 1..left /\ src + 1 \in 1..last
    BY <1>1, <1>3, <1>7
  <2> QED
    BY <1>3, <1>6, <2>1
<1>9. old = C[key] /\ src2 \in (pre - 1)..(last - 1) /\ Covers(r, pre + 1, src2 + 1, C, p, key - 1)
  <2> DEFINE a == pre + 1
             b == src + 1
             low == key - 1
  <2>1. /\ a \in Int /\ b \in Int /\ low \in Int /\ p <= p /\ low <= key
        /\ \A k \in p..key : k \notin p..low => k = key
        /\ pre <= b
    BY <1>1, <1>3
  <2>2. Covers(r, a, b, C, p, key)
    BY <1>3
  <2>3. merge <=> b > 0 /\ r[b].key = key
    BY <1>2, <1>8
  <2>4. CASE merge
    <3>1. b > pre
      <4>1. SUFFICES ASSUME ~(b > pre) PROVE FALSE
        OBVIOUS
      <4>2. b \in 1..pre /\ r[b].key = key
        BY <1>1, <2>1, <2>3, <2>4, <4>1
      <4>3. r[b].key \in 0..(p - 1)
        BY <1>6, <4>2 DEF Covers
      <4> QED
        BY <1>1, <4>2, <4>3
    <3>2. r[b].key = key /\ a <= b /\ b \in a..b
      BY <1>1, <2>1, <2>3, <2>4, <3>1
    <3>3. r[b].container = C[key]
      BY <2>2, <3>2 DEF Covers
    <3>4. old = C[key]
      BY <1>2, <1>8, <2>4, <3>3
    <3>5. src2 = src - 1 /\ src2 + 1 = b - 1 /\ src2 \in (pre - 1)..(last - 1)
      BY <1>1, <1>2, <1>3, <2>4, <3>1
    <3> HIDE DEF a, b
    <3>6. Covers(r, a, b - 1, C, p, key - 1)
      BY <1>1, <2>1, <2>2, <3>2, BeforeLast
    <3> QED
      BY <3>4, <3>5, <3>6 DEF a
  <2>5. CASE ~merge
    <3>1. C[key] = {}
      <4>1. SUFFICES ASSUME C[key] # {} PROVE FALSE
        OBVIOUS
      <4>2. key \in p..key
        BY <1>1
      <4>3. PICK i \in a..b : r[i].key = key
        BY <2>2, <4>1, <4>2 DEF Covers
      <4>4. b > 0 /\ b \in a..b /\ r[b].key \in p..key /\ i \in Int
        <5>1. b > 0 /\ b \in a..b /\ i \in Int
          BY <1>1, <2>1, <4>3
        <5> QED
          BY <2>2, <5>1 DEF Covers
      <4>5. i < b
        BY <2>1, <2>3, <2>5, <4>3, <4>4
      <4>6. r[i].key < r[b].key
        BY <2>2, <4>3, <4>4, <4>5 DEF Covers
      <4> QED
        BY <1>1, <4>3, <4>4, <4>6
    <3>2. old = {} /\ src2 = src
      BY <2>5
    <3>3. Covers(r, a, b, C, p, low)
      <4>1. \A k \in p..key : k \notin p..low => C[k] = {}
        BY <2>1, <3>1
      <4> HIDE DEF a, b, low
      <4> QED
        BY <1>1, <2>1, <2>2, <4>1, Trimmed
    <3> QED
      BY <1>3, <3>1, <3>2, <3>3
  <2> QED
    BY <2>4, <2>5
<1>10. e.key = key /\ e.container = D[key]
  BY <1>5, <1>9 DEF Entry, D
<1>11. /\ \A i \in 1..n : i # left => t[i] = ra[i]
       /\ t[left] = e
  BY <1>2, <1>7
<1> HIDE DEF t, e, old, src2, merge
<1>12. Covers(t, left, size, D, key, q)
  <2>1. left \in Int /\ size \in Int /\ left <= left + 1 /\ left <= size /\ key <= key + 1
    BY <1>1, <1>7
  <2>2. Covers(t, left, left, D, key, key)
    <3> HIDE DEF left, size
    <3> QED
      BY <1>1, <1>5, <1>10, <1>11, <2>1, OneEntry DEF D
  <2>3. \A i \in (left + 1)..size : i \in 1..n /\ i # left
    BY <1>1, <1>6, <1>7
  <2>4. Covers(t, left + 1, size, D, key + 1, q)
    <3> DEFINE f == left + 1
               k == key + 1
    <3>1. \A i \in f..size : t[i] = ra[i]
      <4> HIDE DEF size
      <4> QED
        BY <1>11, <2>3
    <3>4. f \in Int /\ k \in Int
      BY <1>1, <2>1
    <3>2. Covers(ra, f, size, D, k, q)
      BY <1>3
    <3> HIDE DEF f, k, left, size
    <3>3. Covers(t, f, size, D, k, q)
      BY <1>1, <2>1, <3>1, <3>2, <3>4, Unmoved
    <3> QED
      BY <3>3 DEF f, k
  <2> HIDE DEF left, size
  <2> QED
    BY <1>1, <2>1, <2>2, <2>4, Joined
<1>13. /\ pre + ((key - 1) - p + 1) = left - 1 /\ (left - 1) + 1 = left /\ (key - 1) + 1 = key
       /\ dst - 1 = (left - 1) - 1
  <2>1. pre + ((key - 1) - p + 1) = left - 1 /\ (key - 1) + 1 = key /\ left \in Int
    BY <1>1
  <2>2. dst + 1 = left
    BY <1>7
  <2> HIDE DEF left
  <2> QED
    BY <1>2, <2>1, <2>2
<1>14. /\ \A i \in 1..(left - 1) : t[i] = wide[i]
       /\ \A i \in (size + 1)..n : t[i] = wide[i]
  <2>1. \A i \in 1..(left - 1) : i \in 1..n /\ i # left /\ i \in 1..left
    BY <1>1, <1>7
  <2>2. \A i \in (size + 1)..n : i \in 1..n /\ i # left
    BY <1>1, <1>7
  <2> QED
    BY <1>3, <1>11, <2>1, <2>2
<1> DEFINE s2 == FillStep(s, key, min, max)
<1>15. s2.ra = t /\ s2.src = src2 /\ s2.dst = dst - 1
  BY <1>4
<1> HIDE DEF s2, left, size
<1>16. Filling(s2, r, wide, C, pre, last, min, max, key - 1)
  BY <1>9, <1>12, <1>13, <1>14, <1>15 DEF Filling, p, q, D, n, left, size
<1> QED
  BY <1>16 DEF s2

\* All turns of the loop.
Filled(a, src, dst, min, max) ==
  FoldLeft(LAMBDA s, key : FillStep(s, key, min, max), [ra |-> a, src |-> src, dst |-> dst],
           [i \in 1 .. High(max) - High(min) + 1 |-> High(max) - i + 1])

\* The filling loop does every key of the range.
LEMMA FilledCorrect ==
  ASSUME NEW r \in Seq(Rows), NEW C \in Chunks, NEW min \in Uint32, NEW max \in Uint32, min <= max,
         NEW wide \in Seq(Rows), NEW pre \in Nat, NEW last \in Nat, pre <= last, last <= Len(wide),
         last <= Len(r),
         \A i \in 1..last : wide[i] = r[i],
         Covers(r, 1, pre, C, 0, High(min) - 1),
         pre + (High(max) - High(min) + 1) <= Len(wide),
         NEW src, NEW dst,
         [ra |-> wide, src |-> src, dst |-> dst] \in FillStates(Len(wide)),
         Filling([ra |-> wide, src |-> src, dst |-> dst], r, wide, C, pre, last, min, max, High(max))
  PROVE  LET s == Filled(wide, src, dst, min, max)
         IN  s \in FillStates(Len(wide)) /\ Filling(s, r, wide, C, pre, last, min, max, High(min) - 1)
<1> DEFINE a == [ra |-> wide, src |-> src, dst |-> dst]
           n == High(max) - High(min) + 1
           q == [i \in 1..n |-> High(max) - i + 1]
           A == FillStates(Len(wide))
           turn(b, i) == FillStep(b, q[i], min, max)
           G == [p \in (1..n) \X A |-> turn(p[2], p[1])]
           Step(it) == [x \in SUBSET DOMAIN q |-> IF x = {} THEN a ELSE turn(it[x \ {Max(x)}], Max(x))]
           it == CHOOSE f : f = Step(f)
           At(b, key) == Filling(b, r, wide, C, pre, last, min, max, key)
           J == [i \in 0..n |-> {b \in A : At(b, High(max) - i)}]
<1>1. n \in Nat /\ High(min) \in Int /\ High(max) \in Int /\ Len(wide) \in Nat
  BY RangeKeys, Sizes
<1>2. Len(q) = n /\ DOMAIN q = 1..n
  BY <1>1
<1>3. Filled(wide, src, dst, min, max) = it[1..n]
  <2>1. Filled(wide, src, dst, min, max) = it[DOMAIN q]
    BY DEF Filled, FoldLeft, MapThenFoldSet
  <2> QED
    BY <1>2, <2>1
<1>4. ASSUME NEW i \in 1..n
      PROVE  q[i] = High(max) - i + 1 /\ q[i] \in High(min)..High(max) /\ q[i] \in Int
  BY <1>1
<1>5. High(max) - n = High(min) - 1 /\ High(max) - 0 = High(max)
  BY <1>1
<1> HIDE DEF n, q
<1>6. \A b \in A, i \in 1..n : turn(b, i) \in A
  BY <1>1, <1>4, FillStepType
<1>7. a \in A /\ At(a, High(max))
  OBVIOUS
<1> HIDE DEF a, A
<1>8. G \in [(1..n) \X A -> A]
  <2> HIDE DEF turn
  <2> QED
    BY <1>6
<1>9. PICK f \in [SUBSET (1..n) -> A] : Folds(f, n, a, G)
  <2> HIDE DEF G
  <2> QED
    BY <1>1, <1>7, <1>8, FoldExists
<1>10. f = Step(f)
  <2>1. ASSUME NEW x \in SUBSET (1..n), x # {}
        PROVE  f[x] = turn(f[x \ {Max(x)}], Max(x))
    <3>1. Max(x) \in 1..n /\ x \ {Max(x)} \in SUBSET (1..n)
      BY <1>1, <2>1, LastIndex
    <3>2. f[x \ {Max(x)}] \in A
      BY <3>1
    <3> HIDE DEF turn
    <3> QED
      BY <1>9, <2>1, <3>1, <3>2 DEF Folds
  <2> HIDE DEF turn
  <2> QED
    BY <1>2, <1>9, <2>1 DEF Folds
<1>11. it = Step(it)
  BY <1>10
<1> HIDE DEF it, J, turn
<1>12. it[{}] = a /\ \A i \in 1..n : it[1..i] = turn(it[1..(i - 1)], i)
  <2>1. \A x \in SUBSET (1..n) : it[x] = IF x = {} THEN a ELSE turn(it[x \ {Max(x)}], Max(x))
    BY <1>2, <1>11
  <2> QED
    BY <1>1, <2>1, Segment
<1>13. it[{}] \in J[0]
  <2> HIDE DEF At
  <2> QED
    BY <1>1, <1>5, <1>7, <1>12 DEF J
<1>14. ASSUME NEW i \in 1..n, it[1..(i - 1)] \in J[i - 1] PROVE it[1..i] \in J[i]
  <2> DEFINE b == it[1..(i - 1)]
             key == q[i]
  <2>1. i - 1 \in 0..n /\ i \in 0..n
    BY <1>1
  <2>2. key = High(max) - (i - 1) /\ key - 1 = High(max) - i /\ key \in High(min)..High(max)
    BY <1>1, <1>4
  <2>3. b \in A /\ At(b, key)
    <3> HIDE DEF At
    <3> QED
      BY <1>14, <2>1, <2>2 DEF J
  <2>4. it[1..i] = FillStep(b, key, min, max) /\ it[1..i] \in A
    BY <1>6, <1>12, <2>3 DEF turn
  <2> DEFINE c == FillStep(b, key, min, max)
  <2> HIDE DEF b, key
  <2>5. At(c, key - 1)
    BY <2>2, <2>3, FillTurn DEF A
  <2> HIDE DEF At, c
  <2>6. At(it[1..i], High(max) - i)
    BY <2>2, <2>4, <2>5 DEF c
  <2> QED
    BY <2>1, <2>4, <2>6 DEF J
<1>15. it[1..n] \in J[n]
  <2> HIDE DEF At
  <2> QED
    BY <1>1, <1>13, <1>14, FoldKeeps
<1>16. it[1..n] \in A /\ At(it[1..n], High(min) - 1)
  <2> HIDE DEF At
  <2> QED
    BY <1>1, <1>5, <1>15 DEF J
<1> QED
  BY <1>3, <1>16 DEF A

\* Making room.
LEMMA Widened ==
  ASSUME NEW r \in Seq(Rows), NEW count \in 0..Len(r), NEW d \in Nat
  PROVE  LET wide == IF d > 0 THEN ra_shift_tail(r, count, d) ELSE r
         IN  /\ wide \in Seq(Rows) /\ Len(wide) = Len(r) + d
             /\ \A i \in 1..(Len(r) - count) : wide[i] = r[i]
             /\ Moves(r, wide, Len(r) - count + 1, Len(r), d)
<1> DEFINE n == Len(r)
           size == n + d
           wide == [i \in 1..size |-> IF i > size - count THEN r[i - d]
                                      ELSE IF i <= n THEN r[i] ELSE Junk]
<1>1. n \in Nat /\ size \in Nat /\ count \in Nat /\ Junk \in Rows
  BY DEF Junk, Entry, Rows
<1>2. ASSUME NEW i \in 1..size PROVE wide[i] \in Rows
  <2>1. i > size - count => i - d \in 1..n
    BY <1>1
  <2>2. i <= n => i \in 1..n
    OBVIOUS
  <2> HIDE DEF size, n
  <2> QED
    BY <1>1, <2>1, <2>2 DEF n
<1>3. wide \in Seq(Rows) /\ Len(wide) = size
  <2> HIDE DEF size
  <2>1. wide \in [1..size -> Rows]
    <3> DEFINE w(i) == wide[i]
    <3> QED
      BY <1>2
  <2> HIDE DEF wide
  <2> QED
    BY <1>1, <2>1
<1>4. \A i \in 1..(n - count) : i \in 1..size /\ ~(i > size - count) /\ i <= n
  BY <1>1
<1>5. \A i \in (n - count + 1)..n : i + d \in 1..size /\ i + d > size - count /\ (i + d) - d = i
  BY <1>1
<1>6. /\ \A i \in 1..(n - count) : wide[i] = r[i]
      /\ \A i \in (n - count + 1)..n : wide[i + d] = r[i]
  <2> HIDE DEF size, n
  <2> QED
    BY <1>4, <1>5
<1>7. CASE d > 0
  <2>1. ra_shift_tail(r, count, d) = wide
    BY DEF ra_shift_tail
  <2> HIDE DEF wide
  <2> QED
    BY <1>3, <1>6, <1>7, <2>1 DEF Moves
<1>8. CASE ~(d > 0)
  <2>1. d = 0 /\ \A i \in (n - count + 1)..n : i + d = i
    BY <1>8
  <2> QED
    BY <1>1, <1>8, <2>1 DEF Moves
<1> QED
  BY <1>7, <1>8

\* The chunks after adding a range.
LEMMA AddRangeCorrect ==
  ASSUME NEW r, NEW C, Holds(r, C), NEW min \in Uint32, NEW max \in Uint32, min <= max
  PROVE  Holds(roaring_bitmap_add_range_closed(r, min, max), Added(C, min, max))
<1> DEFINE p == High(min)
           q == High(max)
           n == Len(r)
           top == KeyCount - 1
           required == q - p + 1
           suffix == count_greater(r, n, q)
           last == n - suffix
           pre == count_less(r, last, p)
           common == last - pre
           d == required - common
           wide == IF required > common THEN ra_shift_tail(r, suffix, required - common) ELSE r
           size == pre + required
           D == Added(C, min, max)
           s0 == [ra |-> wide, src |-> last - 1, dst |-> Len(wide) - suffix - 1]
           s == Filled(wide, last - 1, Len(wide) - suffix - 1, min, max)
           t == s.ra
<1>1. /\ p \in Nat /\ q \in Nat /\ p <= q /\ q <= top /\ top \in Int /\ n \in Nat
      /\ r \in Seq(Rows) /\ C \in Chunks /\ Covers(r, 1, n, C, 0, top)
  BY RangeKeys, Sizes DEF Holds
<1> HIDE DEF p, q, n, top
<1>2. /\ suffix \in 0..n /\ last \in 0..n
      /\ \A i \in 1..last : r[i].key <= q
      /\ \A i \in (last + 1)..n : r[i].key > q
  <2>1. LastAbove(r, n, q, suffix)
    BY <1>1, CountGreater
  <2> HIDE DEF suffix
  <2> QED
    BY <1>1, <2>1 DEF LastAbove
<1> HIDE DEF suffix
<1>3. Covers(r, 1, last, C, 0, q) /\ Covers(r, last + 1, n, C, q + 1, top)
  <2> HIDE DEF last
  <2>1. /\ last \in Int /\ 1 <= last + 1 /\ last <= n /\ 0 <= q + 1 /\ n \in Int /\ q \in Int
        /\ q <= top /\ top \in Int
    BY <1>1, <1>2
  <2>2. Covers(r, 1, n, C, 0, top)
    BY <1>1
  <2>3. /\ \A i \in 1..last : r[i].key <= q
        /\ \A i \in (last + 1)..n : r[i].key > q
    BY <1>2
  <2>4. 1 \in Int /\ 0 \in Int
    OBVIOUS
  <2>5. Covers(r, 1, last, C, 0, q)
    BY <2>1, <2>2, <2>3, <2>4, Parted
  <2>6. Covers(r, last + 1, n, C, q + 1, top)
    BY <2>1, <2>2, <2>3, <2>4, Parted
  <2> QED
    BY <2>5, <2>6
<1>4. /\ pre \in 0..last
      /\ \A i \in 1..pre : r[i].key < p
      /\ \A i \in (pre + 1)..last : r[i].key >= p
  <2> HIDE DEF last
  <2>1. last \in Nat /\ q \in Int /\ p \in Int
    BY <1>1, <1>2
  <2> QED
    BY <1>3, <2>1, CountLess
<1> HIDE DEF pre
<1>5. Covers(r, 1, pre, C, 0, p - 1) /\ Covers(r, pre + 1, last, C, p, q)
  <2> DEFINE m == p - 1
  <2> HIDE DEF last
  <2>1. /\ last \in Int /\ pre \in Int /\ 1 <= pre + 1 /\ pre <= last /\ 0 <= m + 1 /\ m <= q
        /\ m + 1 = p /\ m \in Int /\ q \in Int
    BY <1>1, <1>2, <1>4
  <2>2. /\ \A i \in 1..pre : r[i].key <= m
        /\ \A i \in (pre + 1)..last : r[i].key > m
    <3>1. \A i \in 1..last : r[i].key \in 0..q
      BY <1>3 DEF Covers
    <3>2. \A i \in 1..pre : i \in 1..last
      BY <2>1
    <3>3. \A i \in (pre + 1)..last : i \in 1..last
      BY <1>4
    <3> QED
      BY <1>1, <1>4, <3>1, <3>2, <3>3
  <2> HIDE DEF m
  <2>3. Covers(r, 1, pre, C, 0, m) /\ Covers(r, pre + 1, last, C, m + 1, q)
    BY <1>3, <2>1, <2>2, Parted
  <2> QED
    BY <2>1, <2>3 DEF m
<1>6. common \in Nat /\ common <= required /\ d \in Nat /\ required \in Nat
  <2> DEFINE a == pre + 1
  <2>1. a \in Int /\ last \in Int /\ a <= last + 1 /\ p <= q + 1
    BY <1>1, <1>2, <1>4
  <2>2. Covers(r, a, last, C, p, q)
    BY <1>5
  <2> HIDE DEF a, last
  <2>3. last - a <= q - p
    BY <1>1, <2>1, <2>2, Spread
  <2> QED
    BY <1>1, <1>4, <2>1, <2>3 DEF a
<1>7. /\ wide \in Seq(Rows) /\ Len(wide) = n + d
      /\ \A i \in 1..last : wide[i] = r[i]
      /\ Moves(r, wide, last + 1, n, d)
  <2>1. required > common <=> d > 0
    BY <1>6
  <2>2. wide = IF d > 0 THEN ra_shift_tail(r, suffix, d) ELSE r
    BY <2>1
  <2> HIDE DEF wide, d
  <2> QED
    <3>1. /\ wide \in Seq(Rows) /\ Len(wide) = Len(r) + d
          /\ \A i \in 1..(Len(r) - suffix) : wide[i] = r[i]
          /\ Moves(r, wide, Len(r) - suffix + 1, Len(r), d)
      BY <1>1, <1>2, <1>6, <2>2, Widened DEF n
    <3> QED
      BY <3>1 DEF n
<1>8. size = last + d /\ size <= Len(wide) /\ last <= Len(wide) /\ last <= n /\ pre <= last
      /\ Len(wide) - suffix - 1 = size - 1 /\ size + (n - last) = Len(wide)
      /\ last \in Nat /\ pre \in Nat /\ size \in Nat /\ last + 1 \in Int /\ size + 1 = (last + 1) + d
      /\ pre <= size /\ size + 1 \in Int /\ pre + 1 <= size + 1
  <2> DEFINE w == Len(wide)
  <2>1. w = n + d
    BY <1>7
  <2> HIDE DEF w
  <2>2. size = last + d /\ size <= w /\ last <= w /\ last <= n /\ pre <= last
        /\ w - suffix - 1 = size - 1 /\ size + (n - last) = w
    <3>1. size = last + d /\ n - last = suffix
      BY <1>1, <1>2, <1>4
    <3>2. size \in Nat
      BY <1>1, <1>4
    <3>3. n \in Nat /\ suffix \in 0..n /\ last \in Nat /\ d \in Nat /\ pre <= last /\ pre \in Nat
          /\ size >= pre
      BY <1>1, <1>2, <1>4, <1>6
    <3> HIDE DEF size, last, d
    <3> QED
      BY <2>1, <3>1, <3>2, <3>3
  <2>3. /\ last \in Nat /\ pre \in Nat /\ size \in Nat /\ last + 1 \in Int /\ size + 1 = (last + 1) + d
        /\ pre <= size /\ size + 1 \in Int /\ pre + 1 <= size + 1
    BY <1>1, <1>2, <1>4, <1>6
  <2> QED
    BY <2>2, <2>3 DEF w
<1>9. roaring_bitmap_add_range_closed(r, min, max) = t
  <2>1. /\ pre + common - 1 = last - 1
        /\ [i \in 1..required |-> q - i + 1] = [i \in 1..(q - p + 1) |-> q - i + 1]
        /\ ~(min > max) /\ n - pre - suffix = common
    BY <1>1, <1>2, <1>4 DEF Uint32, suffix, n
  <2>2. roaring_bitmap_add_range_closed(r, min, max)
          = FoldLeft(LAMBDA b, key : FillStep(b, key, min, max),
                     [ra |-> wide, src |-> pre + common - 1, dst |-> Len(wide) - suffix - 1],
                     [i \in 1..required |-> q - i + 1]).ra
    BY <2>1 DEF roaring_bitmap_add_range_closed, FillStep, suffix, pre, p, q, n
  <2> QED
    BY <2>1, <2>2 DEF Filled, p, q
<1> HIDE DEF t
<1>10. s0 \in FillStates(Len(wide))
  <2>1. last - 1 \in (-1)..(Len(wide) - 1) /\ Len(wide) - suffix - 1 \in Int
    <3> DEFINE w == Len(wide)
    <3>1. w \in Nat /\ last <= w /\ suffix \in Nat /\ last \in Nat
      BY <1>2, <1>7, <1>8
    <3> HIDE DEF w, last
    <3>2. last - 1 \in (-1)..(w - 1) /\ w - suffix - 1 \in Int
      BY <3>1
    <3> QED
      BY <3>2 DEF w
  <2>2. wide \in [1..Len(wide) -> Rows]
    <3> HIDE DEF wide
    <3> QED
      BY <1>7
  <2> HIDE DEF wide, last
  <2> QED
    BY <2>1, <2>2 DEF FillStates
<1>11. Filling(s0, r, wide, C, pre, last, min, max, q)
  <2>1. s0.ra = wide /\ s0.src = last - 1 /\ s0.dst = size - 1 /\ (last - 1) + 1 = last
    BY <1>8
  <2>2. Covers(wide, size + 1, (size + 1) - 1, D, q + 1, q) /\ (size + 1) - 1 = size
    <3> DEFINE a == size + 1
               l == q + 1
    <3>1. a \in Int /\ l \in Int /\ q \in Int
      BY <1>1, <1>8
    <3>4. \A k \in l..q : D[k] = {}
      BY <1>1
    <3> HIDE DEF a, l, D, wide
    <3>2. Covers(wide, a, a - 1, D, l, q)
      BY <3>1, <3>4, NoEntry
    <3>3. (size + 1) - 1 = size
      BY <1>8
    <3> QED
      BY <3>2, <3>3 DEF a, l
  <2>3. last - 1 \in (pre - 1)..(last - 1)
    BY <1>8
  <2>4. Covers(r, pre + 1, last, C, p, q)
    BY <1>5
  <2> HIDE DEF s0, wide, last, d
  <2> QED
    BY <2>1, <2>2, <2>3, <2>4 DEF Filling, p, q
<1>12. /\ s \in FillStates(Len(wide))
       /\ Filling(s, r, wide, C, pre, last, min, max, p - 1)
  <2>1. /\ pre <= last /\ last <= Len(wide) /\ last <= Len(r)
        /\ Covers(r, 1, pre, C, 0, High(min) - 1)
        /\ pre + (High(max) - High(min) + 1) <= Len(wide)
        /\ pre \in Nat /\ last \in Nat
    BY <1>5, <1>8 DEF p, q, n
  <2> DEFINE src == last - 1
             dst == Len(wide) - suffix - 1
  <2>2. /\ [ra |-> wide, src |-> src, dst |-> dst] \in FillStates(Len(wide))
        /\ Filling([ra |-> wide, src |-> src, dst |-> dst], r, wide, C, pre, last, min, max, High(max))
    BY <1>10, <1>11 DEF q
  <2>3. s = Filled(wide, src, dst, min, max)
    OBVIOUS
  <2> HIDE DEF src, dst, wide, last, s
  <2> QED
    BY <1>1, <1>7, <2>1, <2>2, <2>3, FilledCorrect DEF p
<1>13. /\ t \in [1..Len(wide) -> Rows]
       /\ \A i \in 1..pre : t[i] = wide[i]
       /\ \A i \in (size + 1)..Len(wide) : t[i] = wide[i]
       /\ Covers(t, pre + 1, size, D, p, q)
  <2>1. pre + ((p - 1) - p + 1) = pre /\ (p - 1) + 1 = p
    BY <1>1, <1>4
  <2> HIDE DEF wide, s, D, last
  <2> QED
    BY <1>12, <2>1 DEF Filling, FillStates, t, p, q, D
<1>14. D \in Chunks /\ \A k \in Keys : k \notin p..q => D[k] = C[k]
  BY <1>1, AddedFacts DEF p, q
<1> HIDE DEF s, s0, wide, D, d, last, size
<1>15. Covers(t, 1, pre, D, 0, p - 1)
  <2>1. \A i \in 1..pre : t[i] = r[i]
    BY <1>7, <1>8, <1>13
  <2>2. \A k \in 0..(p - 1) : D[k] = C[k]
    BY <1>1, <1>14, Sizes DEF top
  <2> DEFINE m == p - 1
  <2>3. m \in Int /\ pre \in Int
    BY <1>1, <1>8
  <2> HIDE DEF m
  <2>4. Covers(t, 1, pre, D, 0, m)
    BY <1>5, <2>1, <2>2, <2>3, Unmoved DEF m
  <2> QED
    BY <2>4 DEF m
<1>16. Covers(t, size + 1, Len(wide), D, q + 1, top)
  <2> DEFINE a == last + 1
             f == size + 1
             l == q + 1
             w == Len(wide)
  <2>1. /\ a \in Int /\ n \in Int /\ d \in Int /\ f = a + d /\ l \in Int /\ top \in Int /\ f \in Int
    BY <1>1, <1>6, <1>8
  <2>6. w = n + d /\ w \in Int
    <3>1. w = n + d
      BY <1>7
    <3> HIDE DEF w
    <3> QED
      BY <2>1, <3>1
  <2>2. \A k \in l..top : D[k] = C[k]
    BY <1>1, <1>14, Sizes DEF top
  <2>3. Moves(r, t, a, n, d)
    <3>1. \A i \in a..n : i + d \in f..w
      <4> HIDE DEF a, f, w
      <4> QED
        BY <2>1, <2>6
    <3>2. \A i \in a..n : wide[i + d] = r[i]
      BY <1>7 DEF Moves
    <3> HIDE DEF a
    <3> QED
      BY <1>13, <3>1, <3>2 DEF Moves
  <2>4. Covers(r, a, n, C, l, top)
    BY <1>3
  <2> HIDE DEF a, f, l, w, top
  <2>5. Covers(t, f, w, D, l, top)
    BY <2>1, <2>2, <2>3, <2>4, <2>6, Shifted
  <2> QED
    BY <2>5 DEF f, l, w
<1>17. Covers(t, 1, Len(wide), D, 0, top)
  <2> DEFINE w == Len(wide)
             m == p - 1
  <2>1. /\ w \in Int /\ m \in Int /\ m + 1 = p /\ pre \in Int /\ size \in Int /\ 1 <= pre + 1 /\ pre <= size
        /\ size <= w /\ 0 <= m + 1 /\ m <= q /\ q <= top /\ 0 <= q + 1 /\ 1 <= size + 1 /\ q \in Int /\ top \in Int
    <3>1. w = n + d /\ size <= w
      BY <1>7, <1>8
    <3> HIDE DEF w
    <3> QED
      BY <1>1, <1>6, <1>8, <3>1
  <2>2. Covers(t, 1, pre, D, 0, m) /\ Covers(t, pre + 1, size, D, m + 1, q)
    BY <1>13, <1>15, <2>1
  <2>3. Covers(t, size + 1, w, D, q + 1, top)
    BY <1>16
  <2> HIDE DEF m, w, top
  <2>4. Covers(t, 1, size, D, 0, q)
    BY <2>1, <2>2, Joined
  <2>5. Covers(t, 1, w, D, 0, top)
    BY <2>1, <2>3, <2>4, Joined
  <2> QED
    BY <2>5 DEF w
<1>18. t \in Seq(Rows) /\ Len(t) = Len(wide)
  <2>1. Len(wide) \in Nat
    BY <1>7
  <2> QED
    BY <1>13, <2>1
<1> QED
  BY <1>9, <1>14, <1>17, <1>18 DEF Holds, D, top, p, q

-----------------------------------------------------------------------------
(* Removing a range.                                                       *)

\* The chunks with the range min .. max removed.
Lessened(C, min, max) ==
  [h \in Keys |-> IF h \in High(min)..High(max) THEN C[h] \ PartOf(min, max, h) ELSE C[h]]

\* A range takes its part from every key it covers, and nothing from the others.
LEMMA LessenedFacts ==
  ASSUME NEW C \in Chunks, NEW min \in Uint32, NEW max \in Uint32, min <= max
  PROVE  /\ Lessened(C, min, max) \in Chunks
         /\ \A k \in High(min)..High(max) :
              k \in Keys /\ Lessened(C, min, max)[k] = C[k] \ PartOf(min, max, k)
         /\ \A k \in Keys : k \notin High(min)..High(max) => Lessened(C, min, max)[k] = C[k]
<1>1. High(min)..High(max) \subseteq Keys
  BY RangeKeys
<1>2. \A k \in Keys : C[k] \in SUBSET Lows
  BY DEF Chunks
<1>3. Lessened(C, min, max) \in Chunks
  BY <1>2 DEF Lessened, Chunks
<1> QED
  BY <1>1, <1>3 DEF Lessened

\* One turn of the loop that closes up the entries that are left.
RemoveStep(s, src, min, max) ==
  LET e == s.ra[src + 1]
      rest == e.container \ PartOf(min, max, e.key)
  IN  IF rest = {} THEN s
      ELSE [ra |-> [s.ra EXCEPT ![s.dst + 1] = Entry(e.key, rest)], dst |-> s.dst + 1]

\* Its state before the turn of src, when the keys up to some k are done: the
\* entries of the range from src on have not been overwritten.
Removing(s, r, C, first, end, min, max, src) ==
  /\ s.dst \in first..src
  /\ \A i \in 1..first : s.ra[i] = r[i]
  /\ \A i \in (src + 1)..Len(r) : s.ra[i] = r[i]
  /\ \E k \in (High(min) - 1)..High(max) :
       /\ Covers(s.ra, first + 1, s.dst, Lessened(C, min, max), High(min), k)
       /\ Covers(r, src + 1, end, C, k + 1, High(max))

RemoveStates(n) == [ra : [1..n -> Rows], dst : Int]

\* One turn of the removing loop leaves rows and places in the array.
LEMMA RemoveStepType ==
  ASSUME NEW n \in Nat, NEW s \in RemoveStates(n), NEW src \in Int, src + 1 \in 1..n,
         NEW min, NEW max
  PROVE  RemoveStep(s, src, min, max) \in RemoveStates(n)
<1> DEFINE e == s.ra[src + 1]
           rest == e.container \ PartOf(min, max, e.key)
           f == Entry(e.key, rest)
           D == 1..n
           d == s.dst + 1
<1>1. s.ra \in [D -> Rows] /\ s.dst \in Int /\ d \in Int
  BY DEF RemoveStates
<1>2. e \in Rows
  BY <1>1
<1> HIDE DEF e
<1>3. f \in Rows
  BY <1>2 DEF Rows, Entry
<1>4. RemoveStep(s, src, min, max) = IF rest = {} THEN s ELSE [ra |-> [s.ra EXCEPT ![d] = f], dst |-> d]
  BY DEF RemoveStep, e
<1> HIDE DEF f, D, d, rest
<1>5. [s.ra EXCEPT ![d] = f] \in [D -> Rows]
  BY <1>1, <1>3
<1> QED
  BY <1>1, <1>4, <1>5 DEF RemoveStates, D

\* One turn of the removing loop does one row more and keeps what is not empty.
LEMMA RemoveTurn ==
  ASSUME NEW r \in Seq(Rows), NEW C \in Chunks, NEW min \in Uint32, NEW max \in Uint32, min <= max,
         NEW first \in Nat, NEW end \in Nat, end <= Len(r),
         NEW src \in first..(end - 1),
         NEW s \in RemoveStates(Len(r)),
         Removing(s, r, C, first, end, min, max, src)
  PROVE  Removing(RemoveStep(s, src, min, max), r, C, first, end, min, max, src + 1)
<1> DEFINE p == High(min)
           q == High(max)
           D == Lessened(C, min, max)
           n == Len(r)
           ra == s.ra
           dst == s.dst
           a == first + 1
           i == src + 1
           e == ra[src + 1]
           rest == e.container \ PartOf(min, max, e.key)
           f == Entry(e.key, rest)
           t == [ra EXCEPT ![dst + 1] = f]
           s2 == RemoveStep(s, src, min, max)
           k2 == e.key
<1>1. /\ p \in Nat /\ q \in Nat /\ p <= q /\ n \in Nat /\ i \in 1..n /\ i <= end /\ i \in Int
      /\ src \in Int /\ first <= src /\ src + 1 = i /\ a = first + 1 /\ a \in Int /\ end \in Int
  BY RangeKeys, Sizes
<1>2. ra \in [1..n -> Rows] /\ dst \in Int
  BY DEF RemoveStates
<1>3. /\ dst \in first..src
      /\ \A j \in 1..first : ra[j] = r[j]
      /\ \A j \in i..n : ra[j] = r[j]
  BY DEF Removing
<1>4. PICK k \in (p - 1)..q : Covers(ra, a, dst, D, p, k) /\ Covers(r, i, end, C, k + 1, q)
  BY DEF Removing
<1>5. s2 = IF rest = {} THEN s ELSE [ra |-> t, dst |-> dst + 1]
  BY DEF RemoveStep
<1>6. /\ D \in Chunks
      /\ \A h \in p..q : h \in Keys /\ D[h] = C[h] \ PartOf(min, max, h)
  BY LessenedFacts
<1> HIDE DEF p, q, D, n, ra, dst, a, i
<1>7. e = r[i] /\ ra[i] = r[i]
  BY <1>1, <1>3 DEF i
<1> HIDE DEF e
<1>8. k \in Int /\ p <= k + 1 /\ k <= q /\ k2 \in (k + 1)..q /\ e.container = C[k2] /\ k2 \in p..q
  <2>1. k \in Int /\ p <= k + 1 /\ k <= q
    BY <1>1
  <2>2. i \in i..end
    BY <1>1
  <2>3. r[i].key \in (k + 1)..q /\ r[i].container = C[r[i].key]
    BY <1>4, <2>2 DEF Covers
  <2> QED
    BY <1>1, <1>7, <2>1, <2>3
<1>9. k2 \in Int /\ k + 1 <= k2 /\ k2 <= q /\ D[k2] = rest
  BY <1>1, <1>6, <1>8
<1>10. Covers(r, i, i, C, k + 1, k2) /\ Covers(r, i + 1, end, C, k2 + 1, q)
  <2> DEFINE l == k + 1
  <2>1. l \in Int /\ i <= i + 1 /\ i <= end /\ l <= k2 + 1 /\ q \in Int
    BY <1>1, <1>8, <1>9
  <2>2. \A j \in i..i : r[j].key <= k2
    BY <1>1, <1>7, <1>9
  <2>3. \A j \in (i + 1)..end : r[j].key > k2
    <3>1. \A j \in (i + 1)..end : j \in i..end /\ i \in i..end /\ i < j
      BY <1>1
    <3>2. \A j \in i..end : r[j].key \in (k + 1)..q
      BY <1>4 DEF Covers
    <3>3. \A j \in (i + 1)..end : r[i].key < r[j].key
      BY <1>4, <3>1 DEF Covers
    <3> QED
      BY <1>1, <1>7, <1>8, <3>1, <3>2, <3>3
  <2>4. Covers(r, i, end, C, l, q)
    BY <1>4
  <2> HIDE DEF l, k2
  <2>5. Covers(r, i, i, C, l, k2)
    BY <1>1, <1>9, <2>1, <2>2, <2>3, <2>4, Parted
  <2>6. Covers(r, i + 1, end, C, k2 + 1, q)
    BY <1>1, <1>9, <2>1, <2>2, <2>3, <2>4, Parted
  <2> QED
    BY <2>5, <2>6 DEF l
<1>11. \A h \in (k + 1)..k2 : h # k2 => D[h] = {}
  <2>1. SUFFICES ASSUME NEW h \in (k + 1)..k2, h # k2 PROVE D[h] = {}
    OBVIOUS
  <2>2. C[h] = {}
    <3>1. SUFFICES ASSUME C[h] # {} PROVE FALSE
      OBVIOUS
    <3>2. \E j \in i..i : r[j].key = h
      BY <1>10, <3>1 DEF Covers
    <3>3. r[i].key = h
      BY <1>1, <3>2
    <3> QED
      BY <1>7, <2>1, <3>3
  <2>3. h \in p..q
    BY <1>1, <1>8, <1>9
  <2> QED
    BY <1>6, <2>2, <2>3
<1> HIDE DEF k2
<1>12. /\ s2.dst \in first..i
       /\ \A j \in 1..first : s2.ra[j] = r[j]
       /\ \A j \in (i + 1)..n : s2.ra[j] = r[j]
       /\ Covers(s2.ra, a, s2.dst, D, p, k2)
  <2>1. CASE rest = {}
    <3>1. s2.ra = ra /\ s2.dst = dst
      BY <1>5, <2>1 DEF ra, dst
    <3>2. \A h \in p..k2 : h \notin p..k => D[h] = {}
      BY <1>1, <1>8, <1>9, <1>11, <2>1
    <3>3. Covers(ra, a, dst, D, p, k2)
      <4>1. p <= p /\ k <= k2 /\ p \in Int /\ dst \in Int
        BY <1>1, <1>2, <1>8, <1>9
      <4> QED
        BY <1>1, <1>4, <1>8, <1>9, <3>2, <4>1, Extended
    <3>4. dst \in first..i
      BY <1>1, <1>3
    <3>5. \A j \in (i + 1)..n : j \in i..n
      BY <1>1
    <3> HIDE DEF s2
    <3> QED
      BY <1>3, <3>1, <3>3, <3>4, <3>5
  <2>2. CASE rest # {}
    <3> DEFINE d == dst + 1
    <3>1. s2.ra = t /\ s2.dst = d
      BY <1>5, <2>2
    <3>2. d \in Int /\ d \in 1..n /\ d \in first..i /\ a <= d /\ d <= i /\ dst \in Int /\ dst = d - 1 /\ d > first
      BY <1>1, <1>2, <1>3
    <3> HIDE DEF s2, d, f, rest
    <3>3. t[d] = f /\ \A j \in 1..n : j # d => t[j] = ra[j]
      BY <1>2, <3>2 DEF d
    <3>4. f.key = k2 /\ f.container = D[k2]
      BY <1>9 DEF f, Entry, k2
    <3> HIDE DEF t
    <3>5. Covers(t, a, dst, D, p, k)
      <4>1. \A j \in a..dst : t[j] = ra[j]
        <5>1. \A j \in a..dst : j \in 1..n /\ j # d
          BY <1>1, <3>2
        <5> QED
          BY <3>3, <5>1
      <4> QED
        BY <1>1, <1>4, <1>8, <3>2, <4>1, Unmoved
    <3>6. Covers(t, d, d, D, k + 1, k2)
      <4> DEFINE l == k + 1
      <4>1. l \in Int /\ l <= k2 /\ k2 <= k2
        BY <1>8, <1>9
      <4>2. Covers(t, d, d, D, k2, k2)
        BY <1>9, <2>2, <3>2, <3>3, <3>4, OneEntry
      <4>3. \A h \in l..k2 : h \notin k2..k2 => D[h] = {}
        BY <1>9, <1>11, <4>1
      <4> HIDE DEF l
      <4>4. Covers(t, d, d, D, l, k2)
        BY <1>9, <3>2, <4>1, <4>2, <4>3, Extended
      <4> QED
        BY <4>4 DEF l
    <3>7. Covers(t, a, d, D, p, k2)
      <4>1. dst + 1 = d /\ a <= dst + 1 /\ dst <= d /\ p <= k + 1 /\ k <= k2 /\ p \in Int
        BY <1>1, <1>8, <1>9, <3>2
      <4> QED
        BY <1>1, <1>8, <1>9, <3>2, <3>5, <3>6, <4>1, Joined
    <3>8. \A j \in 1..first : t[j] = r[j]
      <4>1. \A j \in 1..first : j \in 1..n /\ j # d
        BY <1>1, <3>2
      <4> QED
        BY <1>3, <3>3, <4>1
    <3>9. \A j \in (i + 1)..n : t[j] = r[j]
      <4>1. \A j \in (i + 1)..n : j \in 1..n /\ j # d /\ j \in i..n
        BY <1>1, <3>2
      <4> QED
        BY <1>3, <3>3, <4>1
    <3> QED
      BY <3>1, <3>2, <3>7, <3>8, <3>9
  <2> QED
    BY <2>1, <2>2
<1>13. k2 \in (p - 1)..q
  BY <1>1, <1>8
<1> HIDE DEF s2
<1>14. Removing(s2, r, C, first, end, min, max, i)
  BY <1>10, <1>12, <1>13 DEF Removing, p, q, D, n, a
<1> QED
  BY <1>14 DEF s2, i

\* All turns of the loop.
Compacted(a, first, end, min, max) ==
  FoldLeft(LAMBDA s, src : RemoveStep(s, src, min, max), [ra |-> a, dst |-> first],
           [i \in 1 .. end - first |-> first + i - 1])

\* The removing loop does every row of the range.
LEMMA CompactedCorrect ==
  ASSUME NEW r \in Seq(Rows), NEW C \in Chunks, NEW min \in Uint32, NEW max \in Uint32, min <= max,
         NEW first \in Nat, NEW end \in Nat, first <= end, end <= Len(r),
         [ra |-> r, dst |-> first] \in RemoveStates(Len(r)),
         Removing([ra |-> r, dst |-> first], r, C, first, end, min, max, first)
  PROVE  LET s == Compacted(r, first, end, min, max)
         IN  s \in RemoveStates(Len(r)) /\ Removing(s, r, C, first, end, min, max, end)
<1> DEFINE a == [ra |-> r, dst |-> first]
           n == end - first
           q == [i \in 1..n |-> first + i - 1]
           A == RemoveStates(Len(r))
           turn(b, i) == RemoveStep(b, q[i], min, max)
           G == [p \in (1..n) \X A |-> turn(p[2], p[1])]
           Step(it) == [x \in SUBSET DOMAIN q |-> IF x = {} THEN a ELSE turn(it[x \ {Max(x)}], Max(x))]
           it == CHOOSE f : f = Step(f)
           At(b, src) == Removing(b, r, C, first, end, min, max, src)
           J == [i \in 0..n |-> {b \in A : At(b, first + i)}]
<1>1. n \in Nat /\ Len(r) \in Nat
  OBVIOUS
<1>2. Len(q) = n /\ DOMAIN q = 1..n
  BY <1>1
<1>3. Compacted(r, first, end, min, max) = it[1..n]
  <2>1. Compacted(r, first, end, min, max) = it[DOMAIN q]
    BY DEF Compacted, FoldLeft, MapThenFoldSet
  <2> QED
    BY <1>2, <2>1
<1>4. ASSUME NEW i \in 1..n
      PROVE  /\ q[i] = first + (i - 1) /\ q[i] + 1 = first + i
             /\ q[i] \in first..(end - 1) /\ q[i] \in Int /\ q[i] + 1 \in 1..Len(r)
  BY <1>1
<1>5. first + n = end /\ first + 0 = first
  BY <1>1
<1> HIDE DEF n, q
<1>6. \A b \in A, i \in 1..n : turn(b, i) \in A
  BY <1>1, <1>4, RemoveStepType
<1>7. a \in A /\ At(a, first)
  OBVIOUS
<1> HIDE DEF a, A
<1>8. G \in [(1..n) \X A -> A]
  <2> HIDE DEF turn
  <2> QED
    BY <1>6
<1>9. PICK f \in [SUBSET (1..n) -> A] : Folds(f, n, a, G)
  <2> HIDE DEF G
  <2> QED
    BY <1>1, <1>7, <1>8, FoldExists
<1>10. f = Step(f)
  <2>1. ASSUME NEW x \in SUBSET (1..n), x # {}
        PROVE  f[x] = turn(f[x \ {Max(x)}], Max(x))
    <3>1. Max(x) \in 1..n /\ x \ {Max(x)} \in SUBSET (1..n)
      BY <1>1, <2>1, LastIndex
    <3>2. f[x \ {Max(x)}] \in A
      BY <3>1
    <3> HIDE DEF turn
    <3> QED
      BY <1>9, <2>1, <3>1, <3>2 DEF Folds
  <2> HIDE DEF turn
  <2> QED
    BY <1>2, <1>9, <2>1 DEF Folds
<1>11. it = Step(it)
  BY <1>10
<1> HIDE DEF it, J, turn
<1>12. it[{}] = a /\ \A i \in 1..n : it[1..i] = turn(it[1..(i - 1)], i)
  <2>1. \A x \in SUBSET (1..n) : it[x] = IF x = {} THEN a ELSE turn(it[x \ {Max(x)}], Max(x))
    BY <1>2, <1>11
  <2> QED
    BY <1>1, <2>1, Segment
<1>13. it[{}] \in J[0]
  <2> HIDE DEF At
  <2> QED
    BY <1>1, <1>5, <1>7, <1>12 DEF J
<1>14. ASSUME NEW i \in 1..n, it[1..(i - 1)] \in J[i - 1] PROVE it[1..i] \in J[i]
  <2> DEFINE b == it[1..(i - 1)]
             src == q[i]
  <2>1. i - 1 \in 0..n /\ i \in 0..n
    BY <1>1
  <2>2. src = first + (i - 1) /\ src + 1 = first + i /\ src \in first..(end - 1)
    BY <1>4
  <2>3. b \in A /\ At(b, src)
    <3> HIDE DEF At
    <3> QED
      BY <1>14, <2>1, <2>2 DEF J
  <2>4. it[1..i] = RemoveStep(b, src, min, max) /\ it[1..i] \in A
    BY <1>6, <1>12, <2>3 DEF turn
  <2> DEFINE c == RemoveStep(b, src, min, max)
  <2> HIDE DEF b, src
  <2>5. At(c, src + 1)
    BY <2>2, <2>3, RemoveTurn DEF A
  <2> HIDE DEF At, c
  <2>6. At(it[1..i], first + i)
    BY <2>2, <2>4, <2>5 DEF c
  <2> QED
    BY <2>1, <2>4, <2>6 DEF J
<1>15. it[1..n] \in J[n]
  <2> HIDE DEF At
  <2> QED
    BY <1>1, <1>13, <1>14, FoldKeeps
<1>16. it[1..n] \in A /\ At(it[1..n], end)
  <2> HIDE DEF At
  <2> QED
    BY <1>1, <1>5, <1>15 DEF J
<1> QED
  BY <1>3, <1>16 DEF A

\* w is r after its last count entries moved d places to the front.
Closed(w, r, n, count, d) ==
  /\ w \in Seq(Rows) /\ Len(w) = n - d
  /\ \A i \in 1..(n - count - d) : w[i] = r[i]
  /\ Moves(r, w, n - count + 1, n, -d)

\* Closing the gap: the last count entries move up by d.
LEMMA Narrowed ==
  ASSUME NEW n \in Nat, NEW r \in [1..n -> Rows], NEW count \in 0..n, NEW d \in Nat, d <= n - count
  PROVE  Closed(IF d > 0 THEN ra_shift_tail(r, count, -d) ELSE r, r, n, count, d)
<1> DEFINE size == n + (-d)
           rest == [i \in 1..size |-> IF i > size - count THEN r[i - (-d)]
                                      ELSE IF i <= n THEN r[i] ELSE Junk]
<1>1. /\ n \in Nat /\ size \in Nat /\ count \in Nat /\ size = n - d /\ Len(r) = n /\ r \in Seq(Rows)
      /\ -d \in Int
  OBVIOUS
<1>2. ASSUME NEW i \in 1..size PROVE rest[i] \in Rows
  <2>1. i > size - count => i - (-d) \in 1..n
    BY <1>1
  <2>2. i \in 1..n
    OBVIOUS
  <2> HIDE DEF size
  <2> QED
    BY <1>1, <2>1, <2>2
<1>3. rest \in Seq(Rows) /\ Len(rest) = size
  <2> HIDE DEF size
  <2>1. rest \in [1..size -> Rows]
    <3> DEFINE w(i) == rest[i]
    <3> QED
      BY <1>2
  <2> HIDE DEF rest
  <2> QED
    BY <1>1, <2>1
<1>4. \A i \in 1..(n - count - d) : i \in 1..size /\ ~(i > size - count) /\ i <= n
  BY <1>1
<1>5. \A i \in (n - count + 1)..n :
        i + (-d) \in 1..size /\ i + (-d) > size - count /\ (i + (-d)) - (-d) = i
  BY <1>1
<1>6. /\ \A i \in 1..(n - count - d) : rest[i] = r[i]
      /\ \A i \in (n - count + 1)..n : rest[i + (-d)] = r[i]
  <2> HIDE DEF size
  <2> QED
    BY <1>4, <1>5
<1>7. CASE d > 0
  <2>1. ra_shift_tail(r, count, -d) = rest
    BY <1>1 DEF ra_shift_tail
  <2> HIDE DEF rest
  <2> QED
    BY <1>1, <1>3, <1>6, <1>7, <2>1 DEF Moves, Closed
<1>8. CASE ~(d > 0)
  <2>1. d = 0 /\ \A i \in (n - count + 1)..n : i + (-d) = i
    BY <1>8
  <2> QED
    BY <1>1, <1>8, <2>1 DEF Moves, Closed
<1> QED
  BY <1>7, <1>8

\* The chunks after removing a range.
LEMMA RemoveRangeCorrect ==
  ASSUME NEW r, NEW C, Holds(r, C), NEW min \in Uint32, NEW max \in Uint32, min <= max
  PROVE  Holds(roaring_bitmap_remove_range_closed(r, min, max), Lessened(C, min, max))
<1> DEFINE p == High(min)
           q == High(max)
           n == Len(r)
           top == KeyCount - 1
           suffix == count_greater(r, n, q)
           end == n - suffix
           first == count_less(r, n, p)
           D == Lessened(C, min, max)
           s0 == [ra |-> r, dst |-> first]
           s == Compacted(r, first, end, min, max)
           t == s.ra
           dst == s.dst
           d == end - dst
           w == IF d > 0 THEN ra_shift_tail(t, suffix, -d) ELSE t
<1>1. /\ p \in Nat /\ q \in Nat /\ p <= q /\ q <= top /\ top \in Int /\ n \in Nat
      /\ r \in Seq(Rows) /\ C \in Chunks /\ Covers(r, 1, n, C, 0, top)
  BY RangeKeys, Sizes DEF Holds
<1> HIDE DEF p, q, n, top
<1>2. /\ suffix \in 0..n /\ end \in 0..n
      /\ \A i \in 1..end : r[i].key <= q
      /\ \A i \in (end + 1)..n : r[i].key > q
  <2>1. LastAbove(r, n, q, suffix)
    BY <1>1, CountGreater
  <2> HIDE DEF suffix
  <2> QED
    BY <1>1, <2>1 DEF LastAbove
<1>3. /\ first \in 0..n
      /\ \A i \in 1..first : r[i].key < p
      /\ \A i \in (first + 1)..n : r[i].key >= p
  <2>1. p \in Int /\ top \in Int /\ n \in Nat /\ Covers(r, 1, n, C, 0, top)
    BY <1>1
  <2> QED
    BY <2>1, CountLess
<1>3a. suffix = n - end
  BY <1>1, <1>2
<1>3b. \A i \in 1..n : r[i].key \in Int
  BY <1>1 DEF Covers
<1>3c. roaring_bitmap_remove_range_closed(r, min, max)
         = IF end > dst THEN ra_shift_tail(t, n - end, dst - end) ELSE t
  <2>1. ~(min > max)
    BY DEF Uint32
  <2> QED
    BY <2>1 DEF roaring_bitmap_remove_range_closed, RemoveStep, Compacted, suffix, first, p, q, n
<1> HIDE DEF first, end, suffix
<1>4. first <= end
  <2>1. CASE first > end
    <3>1. first \in 1..first /\ first \in (end + 1)..n /\ first \in 1..n
      BY <1>1, <1>2, <1>3, <2>1
    <3>2. r[first].key < p /\ r[first].key > q /\ r[first].key \in Int
      BY <1>2, <1>3, <1>3b, <3>1
    <3> QED
      BY <1>1, <3>2
  <2> QED
    BY <1>1, <1>2, <1>3, <2>1
<1>5. Covers(r, 1, end, C, 0, q) /\ Covers(r, end + 1, n, C, q + 1, top)
  <2>1. /\ end \in Int /\ 1 <= end + 1 /\ end <= n /\ 0 <= q + 1 /\ n \in Int /\ q \in Int
        /\ q <= top /\ top \in Int
    BY <1>1, <1>2
  <2>2. Covers(r, 1, n, C, 0, top)
    BY <1>1
  <2>3. /\ \A i \in 1..end : r[i].key <= q
        /\ \A i \in (end + 1)..n : r[i].key > q
    BY <1>2
  <2>4. 1 \in Int /\ 0 \in Int
    OBVIOUS
  <2>5. Covers(r, 1, end, C, 0, q)
    BY <2>1, <2>2, <2>3, <2>4, Parted
  <2>6. Covers(r, end + 1, n, C, q + 1, top)
    BY <2>1, <2>2, <2>3, <2>4, Parted
  <2> QED
    BY <2>5, <2>6
<1>6. Covers(r, 1, first, C, 0, p - 1) /\ Covers(r, first + 1, end, C, p, q)
  <2> DEFINE m == p - 1
  <2>1. /\ first \in Int /\ end \in Int /\ 1 <= first + 1 /\ first <= end /\ 0 <= m + 1 /\ m <= q
        /\ m + 1 = p /\ m \in Int /\ q \in Int
    BY <1>1, <1>2, <1>3, <1>4
  <2>2. /\ \A i \in 1..first : r[i].key <= m
        /\ \A i \in (first + 1)..end : r[i].key > m
    <3>1. /\ \A i \in 1..first : i \in 1..n
          /\ \A i \in (first + 1)..end : i \in (first + 1)..n /\ i \in 1..n
      BY <1>1, <1>2, <1>3, <1>4
    <3> QED
      BY <1>1, <1>3, <1>3b, <3>1
  <2>3. Covers(r, 1, end, C, 0, q) /\ 0 \in Int /\ 1 \in Int
    BY <1>5
  <2> HIDE DEF m
  <2>4. Covers(r, 1, first, C, 0, m)
    BY <2>1, <2>2, <2>3, Parted
  <2>5. Covers(r, first + 1, end, C, m + 1, q)
    BY <2>1, <2>2, <2>3, Parted
  <2> QED
    BY <2>1, <2>4, <2>5 DEF m
<1>7. s0 \in RemoveStates(n) /\ Removing(s0, r, C, first, end, min, max, first)
  <2> DEFINE m == p - 1
             a == first + 1
  <2>1. m \in (p - 1)..q /\ first \in first..first /\ m + 1 = p /\ a \in Int /\ p \in Int /\ m \in Int
    BY <1>1, <1>3
  <2>2. Covers(r, a, a - 1, D, p, m) /\ a - 1 = first
    <3>1. \A h \in p..m : D[h] = {}
      BY <1>1
    <3>2. a - 1 = first
      BY <1>3
    <3> HIDE DEF a, m, D
    <3> QED
      BY <2>1, <3>1, <3>2, NoEntry
  <2>3. Covers(r, first + 1, end, C, m + 1, q)
    BY <1>6, <2>1
  <2>4. r \in [1..n -> Rows] /\ first \in Int
    BY <1>1, <1>3 DEF n
  <2>5. s0.ra = r /\ s0.dst = first
    OBVIOUS
  <2>6. \E k \in (p - 1)..q : /\ Covers(r, first + 1, first, D, p, k)
                              /\ Covers(r, first + 1, end, C, k + 1, q)
    <3>1. Covers(r, first + 1, first, D, p, m)
      BY <2>2
    <3> HIDE DEF m, D
    <3> QED
      BY <2>1, <2>3, <3>1
  <2>7. s0 \in RemoveStates(n)
    BY <2>4 DEF RemoveStates
  <2> HIDE DEF s0, D
  <2>8. Removing(s0, r, C, first, end, min, max, first)
    BY <2>1, <2>5, <2>6 DEF Removing, p, q, D
  <2> QED
    BY <2>7, <2>8
<1>8. s \in RemoveStates(n) /\ Removing(s, r, C, first, end, min, max, end)
  <2>1. first \in Nat /\ end \in Nat /\ first <= end /\ end <= Len(r)
    BY <1>1, <1>2, <1>3, <1>4 DEF n
  <2>2. s0 \in RemoveStates(Len(r)) /\ Removing(s0, r, C, first, end, min, max, first)
    BY <1>7 DEF n
  <2> QED
    BY <1>1, <2>1, <2>2, CompactedCorrect DEF n
<1>9. /\ D \in Chunks
      /\ \A h \in p..q : h \in Keys /\ D[h] = C[h] \ PartOf(min, max, h)
      /\ \A h \in Keys : h \notin p..q => D[h] = C[h]
  <2>1. D \in Chunks
    BY <1>1, LessenedFacts
  <2>2. \A h \in p..q : h \in Keys /\ D[h] = C[h] \ PartOf(min, max, h)
    BY <1>1, LessenedFacts DEF p, q
  <2>3. \A h \in Keys : h \notin p..q => D[h] = C[h]
    BY <1>1, LessenedFacts DEF p, q
  <2> HIDE DEF D
  <2> QED
    BY <2>1, <2>2, <2>3
<1> HIDE DEF D, s, s0
<1>10. /\ t \in [1..n -> Rows] /\ dst \in first..end
       /\ \A j \in 1..first : t[j] = r[j]
       /\ \A j \in (end + 1)..n : t[j] = r[j]
  BY <1>8 DEF Removing, RemoveStates, n
<1>11. Covers(t, first + 1, dst, D, p, q)
  <2> DEFINE a == first + 1
             b == end + 1
  <2>1. PICK k \in (p - 1)..q : Covers(t, a, dst, D, p, k) /\ Covers(r, b, end, C, k + 1, q)
    BY <1>8 DEF Removing, p, q, D
  <2>2. k \in Int /\ a \in Int /\ dst \in Int /\ p \in Int /\ q \in Int /\ p <= p /\ k <= q /\ ~(b <= end)
    BY <1>1, <1>2, <1>3, <1>10
  <2>3. \A h \in p..q : h \notin p..k => D[h] = {}
    <3>1. SUFFICES ASSUME NEW h \in p..q, h \notin p..k PROVE D[h] = {}
      OBVIOUS
    <3>2. h \in (k + 1)..q
      BY <1>1, <2>2, <3>1
    <3>3. C[h] = {}
      <4>1. \A i \in b..end : FALSE
        BY <1>2
      <4> QED
        BY <2>1, <3>2, <4>1 DEF Covers
    <3> QED
      BY <1>9, <3>1, <3>3
  <2> HIDE DEF a, b
  <2>4. Covers(t, a, dst, D, p, q)
    BY <2>1, <2>2, <2>3, Extended
  <2> QED
    BY <2>4 DEF a
<1> HIDE DEF t, dst
<1>12. /\ d \in Nat /\ d <= n - suffix /\ n - suffix = end /\ n - suffix - d = dst
       /\ n - end = suffix /\ dst - end = -d /\ dst \in Int /\ first <= dst /\ dst <= end
       /\ first \in Nat /\ end \in Nat /\ dst + 1 = (end + 1) + (-d)
       /\ d > 0 <=> end > dst
  <2>1. first \in Nat /\ end \in Nat /\ n \in Nat /\ end <= n /\ suffix = n - end /\ dst \in first..end
    BY <1>1, <1>2, <1>3, <1>3a, <1>10
  <2> QED
    BY <2>1
<1>13. roaring_bitmap_remove_range_closed(r, min, max) = w
  BY <1>3c, <1>12
<1> HIDE DEF d
<1>14. /\ w \in Seq(Rows) /\ Len(w) = n - d
       /\ \A i \in 1..dst : w[i] = t[i]
       /\ Moves(t, w, end + 1, n, -d)
  <2>1. t \in [1..n -> Rows] /\ n \in Nat /\ suffix \in 0..n /\ d \in Nat /\ d <= n - suffix
    BY <1>1, <1>2, <1>10, <1>12
  <2>2. Closed(w, t, n, suffix, d)
    BY <2>1, Narrowed
  <2> HIDE DEF w
  <2> QED
    BY <1>12, <2>2 DEF Closed
<1> HIDE DEF w
<1>15. Covers(w, 1, first, D, 0, p - 1)
  <2>1. \A i \in 1..first : w[i] = r[i]
    <3>1. \A i \in 1..first : i \in 1..dst
      BY <1>3, <1>12
    <3> QED
      BY <1>10, <1>14, <3>1
  <2>2. \A k \in 0..(p - 1) : D[k] = C[k]
    BY <1>1, <1>9, Sizes DEF top
  <2> DEFINE m == p - 1
  <2>3. m \in Int /\ first \in Int /\ 0 \in Int /\ 1 \in Int
    BY <1>1, <1>3
  <2> HIDE DEF m
  <2>4. Covers(w, 1, first, D, 0, m)
    BY <1>6, <2>1, <2>2, <2>3, Unmoved DEF m
  <2> QED
    BY <2>4 DEF m
<1>16. Covers(w, first + 1, dst, D, p, q)
  <2> DEFINE a == first + 1
  <2>1. a \in Int /\ dst \in Int /\ p \in Int /\ q \in Int
    BY <1>1, <1>3, <1>12
  <2>2. \A i \in a..dst : w[i] = t[i]
    <3>1. \A i \in a..dst : i \in 1..dst
      BY <1>3
    <3> QED
      BY <1>14, <3>1
  <2>3. \A k \in p..q : D[k] = D[k]
    OBVIOUS
  <2>4. Covers(t, a, dst, D, p, q)
    BY <1>11
  <2> HIDE DEF a
  <2>5. Covers(w, a, dst, D, p, q)
    BY <2>1, <2>2, <2>3, <2>4, Unmoved
  <2> QED
    BY <2>5 DEF a
<1>17. Covers(w, dst + 1, Len(w), D, q + 1, top)
  <2> DEFINE a == end + 1
             f == dst + 1
             l == q + 1
             g == Len(w)
             m == -d
  <2>1. /\ a \in Int /\ n \in Int /\ m \in Int /\ l \in Int /\ top \in Int /\ f \in Int /\ f = a + m
    BY <1>1, <1>12
  <2>2. g = n + m /\ g \in Int
    <3>1. g = n - d
      BY <1>14
    <3> HIDE DEF g
    <3> QED
      BY <1>1, <1>12, <3>1
  <2>3. \A k \in l..top : D[k] = C[k]
    BY <1>1, <1>9, Sizes DEF top
  <2>4. Moves(r, w, a, n, m)
    <3>1. \A i \in a..n : w[i + m] = t[i]
      BY <1>14 DEF Moves
    <3>2. \A i \in a..n : t[i] = r[i]
      BY <1>10
    <3> HIDE DEF a, m
    <3> QED
      BY <3>1, <3>2 DEF Moves
  <2>5. Covers(r, a, n, C, l, top)
    BY <1>5
  <2> HIDE DEF a, f, l, g, m
  <2>6. Covers(w, f, g, D, l, top)
    BY <2>1, <2>2, <2>3, <2>4, <2>5, Shifted
  <2> QED
    BY <2>6 DEF f, l, g
<1>18. Covers(w, 1, Len(w), D, 0, top)
  <2> DEFINE g == Len(w)
             m == p - 1
  <2>1. /\ m \in Int /\ m + 1 = p /\ first \in Int /\ dst \in Int /\ 1 <= first + 1 /\ first <= dst
        /\ 0 <= m + 1 /\ m <= q /\ q <= top /\ 0 <= q + 1 /\ 1 <= dst + 1 /\ q \in Int /\ top \in Int
        /\ 1 \in Int /\ 0 \in Int
    BY <1>1, <1>12
  <2>2. g \in Int /\ dst <= g
    <3>1. g = n - d
      BY <1>14
    <3> HIDE DEF g
    <3> QED
      BY <1>1, <1>2, <1>12, <3>1
  <2>3. Covers(w, 1, first, D, 0, m) /\ Covers(w, first + 1, dst, D, m + 1, q)
    BY <1>15, <1>16, <2>1
  <2>4. Covers(w, dst + 1, g, D, q + 1, top)
    BY <1>17
  <2> HIDE DEF m, g
  <2>5. Covers(w, 1, dst, D, 0, q)
    BY <2>1, <2>3, Joined
  <2>6. Covers(w, 1, g, D, 0, top)
    BY <2>1, <2>2, <2>4, <2>5, Joined
  <2> QED
    BY <2>6 DEF g
<1> QED
  BY <1>9, <1>13, <1>14, <1>18 DEF Holds, D, top

-----------------------------------------------------------------------------
(* Building an array by appending to it.                                   *)

\* No chunk above key.
EndsBefore(D, key) == \A h \in Keys : h >= key => D[h] = {}

\* A row behind the last key holds one chunk more.
LEMMA AppendedChunk ==
  ASSUME NEW ans, NEW D, Holds(ans, D), NEW key \in Keys, EndsBefore(D, key),
         NEW c \in SUBSET Lows, c # {}
  PROVE  Holds(Append(ans, Entry(key, c)), With(D, key, c))
<1> DEFINE m == Len(ans)
           e == Entry(key, c)
           w == Append(ans, e)
           E == With(D, key, c)
           top == KeyCount - 1
           low == key - 1
<1>1. /\ m \in Nat /\ key \in Int /\ top \in Int /\ low \in Int /\ 0 <= key /\ key <= top /\ Keys = 0..top
      /\ ans \in Seq(Rows) /\ D \in Chunks /\ Covers(ans, 1, m, D, 0, top)
  BY Sizes DEF Holds
<1>2. e \in Rows /\ e.key = key /\ e.container = c
  BY <1>1, Sizes DEF Rows, Entry
<1> HIDE DEF e
<1>3. w \in Seq(Rows) /\ Len(w) = m + 1 /\ w[m + 1] = e /\ \A i \in 1..m : w[i] = ans[i]
  BY <1>1, <1>2
<1>4. /\ E \in Chunks /\ E[key] = c
      /\ \A k \in 0..low : E[k] = D[k]
      /\ \A k \in (key + 1)..top : E[k] = D[k]
  <2>1. E = With(D, key, c)
    OBVIOUS
  <2> HIDE DEF E
  <2> QED
    BY <1>1, <2>1, ReplacedChunk
<1> HIDE DEF w, E
<1>5. Covers(w, 1, m, E, 0, low)
  <2>1. \A k \in 0..top : k \notin 0..low => D[k] = {}
    BY <1>1 DEF EndsBefore
  <2>2. low <= top /\ 1 \in Int /\ 0 \in Int /\ 0 <= 0
    BY <1>1
  <2> HIDE DEF m, top, low
  <2>3. Covers(ans, 1, m, D, 0, low)
    BY <1>1, <2>1, <2>2, Trimmed
  <2>4. m \in Int /\ low \in Int
    BY <1>1
  <2>5. \A i \in 1..m : w[i] = ans[i]
    BY <1>3
  <2>6. \A k \in 0..low : E[k] = D[k]
    BY <1>4
  <2> QED
    BY <2>2, <2>3, <2>4, <2>5, <2>6, Unmoved
<1>6. Covers(w, m + 2, m + 1, E, key + 1, top)
  <2> DEFINE a == m + 2
             l == key + 1
  <2>1. a \in Int /\ l \in Int /\ a - 1 = m + 1
    BY <1>1
  <2>2. \A k \in l..top : E[k] = {}
    <3>1. \A k \in l..top : k \in Keys /\ k >= key
      BY <1>1
    <3> QED
      BY <1>4, <3>1 DEF EndsBefore
  <2> HIDE DEF a, l, top
  <2>3. Covers(w, a, a - 1, E, l, top)
    BY <1>1, <2>1, <2>2, NoEntry
  <2> QED
    BY <2>1, <2>3 DEF a, l
<1>7. Holds(w, E)
  <2>1. m + 1 <= Len(w) /\ w[m + 1].key = key /\ w[m + 1].container = E[key] /\ E[key] # {}
    BY <1>1, <1>2, <1>3, <1>4
  <2> HIDE DEF m
  <2> QED
    BY <1>1, <1>3, <1>4, <1>5, <1>6, <2>1, AroundEntry
<1> QED
  BY <1>7 DEF w, e, E

\* The last entry is that of the largest key with a chunk.
LEMMA LastEntry ==
  ASSUME NEW ans, NEW D, Holds(ans, D), NEW key \in Keys, EndsBefore(D, key + 1)
  PROVE  IF ans = <<>> \/ Last(ans).key # key THEN D[key] = {}
         ELSE /\ Len(ans) \in 1..Len(ans) /\ ans[Len(ans)].key = key
              /\ ans[Len(ans)].container = D[key] /\ D[key] # {}
<1> DEFINE m == Len(ans)
           top == KeyCount - 1
<1>1. /\ m \in Nat /\ key \in Int /\ top \in Int /\ Keys = 0..top
      /\ ans \in Seq(Rows) /\ Covers(ans, 1, m, D, 0, top)
  BY Sizes DEF Holds
<1>2. ans = <<>> <=> m = 0
  BY <1>1
<1>3. Last(ans) = ans[m]
  BY DEF Last
<1> HIDE DEF m
<1>4. ASSUME NEW i \in 1..m
      PROVE  ans[i].key \in 0..key /\ ans[i].container = D[ans[i].key] /\ ans[i].container # {}
  <2>1. ans[i].key \in 0..top /\ ans[i].container = D[ans[i].key] /\ ans[i].container # {}
    BY <1>1 DEF Covers
  <2> QED
    BY <1>1, <2>1 DEF EndsBefore
<1>5. CASE ans = <<>> \/ Last(ans).key # key
  <2>1. SUFFICES ASSUME D[key] # {} PROVE FALSE
    BY <1>5
  <2>2. PICK i \in 1..m : ans[i].key = key
    BY <1>1, <2>1 DEF Covers
  <2>3. m \in 1..m /\ i # m
    BY <1>1, <1>2, <1>3, <1>5, <2>2
  <2>4. i < m
    BY <1>1, <2>3
  <2>5. ans[i].key < ans[m].key
    BY <1>1, <2>3, <2>4 DEF Covers
  <2> QED
    BY <1>1, <1>4, <2>2, <2>3, <2>5
<1>6. CASE ~(ans = <<>> \/ Last(ans).key # key)
  <2>1. m \in 1..m /\ ans[m].key = key
    BY <1>1, <1>2, <1>3, <1>6
  <2> QED
    BY <1>4, <1>6, <2>1 DEF m
<1> QED
  BY <1>5, <1>6

\* offset_append_with_merge: the chunk that comes next, or more of the last one.
LEMMA AppendedWithMerge ==
  ASSUME NEW ans, NEW D, Holds(ans, D), NEW key \in Keys, EndsBefore(D, key + 1),
         NEW c \in SUBSET Lows, c # {}
  PROVE  Holds(offset_append_with_merge(ans, key, c), With(D, key, D[key] \cup c))
<1>1. CASE ans = <<>> \/ Last(ans).key # key
  <2>1. D[key] = {} /\ D[key] \cup c = c
    BY <1>1, LastEntry
  <2>2. EndsBefore(D, key)
    <3>1. \A h \in Keys : h >= key => h = key \/ h >= key + 1
      BY Sizes
    <3> QED
      BY <2>1, <3>1 DEF EndsBefore
  <2>3. Holds(Append(ans, Entry(key, c)), With(D, key, c))
    BY <2>2, AppendedChunk
  <2> QED
    BY <1>1, <2>1, <2>3 DEF offset_append_with_merge
<1>2. CASE ~(ans = <<>> \/ Last(ans).key # key)
  <2> DEFINE m == Len(ans)
             p == m - 1
             low == key - 1
             top == KeyCount - 1
             x == D[key] \cup c
             E == With(D, key, x)
             t == [ans EXCEPT ![m].container = x]
  <2>1. m \in 1..m /\ ans[m].key = key /\ ans[m].container = D[key]
    BY <1>2, LastEntry
  <2>2. /\ m \in Nat /\ p \in Nat /\ p + 1 = m /\ key \in Int /\ top \in Int /\ low \in Int
        /\ 0 <= key /\ key <= top /\ Keys = 0..top /\ p + 2 = m + 1 /\ p + 1 <= m
        /\ ans \in Seq(Rows) /\ D \in Chunks /\ Covers(ans, 1, m, D, 0, top)
    BY <2>1, Sizes DEF Holds
  <2>3. x \in SUBSET Lows /\ x # {} /\ x \in SUBSET Int
    <3>1. D[key] \in SUBSET Lows
      BY <2>2 DEF Chunks
    <3>2. Lows \subseteq Int
      BY Sizes
    <3> QED
      BY <3>1, <3>2
  <2>4. offset_append_with_merge(ans, key, c) = t
    BY <1>2, <2>1 DEF offset_append_with_merge
  <2> HIDE DEF x
  <2>5. /\ E \in Chunks /\ E[key] = x
        /\ \A k \in 0..low : E[k] = D[k]
        /\ \A k \in (key + 1)..top : E[k] = D[k]
    <3>1. E = With(D, key, x)
      OBVIOUS
    <3> HIDE DEF E
    <3> QED
      BY <2>2, <2>3, <3>1, ReplacedChunk
  <2>6. /\ t \in Seq(Rows) /\ Len(t) = m
        /\ t[m].key = key /\ t[m].container = x
        /\ \A i \in 1..p : t[i] = ans[i]
    <3> DEFINE e == ans[m]
               f == [e EXCEPT !.container = x]
    <3>1. e \in Rows
      BY <2>1, <2>2
    <3>2. t = [ans EXCEPT ![m] = f]
      OBVIOUS
    <3>3. e.key = key
      BY <2>1
    <3> HIDE DEF e, t
    <3>4. f \in Rows /\ f.key = key /\ f.container = x
      BY <2>3, <3>1, <3>3 DEF Rows
    <3>5. \A i \in 1..p : i \in 1..m /\ i # m
      <4> HIDE DEF m, p
      <4> QED
        BY <2>2
    <3> HIDE DEF f, p
    <3>6. t \in Seq(Rows) /\ Len(t) = m
      BY <2>1, <2>2, <3>2, <3>4
    <3>7. t[m] = f
      BY <2>1, <2>2, <3>2
    <3>8. \A i \in 1..p : t[i] = ans[i]
      BY <2>2, <3>2, <3>5
    <3> QED
      BY <3>4, <3>6, <3>7, <3>8
  <2> HIDE DEF E, t
  <2>7. Covers(t, 1, p, E, 0, low)
    <3>1. \A k \in 0..top : k \notin 0..key => D[k] = {}
      BY <2>2 DEF EndsBefore
    <3>2. 1 \in Int /\ 0 \in Int /\ 0 <= 0 /\ 1 <= m
      BY <2>1
    <3> HIDE DEF m, top
    <3>3. Covers(ans, 1, m, D, 0, key)
      BY <2>2, <3>1, <3>2, Trimmed
    <3>4. Covers(ans, 1, m - 1, D, 0, key - 1)
      BY <2>1, <2>2, <3>2, <3>3, BeforeLast
    <3> HIDE DEF p, low
    <3>5. Covers(ans, 1, p, D, 0, low)
      BY <3>4 DEF p, low
    <3>6. \A i \in 1..p : t[i] = ans[i]
      BY <2>6
    <3>7. \A k \in 0..low : E[k] = D[k]
      BY <2>5
    <3>8. p \in Int /\ low \in Int
      BY <2>2
    <3> QED
      BY <3>2, <3>5, <3>6, <3>7, <3>8, Unmoved
  <2>8. Covers(t, p + 2, m, E, key + 1, top)
    <3> DEFINE a == p + 2
               l == key + 1
    <3>1. a \in Int /\ l \in Int /\ a - 1 = m
      BY <2>2
    <3>2. \A k \in l..top : E[k] = {}
      <4>1. \A k \in l..top : k \in Keys /\ k >= key + 1
        BY <2>2
      <4> QED
        BY <2>5, <4>1 DEF EndsBefore
    <3> HIDE DEF a, l, top
    <3>3. Covers(t, a, a - 1, E, l, top)
      BY <2>2, <3>1, <3>2, NoEntry
    <3> QED
      BY <3>1, <3>3 DEF a, l
  <2>9. Holds(t, E)
    <3>1. /\ p + 1 <= Len(t) /\ t[p + 1].key = key /\ t[p + 1].container = E[key] /\ E[key] # {}
          /\ Covers(t, p + 2, Len(t), E, key + 1, top) /\ Covers(t, 1, p, E, 0, low)
      BY <2>2, <2>3, <2>5, <2>6, <2>7, <2>8
    <3> HIDE DEF m, p
    <3> QED
      BY <2>2, <2>5, <2>6, <3>1, AroundEntry
  <2> QED
    BY <2>4, <2>9 DEF E, x
<1> QED
  BY <1>1, <1>2

-----------------------------------------------------------------------------
(* Shifting all values.                                                    *)

\* The chunks of the keys below m.
Below(C, m) == [k \in Keys |-> IF k < m THEN C[k] ELSE {}]

\* What is left of the chunk of k in its own place, and what of it falls into the
\* next chunk, when the chunks move by a part of a chunk.
LowPart(C, k, in) == {v \in Lows : k \in Keys /\ v - in \in C[k]}
HighPart(C, k, in) == {v \in Lows : k \in Keys /\ (v + ChunkSize) - in \in C[k]}

\* The chunks moved by far chunks and a part of one.
Displaced(C, far, in) ==
  [h \in Keys |-> LowPart(C, h - far, in) \cup HighPart(C, (h - far) - 1, in)]

\* The chunk of key moved to k, where it falls into the chunks of k and k + 1.
MovesTo(E, F, C, key, in, k) ==
  \A h \in Keys : F[h] = IF h = k THEN E[h] \cup LowPart(C, key, in)
                        ELSE IF h = k + 1 THEN HighPart(C, key, in)
                        ELSE E[h]

\* A chunk moved by an offset falls on one key or on two.
LEMMA DisplacedTurn ==
  ASSUME NEW C \in Chunks, NEW far \in Int, NEW in \in Lows, NEW key \in Keys,
         NEW k, k = key + far,
         NEW E, E = Displaced(Below(C, key), far, in),
         NEW F, F = Displaced(Below(C, key + 1), far, in)
  PROVE  /\ E \in Chunks /\ F \in Chunks
         /\ EndsBefore(E, k + 1)
         /\ in = 0 => EndsBefore(E, k)
         /\ MovesTo(E, F, C, key, in, k)
<1>1. /\ key \in Int /\ Keys \subseteq Int /\ Lows \subseteq Int /\ ChunkSize \in Nat /\ in \in Int
      /\ \A v \in Lows : 0 <= v /\ v < ChunkSize
  BY Sizes
<1>2. \A h \in Keys : C[h] \in SUBSET Lows
  BY DEF Chunks
<1>3. E \in Chunks /\ F \in Chunks
  BY DEF Displaced, LowPart, HighPart, Chunks
<1>4. \A h \in Keys : /\ E[h] = LowPart(Below(C, key), h - far, in) \cup HighPart(Below(C, key), (h - far) - 1, in)
                      /\ F[h] = LowPart(Below(C, key + 1), h - far, in)
                                  \cup HighPart(Below(C, key + 1), (h - far) - 1, in)
  BY DEF Displaced
<1>5. \A j \in Int : j >= key => LowPart(Below(C, key), j, in) = {} /\ HighPart(Below(C, key), j, in) = {}
  BY <1>1 DEF Below, LowPart, HighPart
<1>6. \A j \in Int : j > key => LowPart(Below(C, key + 1), j, in) = {} /\ HighPart(Below(C, key + 1), j, in) = {}
  BY <1>1 DEF Below, LowPart, HighPart
<1>7. \A j \in Int : j < key => /\ LowPart(Below(C, key), j, in) = LowPart(Below(C, key + 1), j, in)
                                /\ HighPart(Below(C, key), j, in) = HighPart(Below(C, key + 1), j, in)
  BY <1>1 DEF Below, LowPart, HighPart
<1>8. LowPart(Below(C, key + 1), key, in) = LowPart(C, key, in)
      /\ HighPart(Below(C, key + 1), key, in) = HighPart(C, key, in)
  BY <1>1 DEF Below, LowPart, HighPart
<1>9. in = 0 => \A j \in Int : HighPart(Below(C, key), j, in) = {}
  <2>1. SUFFICES ASSUME in = 0, NEW j \in Int, NEW v \in HighPart(Below(C, key), j, in) PROVE FALSE
    OBVIOUS
  <2>2. j \in Keys /\ v \in Lows /\ (v + ChunkSize) - 0 \in Below(C, key)[j]
    BY <2>1 DEF HighPart
  <2>3. (v + ChunkSize) - 0 \in C[j]
    BY <2>2 DEF Below
  <2>4. (v + ChunkSize) - 0 \in Lows
    BY <1>2, <2>2, <2>3
  <2> QED
    BY <1>1, <2>2, <2>4
<1>10. \A h \in Keys : h >= k + 1 => E[h] = {}
  <2>1. \A h \in Keys : h >= k + 1 => h - far \in Int /\ h - far >= key /\ (h - far) - 1 \in Int /\ (h - far) - 1 >= key
    BY <1>1
  <2> QED
    BY <1>4, <1>5, <2>1
<1>11. in = 0 => \A h \in Keys : h >= k => E[h] = {}
  <2>1. \A h \in Keys : h >= k => h - far \in Int /\ h - far >= key /\ (h - far) - 1 \in Int
    BY <1>1
  <2> QED
    BY <1>4, <1>5, <1>9, <2>1
<1>12. ASSUME NEW h \in Keys
       PROVE  F[h] = IF h = k THEN E[h] \cup LowPart(C, key, in)
                     ELSE IF h = k + 1 THEN HighPart(C, key, in) ELSE E[h]
  <2> DEFINE j == h - far
             i == (h - far) - 1
  <2>1. /\ j \in Int /\ i \in Int /\ i < j
        /\ h = k => j = key /\ i < key /\ j >= key
        /\ h = k + 1 => i = key /\ j > key
        /\ h < k => j < key /\ i < key
        /\ h > k + 1 => j > key /\ i > key /\ j >= key /\ i >= key
        /\ h < k \/ h = k \/ h = k + 1 \/ h > k + 1
    BY <1>1
  <2>2. /\ E[h] = LowPart(Below(C, key), j, in) \cup HighPart(Below(C, key), i, in)
        /\ F[h] = LowPart(Below(C, key + 1), j, in) \cup HighPart(Below(C, key + 1), i, in)
    BY <1>4
  <2> HIDE DEF i, j
  <2>3. CASE h = k
    BY <1>5, <1>7, <1>8, <2>1, <2>2, <2>3
  <2>4. CASE h = k + 1
    <3>1. h # k
      BY <1>1, <2>4
    <3> QED
      BY <1>6, <1>8, <2>1, <2>2, <2>4, <3>1
  <2>5. CASE h < k
    <3>1. h # k /\ h # k + 1
      BY <1>1, <2>5
    <3> QED
      BY <1>7, <2>1, <2>2, <2>5, <3>1
  <2>6. CASE h > k + 1
    <3>1. h # k /\ h # k + 1
      BY <1>1, <2>6
    <3> QED
      BY <1>5, <1>6, <2>1, <2>2, <2>6, <3>1
  <2> QED
    BY <2>1, <2>3, <2>4, <2>5, <2>6
<1> QED
  BY <1>3, <1>10, <1>11, <1>12 DEF EndsBefore, MovesTo

\* One turn of the loop over the entries.
OffsetStep(ans, e, far, in) ==
  LET k == e.key + far
      moved == { v + in : v \in e.container }
      lo == IF k \in Keys THEN moved \cap Lows ELSE {}
      hi == IF k + 1 \in Keys THEN { v - ChunkSize : v \in moved \ Lows } ELSE {}
      low == IF lo = {} THEN ans
             ELSE IF in = 0 THEN Append(ans, Entry(k, lo))
             ELSE offset_append_with_merge(ans, k, lo)
  IN  IF hi = {} THEN low ELSE Append(low, Entry(k + 1, hi))

\* One turn of add_offset moves the chunk of one row.
LEMMA OffsetTurn ==
  ASSUME NEW C \in Chunks, NEW far \in Int, NEW in \in Lows, NEW e, e.key \in Keys,
         e.container = C[e.key],
         NEW ans, Holds(ans, Displaced(Below(C, e.key), far, in))
  PROVE  Holds(OffsetStep(ans, e, far, in), Displaced(Below(C, e.key + 1), far, in))
<1> DEFINE key == e.key
           k == key + far
           moved == { v + in : v \in e.container }
           lo == IF k \in Keys THEN moved \cap Lows ELSE {}
           hi == IF k + 1 \in Keys THEN { v - ChunkSize : v \in moved \ Lows } ELSE {}
           low == IF lo = {} THEN ans
                  ELSE IF in = 0 THEN Append(ans, Entry(k, lo))
                  ELSE offset_append_with_merge(ans, k, lo)
           E == Displaced(Below(C, key), far, in)
           F == Displaced(Below(C, key + 1), far, in)
           M == IF k \in Keys THEN With(E, k, E[k] \cup lo) ELSE E
<1>1. /\ key \in Keys /\ key \in Int /\ Lows \subseteq Int /\ ChunkSize \in Nat /\ in \in Int /\ k \in Int
      /\ Lows = 0..(ChunkSize - 1) /\ C[key] \in SUBSET Lows /\ e.container = C[key]
      /\ in \in 0..(ChunkSize - 1)
  BY Sizes DEF Chunks
<1>2. OffsetStep(ans, e, far, in) = IF hi = {} THEN low ELSE Append(low, Entry(k + 1, hi))
  BY DEF OffsetStep
<1>3. k \in Keys => lo = LowPart(C, key, in)
  <2>1. ASSUME NEW v PROVE v \in moved \cap Lows <=> v \in Lows /\ v - in \in C[key]
    BY <1>1
  <2> QED
    BY <1>1, <2>1 DEF LowPart
<1>4. k + 1 \in Keys => hi = HighPart(C, key, in)
  <2>1. ASSUME NEW v, v \in { u - ChunkSize : u \in moved \ Lows } PROVE v \in HighPart(C, key, in)
    <3>1. PICK x \in C[key] : v = (x + in) - ChunkSize /\ ~(x + in \in Lows)
      BY <1>1, <2>1
    <3>2. x \in 0..(ChunkSize - 1)
      BY <1>1
    <3>3. v \in 0..(ChunkSize - 1) /\ (v + ChunkSize) - in = x
      BY <1>1, <3>1, <3>2
    <3> QED
      BY <1>1, <3>3 DEF HighPart
  <2>2. ASSUME NEW v, v \in HighPart(C, key, in) PROVE v \in { u - ChunkSize : u \in moved \ Lows }
    <3>1. v \in 0..(ChunkSize - 1) /\ (v + ChunkSize) - in \in C[key]
      BY <1>1, <2>2 DEF HighPart
    <3> DEFINE x == (v + ChunkSize) - in
               u == x + in
    <3>2. u = v + ChunkSize /\ u \notin Lows /\ v = u - ChunkSize
      BY <1>1, <3>1
    <3>3. u \in moved
      BY <1>1, <3>1
    <3> HIDE DEF u, moved
    <3> QED
      BY <3>2, <3>3
  <2> QED
    BY <2>1, <2>2
<1>5. /\ E \in Chunks /\ F \in Chunks
      /\ EndsBefore(E, k + 1)
      /\ in = 0 => EndsBefore(E, k)
      /\ \A h \in Keys : F[h] = IF h = k THEN E[h] \cup LowPart(C, key, in)
                                ELSE IF h = k + 1 THEN HighPart(C, key, in)
                                ELSE E[h]
  <2>1. k = key + far
    OBVIOUS
  <2>2. E = Displaced(Below(C, key), far, in) /\ F = Displaced(Below(C, key + 1), far, in)
    OBVIOUS
  <2>3. key \in Keys /\ far \in Int /\ in \in Lows /\ C \in Chunks
    OBVIOUS
  <2> HIDE DEF k, E, F, key
  <2>4. E \in Chunks /\ F \in Chunks
    BY <2>1, <2>2, <2>3, DisplacedTurn
  <2>5. EndsBefore(E, k + 1) /\ (in = 0 => EndsBefore(E, k))
    BY <2>1, <2>2, <2>3, DisplacedTurn
  <2>6. MovesTo(E, F, C, key, in, k)
    BY <2>1, <2>2, <2>3, DisplacedTurn
  <2> QED
    BY <2>4, <2>5, <2>6 DEF MovesTo
<1>6. Holds(ans, E)
  OBVIOUS
<1>7. lo \in SUBSET Lows /\ hi \in SUBSET Lows
  <2>1. lo \in SUBSET Lows
    OBVIOUS
  <2>2. hi \in SUBSET Lows
    BY <1>4 DEF HighPart
  <2> QED
    BY <2>1, <2>2
<1> HIDE DEF key, k, moved, lo, hi, E, F
<1>8. /\ M \in Chunks
      /\ \A h \in Keys : M[h] = IF h = k THEN E[h] \cup lo ELSE E[h]
  <2>1. CASE k \in Keys
    <3>1. E[k] \cup lo \in SUBSET Lows
      BY <1>5, <1>7, <2>1 DEF Chunks
    <3> QED
      BY <1>5, <2>1, <3>1 DEF With, Chunks
  <2>2. CASE k \notin Keys
    BY <1>5, <2>2
  <2> QED
    BY <2>1, <2>2
<1>9. Holds(low, M)
  <2>1. CASE lo = {}
    <3>1. low = ans
      BY <2>1
    <3>2. M = E
      <4>1. k \in Keys => With(E, k, E[k]) = E
        BY <1>5, WithItself
      <4>2. E[k] \cup lo = E[k]
        BY <2>1
      <4> QED
        BY <4>1, <4>2
    <3> QED
      BY <1>6, <3>1, <3>2
  <2>2. CASE lo # {}
    <3>1. k \in Keys
      BY <2>2 DEF lo
    <3>2. CASE in = 0
      <4>1. low = Append(ans, Entry(k, lo))
        BY <2>2, <3>2
      <4>2. EndsBefore(E, k)
        BY <1>5, <3>2
      <4>3. E[k] = {}
        BY <1>1, <3>1, <4>2 DEF EndsBefore
      <4>4. M = With(E, k, lo)
        <5>1. E[k] \cup lo = lo
          BY <4>3
        <5> QED
          BY <3>1, <5>1
      <4>5. Holds(Append(ans, Entry(k, lo)), With(E, k, lo))
        BY <1>6, <1>7, <2>2, <3>1, <4>2, AppendedChunk
      <4> QED
        BY <4>1, <4>4, <4>5
    <3>3. CASE in # 0
      <4>1. low = offset_append_with_merge(ans, k, lo)
        BY <2>2, <3>3
      <4>2. Holds(offset_append_with_merge(ans, k, lo), With(E, k, E[k] \cup lo))
        BY <1>5, <1>6, <1>7, <2>2, <3>1, AppendedWithMerge
      <4> QED
        BY <3>1, <4>1, <4>2
    <3> QED
      BY <3>2, <3>3
  <2> QED
    BY <2>1, <2>2
<1> HIDE DEF M, low
<1>10. CASE hi = {}
  <2>1. \A h \in Keys : F[h] = M[h]
    <3>1. \A h \in Keys : h = k + 1 => E[h] = {} /\ h # k /\ HighPart(C, key, in) = {}
      <4>1. SUFFICES ASSUME NEW h \in Keys, h = k + 1
                     PROVE  E[h] = {} /\ h # k /\ HighPart(C, key, in) = {}
        OBVIOUS
      <4>2. h >= k + 1 /\ h # k
        BY <1>1, <4>1
      <4>3. E[h] = {}
        BY <1>5, <4>2 DEF EndsBefore
      <4>4. HighPart(C, key, in) = {}
        BY <1>4, <1>10, <4>1
      <4> QED
        BY <4>2, <4>3, <4>4
    <3>2. \A h \in Keys : h = k => LowPart(C, key, in) = lo
      BY <1>3
    <3> QED
      BY <1>5, <1>8, <3>1, <3>2
  <2>2. F = M
    BY <1>5, <1>8, <2>1 DEF Chunks
  <2> QED
    BY <1>2, <1>9, <1>10, <2>2 DEF F, key
<1>11. CASE hi # {}
  <2> DEFINE l == k + 1
  <2>1. l \in Keys /\ hi = HighPart(C, key, in) /\ l # k
    BY <1>1, <1>4, <1>11 DEF hi
  <2>2. \A h \in Keys : h >= l => h # k
    BY <1>1, Sizes
  <2>3. EndsBefore(M, l)
    BY <1>5, <1>8, <2>2 DEF EndsBefore
  <2>4. \A h \in Keys : F[h] = With(M, l, hi)[h]
    <3>1. \A h \in Keys : h = k => LowPart(C, key, in) = lo
      BY <1>3
    <3>2. \A h \in Keys : With(M, l, hi)[h] = IF h = l THEN hi ELSE M[h]
      BY <1>8 DEF With, Chunks
    <3> HIDE DEF l
    <3> QED
      BY <1>5, <1>8, <2>1, <3>1, <3>2 DEF l
  <2>5. F = With(M, l, hi)
    BY <1>5, <1>8, <2>4 DEF Chunks, With
  <2> HIDE DEF l
  <2>6. Holds(Append(low, Entry(l, hi)), With(M, l, hi))
    BY <1>7, <1>9, <1>11, <2>1, <2>3, AppendedChunk
  <2> QED
    BY <1>2, <1>11, <2>5, <2>6 DEF F, key, l
<1> QED
  BY <1>10, <1>11

\* One turn of add_offset leaves rows.
LEMMA OffsetStepType ==
  ASSUME NEW ans \in Seq(Rows), NEW e \in Rows, NEW far \in Int, NEW in \in Lows
  PROVE  OffsetStep(ans, e, far, in) \in Seq(Rows)
<1> DEFINE k == e.key + far
           moved == { v + in : v \in e.container }
           lo == IF k \in Keys THEN moved \cap Lows ELSE {}
           hi == IF k + 1 \in Keys THEN { v - ChunkSize : v \in moved \ Lows } ELSE {}
           low == IF lo = {} THEN ans
                  ELSE IF in = 0 THEN Append(ans, Entry(k, lo))
                  ELSE offset_append_with_merge(ans, k, lo)
<1>1. e.key \in Int /\ e.container \in SUBSET Int /\ in \in Int /\ ChunkSize \in Int
  BY Sizes DEF Rows
<1>2. moved \in SUBSET Int
  BY <1>1
<1> HIDE DEF moved
<1>3. k \in Int /\ lo \in SUBSET Int /\ hi \in SUBSET Int
  BY <1>1, <1>2
<1> HIDE DEF k, lo, hi
<1>4. Entry(k, lo) \in Rows /\ Entry(k + 1, hi) \in Rows
  BY <1>3 DEF Entry, Rows
<1>5. offset_append_with_merge(ans, k, lo) \in Seq(Rows)
  <2>1. CASE ans = <<>> \/ Last(ans).key # k
    BY <1>4, <2>1 DEF offset_append_with_merge
  <2>2. CASE ~(ans = <<>> \/ Last(ans).key # k)
    <3> DEFINE m == Len(ans)
               f == [ans[m] EXCEPT !.container = @ \cup lo]
    <3>1. m \in 1..m
      BY <2>2
    <3>2. f \in Rows
      <4> DEFINE g == ans[m]
      <4>1. g \in Rows
        BY <3>1
      <4> HIDE DEF g
      <4>2. [g EXCEPT !.container = @ \cup lo] \in Rows
        BY <1>3, <4>1 DEF Rows
      <4> QED
        BY <4>2 DEF g
    <3>3. offset_append_with_merge(ans, k, lo) = [ans EXCEPT ![m] = f]
      BY <2>2 DEF offset_append_with_merge
    <3> HIDE DEF f
    <3> QED
      BY <3>1, <3>2, <3>3
  <2> QED
    BY <2>1, <2>2
<1>6. low \in Seq(Rows)
  BY <1>4, <1>5
<1>7. OffsetStep(ans, e, far, in) = IF hi = {} THEN low ELSE Append(low, Entry(k + 1, hi))
  BY DEF OffsetStep, k, lo, hi, moved
<1> HIDE DEF low
<1> QED
  BY <1>4, <1>6, <1>7

\* All turns of the loop.
Displacing(r, far, in) == FoldLeft(LAMBDA ans, e : OffsetStep(ans, e, far, in), <<>>, r)

\* add_offset moves every chunk.
LEMMA DisplacingCorrect ==
  ASSUME NEW r, NEW C, Holds(r, C), NEW far \in Int, NEW in \in Lows
  PROVE  Holds(Displacing(r, far, in), Displaced(C, far, in))
<1> DEFINE n == Len(r)
           top == KeyCount - 1
           A == Seq(Rows)
           turn(b, i) == OffsetStep(b, r[i], far, in)
           G == [p \in (1..n) \X A |-> turn(p[2], p[1])]
           Step(it) == [x \in SUBSET DOMAIN r |-> IF x = {} THEN <<>> ELSE turn(it[x \ {Max(x)}], Max(x))]
           it == CHOOSE f : f = Step(f)
           At(b, i) == \E m \in 0..KeyCount : /\ Holds(b, Displaced(Below(C, m), far, in))
                                              /\ Covers(r, i + 1, n, C, m, top)
           J == [i \in 0..n |-> {b \in A : At(b, i)}]
<1>1. /\ n \in Nat /\ r \in Seq(Rows) /\ C \in Chunks /\ Covers(r, 1, n, C, 0, top) /\ top \in Int
      /\ Keys = 0..top /\ KeyCount = top + 1 /\ 0 \in 0..KeyCount /\ 0 <= top
  BY Sizes DEF Holds
<1>2. DOMAIN r = 1..n
  BY <1>1
<1>3. Displacing(r, far, in) = it[1..n]
  <2>1. Displacing(r, far, in) = it[DOMAIN r]
    BY <1>2 DEF Displacing, FoldLeft, MapThenFoldSet
  <2> QED
    BY <1>2, <2>1
<1>4. \A i \in 1..n : r[i] \in Rows
  BY <1>1
<1> HIDE DEF n
<1>6. \A b \in A, i \in 1..n : turn(b, i) \in A
  BY <1>4, OffsetStepType
<1>7. <<>> \in A
  OBVIOUS
<1> HIDE DEF A
<1>8. G \in [(1..n) \X A -> A]
  <2> HIDE DEF turn
  <2> QED
    BY <1>6
<1>9. PICK f \in [SUBSET (1..n) -> A] : Folds(f, n, <<>>, G)
  <2> HIDE DEF G
  <2> QED
    BY <1>1, <1>7, <1>8, FoldExists
<1>10. f = Step(f)
  <2>1. ASSUME NEW x \in SUBSET (1..n), x # {}
        PROVE  f[x] = turn(f[x \ {Max(x)}], Max(x))
    <3>1. Max(x) \in 1..n /\ x \ {Max(x)} \in SUBSET (1..n)
      BY <1>1, <2>1, LastIndex
    <3>2. f[x \ {Max(x)}] \in A
      BY <3>1
    <3> HIDE DEF turn
    <3> QED
      BY <1>9, <2>1, <3>1, <3>2 DEF Folds
  <2> HIDE DEF turn
  <2> QED
    BY <1>2, <1>9, <2>1 DEF Folds
<1>11. it = Step(it)
  BY <1>10
<1> HIDE DEF it, J, turn
<1>12. it[{}] = <<>> /\ \A i \in 1..n : it[1..i] = turn(it[1..(i - 1)], i)
  <2>1. \A x \in SUBSET (1..n) : it[x] = IF x = {} THEN <<>> ELSE turn(it[x \ {Max(x)}], Max(x))
    BY <1>2, <1>11
  <2> QED
    BY <1>1, <2>1, Segment
<1>13. it[{}] \in J[0]
  <2> DEFINE D == Displaced(Below(C, 0), far, in)
  <2>1. D \in Chunks /\ \A h \in Keys : D[h] = {}
    <3>1. \A h \in Keys : Below(C, 0)[h] = {}
      BY <1>1 DEF Below
    <3> QED
      BY <3>1 DEF Displaced, LowPart, HighPart, Chunks
  <2> HIDE DEF D
  <2>2. Holds(<<>>, D)
    <3>1. Covers(<<>>, 1, 0, D, 0, top)
      <4>1. \A h \in 0..top : D[h] = {}
        BY <1>1, <2>1
      <4>2. \A i \in 1..0 : FALSE
        OBVIOUS
      <4> QED
        BY <4>1, <4>2 DEF Covers
    <3>2. <<>> \in Seq(Rows) /\ Len(<<>>) = 0
      OBVIOUS
    <3> QED
      BY <2>1, <3>1, <3>2 DEF Holds
  <2>3. Covers(r, 0 + 1, n, C, 0, top)
    BY <1>1
  <2>4. At(<<>>, 0)
    BY <1>1, <2>2, <2>3 DEF D
  <2> HIDE DEF At
  <2> QED
    BY <1>1, <1>7, <1>12, <2>4 DEF J
<1>14. ASSUME NEW i \in 1..n, it[1..(i - 1)] \in J[i - 1] PROVE it[1..i] \in J[i]
  <2> DEFINE b == it[1..(i - 1)]
             e == r[i]
             key == e.key
  <2>1. i - 1 \in 0..n /\ i \in 0..n /\ (i - 1) + 1 = i /\ i \in Int /\ i <= n
    BY <1>1
  <2>2. b \in A /\ At(b, i - 1)
    <3> HIDE DEF At
    <3> QED
      BY <1>14, <2>1 DEF J
  <2>3. PICK m \in 0..KeyCount : Holds(b, Displaced(Below(C, m), far, in)) /\ Covers(r, i, n, C, m, top)
    BY <2>1, <2>2
  <2>4. m \in Int /\ 0 <= m
    BY <1>1
  <2>5. key \in m..top /\ key \in Keys /\ e.container = C[key] /\ key \in Int /\ m <= key /\ key <= top
    <3>1. i \in i..n
      BY <1>1, <2>1
    <3>2. key \in m..top /\ e.container = C[key]
      BY <2>3, <3>1 DEF Covers
    <3> QED
      BY <1>1, <2>4, <3>2
  <2>6. \A k \in m..top : k < key => C[k] = {}
    <3>1. SUFFICES ASSUME NEW k \in m..top, k < key, C[k] # {} PROVE FALSE
      OBVIOUS
    <3>2. PICK j \in i..n : r[j].key = k
      BY <2>3, <3>1 DEF Covers
    <3>3. j = i \/ i < j
      BY <2>1
    <3>4. CASE i < j
      <4>1. i \in i..n
        BY <1>1, <2>1
      <4>2. r[i].key < r[j].key
        BY <2>3, <3>2, <3>4, <4>1 DEF Covers
      <4> QED
        BY <2>5, <3>1, <3>2, <4>2
    <3> QED
      BY <2>5, <3>1, <3>2, <3>3, <3>4
  <2>7. Below(C, m) = Below(C, key)
    <3>1. \A k \in Keys : k < key /\ ~(k < m) => C[k] = {}
      <4>1. \A k \in Keys : k < key /\ ~(k < m) => k \in m..top
        BY <1>1, <2>4
      <4> QED
        BY <2>6, <4>1
    <3>2. \A k \in Keys : k < m => k < key
      BY <1>1, <2>4, <2>5
    <3>3. \A k \in Keys : (IF k < m THEN C[k] ELSE {}) = (IF k < key THEN C[k] ELSE {})
      BY <3>1, <3>2
    <3> HIDE DEF key
    <3> QED
      BY <3>3 DEF Below
  <2>8. Holds(b, Displaced(Below(C, key), far, in))
    BY <2>3, <2>7
  <2>9. it[1..i] = OffsetStep(b, e, far, in) /\ it[1..i] \in A
    BY <1>6, <1>12, <2>2 DEF turn
  <2>10. Holds(OffsetStep(b, e, far, in), Displaced(Below(C, key + 1), far, in))
    <3> HIDE DEF b, e
    <3> QED
      BY <1>1, <2>5, <2>8, OffsetTurn
  <2>11. Covers(r, i + 1, n, C, key + 1, top)
    <3>1. Covers(r, i, n, C, key, top)
      <4>1. \A k \in m..top : k \notin key..top => C[k] = {}
        <5>1. \A k \in m..top : k \notin key..top => k < key
          BY <1>1, <2>4, <2>5
        <5> QED
          BY <2>6, <5>1
      <4>2. \A j \in i..n : r[j].key \in key..top
        <5>1. \A j \in i..n : r[j].key \in m..top /\ (j = i \/ r[i].key < r[j].key)
          BY <2>1, <2>3 DEF Covers
        <5> QED
          BY <2>4, <2>5, <5>1
      <4>3. \A k \in key..top : k \in m..top
        BY <2>4, <2>5
      <4> HIDE DEF key, top
      <4> QED
        BY <2>3, <4>2, <4>3 DEF Covers
    <3> HIDE DEF top
    <3> QED
      BY <1>1, <2>1, <2>5, <3>1, BehindFirst DEF key, e
  <2>12. key + 1 \in 0..KeyCount
    BY <1>1, <2>4, <2>5
  <2> HIDE DEF b, e, key
  <2>13. At(it[1..i], i)
    BY <2>9, <2>10, <2>11, <2>12
  <2> HIDE DEF At
  <2> QED
    BY <2>1, <2>9, <2>13 DEF J
<1>15. it[1..n] \in J[n]
  <2> HIDE DEF At
  <2> QED
    BY <1>1, <1>13, <1>14, FoldKeeps
<1>16. At(it[1..n], n)
  <2> HIDE DEF At
  <2> QED
    BY <1>1, <1>15 DEF J
<1>17. Holds(it[1..n], Displaced(C, far, in))
  <2>1. PICK m \in 0..KeyCount : Holds(it[1..n], Displaced(Below(C, m), far, in)) /\ Covers(r, n + 1, n, C, m, top)
    BY <1>16
  <2>2. \A k \in m..top : C[k] = {}
    <3>1. \A j \in (n + 1)..n : FALSE
      BY <1>1
    <3> QED
      BY <2>1, <3>1 DEF Covers
  <2>3. \A k \in Keys : Below(C, m)[k] = C[k]
    <3>1. \A k \in Keys : ~(k < m) => k \in m..top
      BY <1>1
    <3> QED
      BY <2>2, <3>1 DEF Below
  <2>4. Below(C, m) = C
    BY <1>1, <2>3 DEF Below, Chunks
  <2> QED
    BY <2>1, <2>4
<1> QED
  BY <1>3, <1>17

-----------------------------------------------------------------------------
(* The chunks of a set of values.                                          *)

ChunksOf(S) == [h \in Keys |-> {v \in Lows : h * ChunkSize + v \in S}]

\* The chunks of a set are its low halves by keys.
LEMMA ChunksOfType ==
  ASSUME NEW S
  PROVE  /\ ChunksOf(S) \in Chunks
         /\ \A h \in Keys : ChunksOf(S)[h] = {v \in Lows : h * ChunkSize + v \in S}
  BY DEF ChunksOf, Chunks

\* An array that holds them has these members.
LEMMA HeldMembers ==
  ASSUME NEW S \in SUBSET Uint32, NEW r, Holds(r, ChunksOf(S))
  PROVE  MembersOf(r) = S
<1> DEFINE C == ChunksOf(S)
           n == Len(r)
<1>1. /\ n \in Nat /\ r \in Seq(Rows) /\ Covers(r, 1, n, C, 0, KeyCount - 1) /\ Keys = 0..(KeyCount - 1)
      /\ \A h \in Keys : C[h] = {v \in Lows : h * ChunkSize + v \in S}
      /\ ToSet(r) = {r[i] : i \in 1..n}
  BY Sizes, ChunksOfType DEF Holds, ToSet
<1> HIDE DEF C, n
<1>2. \A i \in 1..n : r[i].key \in Keys /\ r[i].container = C[r[i].key]
  BY <1>1 DEF Covers
<1>3. ASSUME NEW x \in MembersOf(r) PROVE x \in S
  <2>1. PICK i \in 1..n : \E v \in r[i].container : x = r[i].key * ChunkSize + v
    BY <1>1 DEF MembersOf
  <2> QED
    BY <1>1, <1>2, <2>1
<1>4. ASSUME NEW x \in S PROVE x \in MembersOf(r)
  <2>1. /\ High(x) \in Keys /\ Low(x) \in Lows
        /\ x = High(x) * ChunkSize + Low(x)
    BY HalvesOf
  <2>2. Low(x) \in C[High(x)]
    BY <1>1, <2>1
  <2>3. PICK i \in 1..n : r[i].key = High(x)
    BY <1>1, <2>1, <2>2 DEF Covers
  <2>4. Low(x) \in r[i].container /\ r[i] \in ToSet(r)
    BY <1>1, <1>2, <2>2, <2>3
  <2>5. x \in {r[i].key * ChunkSize + v : v \in r[i].container}
    BY <2>1, <2>3, <2>4
  <2> QED
    BY <2>4, <2>5 DEF MembersOf
<1> QED
  BY <1>3, <1>4

\* The part of a range that falls into a chunk.
LEMMA PartMembers ==
  ASSUME NEW min \in Uint32, NEW max \in Uint32, min <= max, NEW h \in Keys, NEW v \in Lows
  PROVE  LET x == h * ChunkSize + v
         IN  min <= x /\ x <= max <=> h \in High(min)..High(max) /\ v \in PartOf(min, max, h)
<1> DEFINE x == h * ChunkSize + v
           p == High(min)
           q == High(max)
           a == Low(min)
           b == Low(max)
<1>1. x \in Uint32 /\ High(x) = h /\ Low(x) = v
  BY ValueOf
<1> HIDE DEF x
<1>2. /\ min <= x <=> p < h \/ (p = h /\ a <= v)
      /\ x <= max <=> h < q \/ (h = q /\ v <= b)
  BY <1>1, HalvesOrder
<1>3. /\ p \in Int /\ q \in Int /\ a \in Int /\ b \in Int /\ h \in Int /\ v \in Int
      /\ 0 <= v /\ v <= LowMax /\ LowMax \in Int /\ p <= q
  BY HalvesOf, RangeKeys, Sizes
<1>4. v \in PartOf(min, max, h) <=> (h = p => a <= v) /\ (h = q => v <= b)
  <2> DEFINE from == IF h = p THEN a ELSE 0
             to == IF h = q THEN b ELSE LowMax
  <2>1. PartOf(min, max, h) = from..to
    BY DEF PartOf
  <2>2. /\ from \in Int /\ to \in Int
        /\ from <= v <=> (h = p => a <= v)
        /\ v <= to <=> (h = q => v <= b)
    BY <1>3
  <2> HIDE DEF from, to, a, b, p, q
  <2> QED
    BY <1>3, <2>1, <2>2
<1> HIDE DEF p, q, a, b
<1> QED
  BY <1>2, <1>3, <1>4 DEF x, p, q

\* What the calls on values and on ranges of them do to the chunks of a set.
LEMMA AddedMembers ==
  ASSUME NEW S, NEW min \in Uint32, NEW max \in Uint32, min <= max
  PROVE  Added(ChunksOf(S), min, max) = ChunksOf(S \cup min..max)
<1> DEFINE C == ChunksOf(S)
           D == ChunksOf(S \cup min..max)
           E == Added(C, min, max)
<1>1. /\ C \in Chunks /\ D \in Chunks
      /\ \A h \in Keys : C[h] = {v \in Lows : h * ChunkSize + v \in S}
      /\ \A h \in Keys : D[h] = {v \in Lows : h * ChunkSize + v \in S \cup min..max}
  BY ChunksOfType
<1> HIDE DEF C, D
<1>2. ASSUME NEW h \in Keys PROVE E[h] = D[h]
  <2>1. E[h] = IF h \in High(min)..High(max) THEN C[h] \cup PartOf(min, max, h) ELSE C[h]
    BY DEF Added
  <2>2. h \in High(min)..High(max) => PartOf(min, max, h) \in SUBSET Lows
    BY RangeKeys
  <2>3. ASSUME NEW v \in Lows PROVE v \in E[h] <=> v \in D[h]
    <3> DEFINE x == h * ChunkSize + v
    <3>1. x \in min..max <=> h \in High(min)..High(max) /\ v \in PartOf(min, max, h)
      <4>1. x \in Int
        BY ValueOf DEF Uint32
      <4>2. min <= x /\ x <= max <=> h \in High(min)..High(max) /\ v \in PartOf(min, max, h)
        BY PartMembers
      <4> HIDE DEF x
      <4> QED
        BY <4>1, <4>2 DEF Uint32
    <3>2. (v \in C[h] <=> x \in S) /\ (v \in D[h] <=> x \in S \/ x \in min..max)
      BY <1>1
    <3> HIDE DEF x, E
    <3> QED
      BY <2>1, <3>1, <3>2
  <2>4. E[h] \subseteq Lows /\ D[h] \subseteq Lows
    BY <1>1, <2>1, <2>2
  <2> HIDE DEF E
  <2> QED
    BY <2>3, <2>4
<1>3. E \in Chunks
  BY <1>1, AddedFacts
<1> HIDE DEF E
<1>4. E = D
  BY <1>1, <1>2, <1>3 DEF Chunks
<1> QED
  BY <1>4 DEF E, C, D

\* Chunks without a range are those of the values without it.
LEMMA LessenedMembers ==
  ASSUME NEW S, NEW min \in Uint32, NEW max \in Uint32, min <= max
  PROVE  Lessened(ChunksOf(S), min, max) = ChunksOf(S \ (min..max))
<1> DEFINE C == ChunksOf(S)
           D == ChunksOf(S \ (min..max))
           E == Lessened(C, min, max)
<1>1. /\ C \in Chunks /\ D \in Chunks
      /\ \A h \in Keys : C[h] = {v \in Lows : h * ChunkSize + v \in S}
      /\ \A h \in Keys : D[h] = {v \in Lows : h * ChunkSize + v \in S \ (min..max)}
  BY ChunksOfType
<1> HIDE DEF C, D
<1>2. ASSUME NEW h \in Keys PROVE E[h] = D[h]
  <2>1. E[h] = IF h \in High(min)..High(max) THEN C[h] \ PartOf(min, max, h) ELSE C[h]
    BY DEF Lessened
  <2>3. ASSUME NEW v \in Lows PROVE v \in E[h] <=> v \in D[h]
    <3> DEFINE x == h * ChunkSize + v
    <3>1. x \in min..max <=> h \in High(min)..High(max) /\ v \in PartOf(min, max, h)
      <4>1. x \in Int
        BY ValueOf DEF Uint32
      <4>2. min <= x /\ x <= max <=> h \in High(min)..High(max) /\ v \in PartOf(min, max, h)
        BY PartMembers
      <4> HIDE DEF x
      <4> QED
        BY <4>1, <4>2 DEF Uint32
    <3>2. (v \in C[h] <=> x \in S) /\ (v \in D[h] <=> x \in S /\ ~(x \in min..max))
      BY <1>1
    <3> HIDE DEF x, E
    <3> QED
      BY <2>1, <3>1, <3>2
  <2>4. E[h] \subseteq Lows /\ D[h] \subseteq Lows
    BY <1>1, <2>1
  <2> HIDE DEF E
  <2> QED
    BY <2>3, <2>4
<1>3. E \in Chunks
  BY <1>1, LessenedFacts
<1> HIDE DEF E
<1>4. E = D
  BY <1>1, <1>2, <1>3 DEF Chunks
<1> QED
  BY <1>4 DEF E, C, D

\* Chunks with a range flipped are those of the values with it flipped.
LEMMA FlippedMembers ==
  ASSUME NEW S, NEW min \in Uint32, NEW max \in Uint32, min <= max
  PROVE  Flipped(ChunksOf(S), min, max, High(max) + 1) = ChunksOf(SymDiff(S, min..max))
<1> DEFINE C == ChunksOf(S)
           D == ChunksOf(SymDiff(S, min..max))
           E == Flipped(C, min, max, High(max) + 1)
<1>1. /\ C \in Chunks /\ D \in Chunks
      /\ \A h \in Keys : C[h] = {v \in Lows : h * ChunkSize + v \in S}
      /\ \A h \in Keys : D[h] = {v \in Lows : h * ChunkSize + v \in SymDiff(S, min..max)}
  BY ChunksOfType
<1> HIDE DEF C, D
<1>2. ASSUME NEW h \in Keys PROVE E[h] = D[h]
  <2>0. High(max) \in Int /\ High(min) \in Int
    BY RangeKeys, Sizes
  <2>1. E[h] = IF h \in High(min)..High(max) THEN SymDiff(C[h], PartOf(min, max, h)) ELSE C[h]
    BY <2>0 DEF Flipped
  <2>2. h \in High(min)..High(max) => PartOf(min, max, h) \in SUBSET Lows
    BY RangeKeys
  <2>3. ASSUME NEW v \in Lows PROVE v \in E[h] <=> v \in D[h]
    <3> DEFINE x == h * ChunkSize + v
    <3>1. x \in min..max <=> h \in High(min)..High(max) /\ v \in PartOf(min, max, h)
      <4>1. x \in Int
        BY ValueOf DEF Uint32
      <4>2. min <= x /\ x <= max <=> h \in High(min)..High(max) /\ v \in PartOf(min, max, h)
        BY PartMembers
      <4> HIDE DEF x
      <4> QED
        BY <4>1, <4>2 DEF Uint32
    <3>2. (v \in C[h] <=> x \in S) /\ (v \in D[h] <=> ~(x \in S <=> x \in min..max))
      BY <1>1 DEF SymDiff
    <3>3. h \in High(min)..High(max) => (v \in E[h] <=> ~(v \in C[h] <=> v \in PartOf(min, max, h)))
      BY <2>1 DEF SymDiff
    <3> HIDE DEF x, E
    <3> QED
      BY <2>1, <3>1, <3>2, <3>3
  <2>4. E[h] \subseteq Lows /\ D[h] \subseteq Lows
    BY <1>1, <2>1, <2>2 DEF SymDiff
  <2> HIDE DEF E
  <2> QED
    BY <2>3, <2>4
<1>3. E \in Chunks
  BY <1>1, FlipEnds
<1> HIDE DEF E
<1>4. E = D
  BY <1>1, <1>2, <1>3 DEF Chunks
<1> QED
  BY <1>4 DEF E, C, D

\* Chunks with one value more or less are those of such values.
LEMMA OneMember ==
  ASSUME NEW S, NEW x \in Uint32
  PROVE  /\ With(ChunksOf(S), High(x), ChunksOf(S)[High(x)] \cup {Low(x)}) = ChunksOf(S \cup {x})
         /\ With(ChunksOf(S), High(x), ChunksOf(S)[High(x)] \ {Low(x)}) = ChunksOf(S \ {x})
<1> DEFINE C == ChunksOf(S)
           D == ChunksOf(S \cup {x})
           E == ChunksOf(S \ {x})
<1>1. /\ C \in Chunks /\ D \in Chunks /\ E \in Chunks
      /\ \A h \in Keys : C[h] = {v \in Lows : h * ChunkSize + v \in S}
      /\ \A h \in Keys : D[h] = {v \in Lows : h * ChunkSize + v \in S \cup {x}}
      /\ \A h \in Keys : E[h] = {v \in Lows : h * ChunkSize + v \in S \ {x}}
  BY ChunksOfType
<1>2. High(x) \in Keys /\ Low(x) \in Lows
  BY HalvesOf
<1>3. ASSUME NEW h \in Keys, NEW v \in Lows PROVE h * ChunkSize + v = x <=> h = High(x) /\ v = Low(x)
  BY HalvesOf, ValueOf
<1> HIDE DEF C, D, E
<1>4. \A h \in Keys : /\ D[h] = IF h = High(x) THEN C[h] \cup {Low(x)} ELSE C[h]
                      /\ E[h] = IF h = High(x) THEN C[h] \ {Low(x)} ELSE C[h]
  <2>1. SUFFICES ASSUME NEW h \in Keys
                 PROVE  /\ D[h] = IF h = High(x) THEN C[h] \cup {Low(x)} ELSE C[h]
                        /\ E[h] = IF h = High(x) THEN C[h] \ {Low(x)} ELSE C[h]
    OBVIOUS
  <2>2. C[h] \subseteq Lows /\ D[h] \subseteq Lows /\ E[h] \subseteq Lows
    BY <1>1
  <2>3. \A v \in Lows : /\ v \in D[h] <=> v \in C[h] \/ (h = High(x) /\ v = Low(x))
                        /\ v \in E[h] <=> v \in C[h] /\ ~(h = High(x) /\ v = Low(x))
    <3>1. SUFFICES ASSUME NEW v \in Lows
                   PROVE  /\ v \in D[h] <=> v \in C[h] \/ (h = High(x) /\ v = Low(x))
                          /\ v \in E[h] <=> v \in C[h] /\ ~(h = High(x) /\ v = Low(x))
      OBVIOUS
    <3> DEFINE y == h * ChunkSize + v
    <3>2. y = x <=> h = High(x) /\ v = Low(x)
      BY <1>3
    <3>3. /\ v \in C[h] <=> y \in S
          /\ v \in D[h] <=> y \in S \/ y = x
          /\ v \in E[h] <=> y \in S /\ y # x
      BY <1>1
    <3> HIDE DEF y
    <3> QED
      BY <3>2, <3>3
  <2> QED
    BY <1>2, <2>2, <2>3
<1>5. With(C, High(x), C[High(x)] \cup {Low(x)}) = D
  BY <1>1, <1>2, <1>4 DEF With, Chunks
<1>6. With(C, High(x), C[High(x)] \ {Low(x)}) = E
  BY <1>1, <1>2, <1>4 DEF With, Chunks
<1> QED
  BY <1>5, <1>6 DEF C, D, E

\* A value has one pair of halves.
LEMMA KeyOf ==
  ASSUME NEW k \in Int, NEW u \in Lows, k * ChunkSize + u \in Uint32
  PROVE  k \in Keys
<1> DEFINE n == ChunkSize
           kn == k * n
           all == KeyCount * n
<1>1. /\ n \in Nat \ {0} /\ u \in 0..(n - 1) /\ KeyCount \in Nat /\ kn \in Int /\ all \in Int
      /\ kn + u \in 0..(all - 1) /\ Keys = 0..(KeyCount - 1)
  BY Sizes DEF Uint32, Universe
<1>2. k < 0 => kn <= -n
  <2>1. k < 0 => k <= -1 /\ -1 \in Int /\ (-1) * n = -n
    BY <1>1
  <2> HIDE DEF n
  <2>2. k < 0 => k * n <= (-1) * n
    BY <1>1, <2>1, ProductGrows
  <2> QED
    BY <2>1, <2>2
<1>3. k >= KeyCount => all <= kn
  BY <1>1, ProductGrows
<1> HIDE DEF n, kn, all
<1> QED
  BY <1>1, <1>2, <1>3

\* A number is a multiple and a rest.
LEMMA DividedInt ==
  ASSUME NEW x \in Int, NEW n \in Nat \ {0}
  PROVE  /\ x \div n \in Int /\ (x \div n) * n \in Int
         /\ x - (x \div n) * n \in 0..(n - 1)
  OBVIOUS

\* The chunks of the shifted values.
LEMMA DisplacedMembers ==
  ASSUME NEW S \in SUBSET Uint32, NEW offset \in Int,
         NEW far \in Int, NEW in \in Lows, far * ChunkSize + in = offset
  PROVE  Displaced(ChunksOf(S), far, in) = ChunksOf({x + offset : x \in S} \cap Uint32)
<1> DEFINE C == ChunksOf(S)
           T == {x + offset : x \in S} \cap Uint32
           D == ChunksOf(T)
           E == Displaced(C, far, in)
           n == ChunkSize
           fn == far * n
<1>1. /\ C \in Chunks /\ D \in Chunks
      /\ \A h \in Keys : C[h] = {v \in Lows : h * ChunkSize + v \in S}
      /\ \A h \in Keys : D[h] = {v \in Lows : h * ChunkSize + v \in T}
  BY ChunksOfType
<1>2. /\ n \in Nat \ {0} /\ Lows = 0..(n - 1) /\ Lows \subseteq Int /\ Keys \subseteq Int
      /\ in \in 0..(n - 1) /\ fn \in Int /\ fn + in = offset /\ Uint32 \subseteq Int
  BY Sizes DEF Uint32
<1> HIDE DEF C, D, fn
<1>3. ASSUME NEW h \in Keys PROVE E[h] = D[h]
  <2> DEFINE k == h - far
             hn == h * n
  <2>1. E[h] = LowPart(C, k, in) \cup HighPart(C, k - 1, in)
    BY DEF Displaced
  <2>2. k \in Int /\ k - 1 \in Int /\ hn \in Int /\ k * n = hn - fn /\ (k - 1) * n = (hn - fn) - n
    BY <1>2 DEF fn
  <2> HIDE DEF k
  <2>3. ASSUME NEW v \in Lows PROVE v \in E[h] <=> v \in D[h]
    <3> DEFINE y == hn + v
               z == y - offset
               u == v - in
               w == (v + n) - in
    <3>1. /\ y \in Uint32 /\ z \in Int /\ v \in 0..(n - 1) /\ u \in Int /\ w \in Int
          /\ z = k * n + u /\ z = (k - 1) * n + w
          /\ u \in Lows \/ w \in Lows
      <4>1. y \in Uint32
        BY ValueOf
      <4>2. v \in 0..(n - 1)
        BY <1>2
      <4> HIDE DEF hn, n
      <4> QED
        BY <1>2, <2>2, <4>1, <4>2
    <3>2. v \in D[h] <=> z \in S
      <4>1. v \in D[h] <=> y \in T
        BY <1>1
      <4>2. \A x \in S : x \in Int /\ (x + offset = y <=> x = z)
        <5> HIDE DEF y
        <5> QED
          BY <1>2, <3>1
      <4> HIDE DEF y, z
      <4> QED
        BY <3>1, <4>1, <4>2
    <3>3. \A j \in Int, a \in Lows : (j \in Keys /\ a \in C[j]) <=> j * n + a \in S
      <4>1. SUFFICES ASSUME NEW j \in Int, NEW a \in Lows PROVE (j \in Keys /\ a \in C[j]) <=> j * n + a \in S
        OBVIOUS
      <4>2. j \in Keys => (a \in C[j] <=> j * n + a \in S)
        BY <1>1
      <4>3. j * n + a \in S => j \in Keys
        BY KeyOf
      <4> QED
        BY <4>2, <4>3
    <3>4. \A j \in Keys : C[j] \subseteq Lows
      BY <1>1
    <3>5. v \in LowPart(C, k, in) <=> u \in Lows /\ z \in S
      <4>1. v \in LowPart(C, k, in) <=> k \in Keys /\ u \in C[k]
        BY DEF LowPart
      <4>2. u \in Lows => ((k \in Keys /\ u \in C[k]) <=> z \in S)
        BY <2>2, <3>1, <3>3
      <4> HIDE DEF u, z
      <4> QED
        BY <3>4, <4>1, <4>2
    <3>6. v \in HighPart(C, k - 1, in) <=> w \in Lows /\ z \in S
      <4> DEFINE j == k - 1
      <4>1. v \in HighPart(C, j, in) <=> j \in Keys /\ w \in C[j]
        BY DEF HighPart
      <4>2. w \in Lows => ((j \in Keys /\ w \in C[j]) <=> z \in S)
        BY <2>2, <3>1, <3>3
      <4> HIDE DEF w, z, j
      <4>3. v \in HighPart(C, j, in) <=> w \in Lows /\ z \in S
        BY <3>4, <4>1, <4>2
      <4> QED
        BY <4>3 DEF j
    <3> HIDE DEF E, u, w, z
    <3> QED
      BY <2>1, <3>1, <3>2, <3>5, <3>6
  <2>4. E[h] \subseteq Lows /\ D[h] \subseteq Lows
    BY <1>1, <2>1 DEF LowPart, HighPart
  <2> HIDE DEF E
  <2> QED
    BY <2>3, <2>4
<1>4. E \in Chunks
  BY DEF Displaced, LowPart, HighPart, Chunks
<1> HIDE DEF E
<1>5. E = D
  BY <1>1, <1>3, <1>4 DEF Chunks
<1> QED
  BY <1>5 DEF E, C, D

\* The values after a shift.
LEMMA OffsetCorrect ==
  ASSUME NEW S \in SUBSET Uint32, NEW r, Holds(r, ChunksOf(S)), NEW offset \in Int
  PROVE  Holds(roaring_bitmap_add_offset(r, offset), ChunksOf({x + offset : x \in S} \cap Uint32))
<1> DEFINE far == offset \div ChunkSize
           in == offset - far * ChunkSize
<1>1. far \in Int /\ in \in Lows /\ far * ChunkSize + in = offset
  <2>1. far \in Int /\ far * ChunkSize \in Int /\ in \in 0..(ChunkSize - 1)
    BY DividedInt, Sizes
  <2>2. Lows = 0..(ChunkSize - 1) /\ ChunkSize \in Nat
    BY Sizes
  <2>3. far * ChunkSize + in = offset
    <3> DEFINE fn == far * ChunkSize
    <3>1. fn \in Int
      BY <2>1
    <3> HIDE DEF fn
    <3>2. fn + (offset - fn) = offset
      BY <3>1
    <3> QED
      BY <3>2 DEF fn
  <2> QED
    BY <2>1, <2>2, <2>3
<1>2. roaring_bitmap_add_offset(r, offset) = Displacing(r, far, in)
  BY DEF roaring_bitmap_add_offset, Displacing, OffsetStep
<1> HIDE DEF far, in
<1>3. Holds(Displacing(r, far, in), Displaced(ChunksOf(S), far, in))
  BY <1>1, DisplacingCorrect
<1>4. Displaced(ChunksOf(S), far, in) = ChunksOf({x + offset : x \in S} \cap Uint32)
  BY <1>1, DisplacedMembers
<1> QED
  BY <1>2, <1>3, <1>4

-----------------------------------------------------------------------------
(* Building an array from a range.                                         *)

\* Multiples of a step: a difference that is one, the smallest one, and the
\* rounding up to one.
LEMMA SameRemainder ==
  ASSUME NEW step \in Nat \ {0}, NEW a \in Nat, NEW d \in Nat, a % step = 0
  PROVE  (a + d) % step = d % step
<1> DEFINE c == a \div step
           e == d \div step
           rest == d % step
           cs == c * step
           es == e * step
<1>1. c \in Nat /\ e \in Nat /\ rest \in 0..(step - 1) /\ a = cs + 0 /\ d = es + rest /\ cs \in Nat /\ es \in Nat
  <2>1. c \in Nat /\ a = cs + (a % step)
    BY Divided
  <2>2. e \in Nat /\ rest \in 0..(step - 1) /\ d = es + rest
    BY Divided
  <2>3. a = cs + 0
    BY <2>1
  <2> HIDE DEF rest
  <2>4. cs \in Nat /\ es \in Nat
    <3> HIDE DEF c, e
    <3> QED
      BY <2>1, <2>2
  <2> QED
    BY <2>1, <2>2, <2>3, <2>4
<1>2. (c + e) * step = cs + es /\ c + e \in Nat
  BY <1>1
<1>3. ((c + e) * step + rest) % step = rest
  <2> DEFINE f == c + e
  <2>1. f \in Nat
    BY <1>2
  <2> HIDE DEF f, rest
  <2>2. (f * step + rest) % step = rest
    BY <1>1, <2>1, ToHalves
  <2> QED
    BY <2>2 DEF f
<1>4. (c + e) * step + rest = a + d
  <2> DEFINE both == (c + e) * step
  <2>1. both = cs + es
    BY <1>2
  <2> HIDE DEF both, cs, es, rest
  <2>2. both + rest = a + d
    BY <1>1, <2>1
  <2> QED
    BY <2>2 DEF both
<1> HIDE DEF c, e, rest
<1> QED
  BY <1>3, <1>4 DEF rest

\* No multiple of a step lies between 0 and the step.
LEMMA SmallestStep ==
  ASSUME NEW step \in Nat \ {0}, NEW z \in Nat, z > 0, z % step = 0
  PROVE  z >= step
<1>1. SUFFICES ASSUME z < step PROVE FALSE
  OBVIOUS
<1>2. z \in 0..(step - 1) /\ 0 * step + z = z
  BY <1>1
<1>3. (0 * step + z) % step = z
  BY <1>2, ToHalves
<1> QED
  BY <1>2, <1>3

\* What is left of a length without its rest.
LEMMA WithoutRest ==
  ASSUME NEW step \in Nat \ {0}, NEW length \in Nat \ {0}, NEW m \in Nat, NEW rest \in 0..(step - 1),
         NEW all, all = m + rest, all = length + step - 1
  PROVE  all - rest = m /\ m >= length /\ m < length + step
  OBVIOUS

\* A length rounded up to the next multiple of a step.
LEMMA RoundedUp ==
  ASSUME NEW step \in Nat \ {0}, NEW length \in Nat \ {0}, NEW gap, gap = length + step - 1,
         NEW g, g = gap - (gap % step)
  PROVE  g \in Nat /\ g % step = 0 /\ g >= length /\ g < length + step
<1> DEFINE a == gap \div step
           b == gap % step
           as == a * step
<1>1. gap \in Nat
  OBVIOUS
<1>2. a \in Nat /\ b \in 0..(step - 1) /\ gap = as + b
  BY <1>1, Divided
<1>3. as \in Nat /\ as + 0 = as
  BY <1>2
<1>4. (a * step + 0) % step = 0
  <2>1. 0 \in 0..(step - 1)
    OBVIOUS
  <2> HIDE DEF a
  <2> QED
    BY <1>2, <2>1, ToHalves
<1>5. as % step = 0
  BY <1>3, <1>4
<1>6. g = gap - b
  OBVIOUS
<1> HIDE DEF as, a, b
<1>7. g = as /\ g >= length /\ g < length + step
  <2>1. gap - b = as /\ as >= length /\ as < length + step
    <3>1. as \in Nat /\ b \in 0..(step - 1) /\ gap = as + b
      BY <1>2, <1>3
    <3>2. gap = length + step - 1
      OBVIOUS
    <3> QED
      BY <3>1, <3>2, WithoutRest
  <2> QED
    BY <2>1, <1>6
<1> QED
  BY <1>3, <1>5, <1>7

\* The values of a range that are a number of steps from its start, below a bound.
InSteps(x, min, below, step) == min <= x /\ x < below /\ (x - min) % step = 0
Stepped(min, below, step) == {x \in Uint32 : InSteps(x, min, below, step)}

\* One turn of the loop of from_range.
RangeStep(s, min, max, step) ==
  LET key == High(s.min_tmp)
      container_min == Low(s.min_tmp)
      container_max == IF max - key * ChunkSize < ChunkSize
                       THEN max - key * ChunkSize ELSE ChunkSize
      gap == container_max - container_min + step - 1
      container == { v \in container_min .. container_max - 1 :
                       (v - container_min) % step = 0 }
  IN  IF s.min_tmp >= max THEN s
      ELSE [ra      |-> Append(s.ra, Entry(key, container)),
            min_tmp |-> s.min_tmp + gap - (gap % step)]

\* Its state after i turns.
Ranging(s, min, max, step, i) ==
  /\ s.ra \in Seq(Rows) /\ s.min_tmp \in Nat
  /\ min <= s.min_tmp /\ (s.min_tmp - min) % step = 0
  /\ s.min_tmp < max => /\ s.min_tmp = min \/ s.min_tmp - step < High(s.min_tmp) * ChunkSize
                        /\ i <= High(s.min_tmp)
                        /\ Holds(s.ra, ChunksOf(Stepped(min, s.min_tmp, step)))
  /\ s.min_tmp >= max => Holds(s.ra, ChunksOf(Stepped(min, max, step)))

RangeStates == [ra : Seq(Rows), min_tmp : Nat]

\* What a turn that is not the last does, in numbers: m is min_tmp, base the
\* first value of its chunk, cmax where its part of the chunk ends, m2 the next
\* min_tmp.
TurnNumbers(m, max, step, key, base, cmin, cmax, m2) ==
  /\ key \in Nat /\ base \in Nat /\ cmin \in 0..(ChunkSize - 1) /\ m = base + cmin
  /\ cmax \in 1..ChunkSize /\ cmin < cmax
  /\ base + cmax <= max /\ (base + cmax = max \/ cmax = ChunkSize)
  /\ m2 \in Nat /\ m2 >= base + cmax /\ m2 < (base + cmax) + step
  /\ m2 > m /\ (m2 - m) % step = 0

\* The numbers of one turn of roaring_bitmap_from_range.
LEMMA RangeTurnNumbers ==
  ASSUME NEW m \in Nat, NEW max \in Nat, m < max, NEW step \in Nat \ {0},
         NEW key, key = High(m), NEW base, base = key * ChunkSize,
         NEW cmin, cmin = Low(m),
         NEW cmax, cmax = IF max - base < ChunkSize THEN max - base ELSE ChunkSize,
         NEW gap, gap = cmax - cmin + step - 1,
         NEW m2, m2 = m + gap - (gap % step)
  PROVE  TurnNumbers(m, max, step, key, base, cmin, cmax, m2)
<1> DEFINE n == ChunkSize
           length == cmax - cmin
           g == gap - (gap % step)
<1>1. n \in Nat \ {0}
  BY Sizes
<1>2. key \in Nat /\ cmin \in 0..(n - 1) /\ m = base + cmin /\ base \in Nat
  <2>1. m \div n \in Nat /\ m % n \in 0..(n - 1) /\ m = (m \div n) * n + (m % n)
    BY <1>1, Divided
  <2>2. (m \div n) * n \in Nat
    BY <1>1, <2>1
  <2> QED
    BY <2>1, <2>2 DEF High, Low
<1> HIDE DEF n
<1>3. /\ cmax \in 1..n /\ cmin < cmax /\ base + cmax <= max /\ (base + cmax = max \/ cmax = n)
  BY <1>1, <1>2 DEF n
<1>4. length \in Nat \ {0} /\ gap = length + step - 1
  BY <1>1, <1>2, <1>3
<1> HIDE DEF length
<1>5. g \in Nat /\ g % step = 0 /\ g >= length /\ g < length + step
  BY <1>4, RoundedUp
<1>6. gap \in Nat /\ gap % step \in Int
  <2>1. gap \in Nat
    BY <1>4
  <2> QED
    BY <2>1, Divided
<1> DEFINE rest == gap % step
<1>7. g = gap - rest /\ m2 = m + gap - rest /\ rest \in Int
  BY <1>6
<1> HIDE DEF g, rest
<1>8. m2 = m + g /\ m2 - m = g /\ m2 \in Nat
  BY <1>5, <1>6, <1>7
<1>9. m + length = base + cmax
  BY <1>1, <1>2, <1>3 DEF length
<1>10. m2 >= base + cmax /\ m2 < (base + cmax) + step /\ m2 > m
  <2>1. m2 >= base + cmax /\ m2 < (base + cmax) + step
    <3> DEFINE top == base + cmax
    <3>1. top \in Nat
      BY <1>1, <1>2, <1>3
    <3>2. m + length = top
      BY <1>9
    <3> HIDE DEF top
    <3>3. m2 = m + g /\ g >= length /\ g < length + step /\ g \in Nat /\ length \in Nat
      BY <1>4, <1>5, <1>8
    <3>4. m2 >= top /\ m2 < top + step
      BY <3>1, <3>2, <3>3
    <3> QED
      BY <3>4 DEF top
  <2>2. m2 > m
    BY <1>4, <1>5, <1>8
  <2> QED
    BY <2>1, <2>2
<1> QED
  BY <1>2, <1>3, <1>5, <1>8, <1>10 DEF n, TurnNumbers

\* Two values that are a number of steps from the same start are at least a
\* step apart.
LEMMA NoneBetween ==
  ASSUME NEW step \in Nat \ {0}, NEW min \in Nat, NEW x \in Nat, NEW m \in Nat, min <= x, x < m,
         (x - min) % step = 0, (m - min) % step = 0
  PROVE  m >= x + step
<1> DEFINE a == x - min
           d == m - x
<1>1. a \in Nat /\ d \in Nat /\ d > 0 /\ a + d = m - min
  OBVIOUS
<1>2. a % step = 0 /\ (a + d) % step = 0
  BY <1>1
<1> HIDE DEF a
<1>3. d \in Nat
  BY <1>1
<1> HIDE DEF d
<1>4. d % step = 0
  BY <1>1, <1>2, SameRemainder
<1>5. d >= step
  BY <1>1, <1>4, SmallestStep
<1> QED
  BY <1>5 DEF d

\* Up to where the values are found after a turn, and what a turn starts from.
Until(m2, max) == IF m2 < max THEN m2 ELSE max
Outside(x, base) == x < base \/ x >= base + ChunkSize
TurnStart(min, m, step, base) ==
  min <= m /\ (m - min) % step = 0 /\ (m = min \/ m - step < base)

\* Whether a value of the chunk is one of the steps, before and after its turn.
LEMMA SteppedHere ==
  ASSUME NEW step \in Nat \ {0}, NEW min \in Nat, NEW m \in Nat, NEW max \in Nat, m < max,
         NEW key, NEW base, NEW cmin, NEW cmax, NEW m2,
         TurnNumbers(m, max, step, key, base, cmin, cmax, m2), TurnStart(min, m, step, base),
         NEW v \in Lows, NEW x, x = base + v
  PROVE  InSteps(x, min, Until(m2, max), step) <=> InSteps(v, cmin, cmax, step)
<1> DEFINE n == ChunkSize
           below == Until(m2, max)
<1>1. /\ n \in Nat /\ base \in Nat /\ cmin \in Nat /\ cmax \in Nat /\ m2 \in Nat
      /\ m = base + cmin /\ min <= m /\ (m - min) % step = 0 /\ (m = min \/ m - step < base)
      /\ base + cmax <= max /\ (base + cmax = max \/ cmax = n) /\ m2 >= base + cmax
      /\ below = (IF m2 < max THEN m2 ELSE max)
      /\ v \in 0..(n - 1) /\ v \in Nat
  BY Sizes DEF TurnNumbers, TurnStart, Until
<1> HIDE DEF n, below
<1>4. x \in Nat
  BY <1>1
<1>2. ASSUME min <= x, x < below, (x - min) % step = 0 PROVE v \in cmin..(cmax - 1) /\ (v - cmin) % step = 0
  <2>1. x >= m
    <3>1. SUFFICES ASSUME x < m PROVE FALSE
      BY <1>1, <1>4
    <3>2. m >= x + step
      BY <1>1, <1>2, <1>4, <3>1, NoneBetween
    <3> QED
      BY <1>1, <1>2, <1>4, <3>1, <3>2
  <2>2. v >= cmin
    BY <1>1, <2>1
  <2>3. v < cmax
    BY <1>1, <1>2
  <2> DEFINE a == m - min
             d == v - cmin
  <2>4. a \in Nat /\ d \in Nat /\ a + d = x - min
    BY <1>1, <2>2
  <2>5. a % step = 0 /\ (a + d) % step = 0
    BY <1>1, <1>2, <2>4
  <2> HIDE DEF a, d
  <2>6. d % step = 0
    BY <2>4, <2>5, SameRemainder
  <2> QED
    BY <2>2, <2>3, <2>6, <1>1 DEF d
<1>3. ASSUME v \in cmin..(cmax - 1), (v - cmin) % step = 0
      PROVE  min <= x /\ x < below /\ (x - min) % step = 0
  <2>1. v >= cmin /\ v < cmax
    BY <1>1, <1>3
  <2>2. x >= m /\ x < below
    BY <1>1, <2>1
  <2> DEFINE a == m - min
             d == v - cmin
  <2>4. a \in Nat /\ d \in Nat /\ a + d = x - min
    BY <1>1, <2>1
  <2>5. a % step = 0 /\ d % step = 0
    BY <1>1, <1>3
  <2> HIDE DEF a, d
  <2>6. (a + d) % step = 0
    BY <2>4, <2>5, SameRemainder
  <2> QED
    BY <1>1, <1>4, <2>2, <2>4, <2>6
<1>5. InSteps(x, min, below, step) <=> InSteps(v, cmin, cmax, step)
  BY <1>1, <1>2, <1>3 DEF InSteps
<1> QED
  BY <1>5 DEF below

\* The other chunks get no value in the turn.
LEMMA SteppedElsewhere ==
  ASSUME NEW step \in Nat \ {0}, NEW min \in Nat, NEW m \in Nat, NEW max \in Nat, m < max,
         NEW key, NEW base, NEW cmin, NEW cmax, NEW m2,
         TurnNumbers(m, max, step, key, base, cmin, cmax, m2), (m2 - min) % step = 0,
         NEW x \in Nat, Outside(x, base)
  PROVE  InSteps(x, min, Until(m2, max), step) <=> InSteps(x, min, m, step)
<1> DEFINE n == ChunkSize
           below == Until(m2, max)
<1>1. /\ n \in Nat /\ base \in Nat /\ cmax \in Nat /\ m2 \in Nat /\ base <= m /\ cmax <= n
      /\ m2 < (base + cmax) + step /\ m < m2
      /\ below = (IF m2 < max THEN m2 ELSE max)
      /\ x < base \/ x >= base + n
  BY Sizes DEF TurnNumbers, Until, Outside
<1> HIDE DEF n, below
<1>2. below <= m2 /\ m < below /\ below \in Nat
  BY <1>1
<1>3. ASSUME min <= x, x < below, (x - min) % step = 0, x >= base + n PROVE FALSE
  <2>1. x < m2
    BY <1>1, <1>2, <1>3
  <2>2. m2 >= x + step
    BY <1>1, <1>3, <2>1, NoneBetween
  <2> QED
    BY <1>1, <1>3, <2>2
<1>4. InSteps(x, min, below, step) <=> InSteps(x, min, m, step)
  BY <1>1, <1>2, <1>3 DEF InSteps
<1> QED
  BY <1>4 DEF below

\* One turn of roaring_bitmap_from_range leaves a state of the loop.
LEMMA RangeStepType ==
  ASSUME NEW s \in RangeStates, NEW min \in Nat, NEW max \in Nat, NEW step \in Nat \ {0}
  PROVE  RangeStep(s, min, max, step) \in RangeStates
<1> DEFINE m == s.min_tmp
           key == High(m)
           base == key * ChunkSize
           cmin == Low(m)
           cmax == IF max - base < ChunkSize THEN max - base ELSE ChunkSize
           gap == cmax - cmin + step - 1
           m2 == m + gap - (gap % step)
           c == {v \in cmin..(cmax - 1) : (v - cmin) % step = 0}
<1>1. s.ra \in Seq(Rows) /\ m \in Nat
  BY DEF RangeStates
<1>2. CASE m >= max
  BY <1>2 DEF RangeStep
<1>3. CASE m < max
  <2>1. RangeStep(s, min, max, step) = [ra |-> Append(s.ra, Entry(key, c)), min_tmp |-> m2]
    BY <1>1, <1>3 DEF RangeStep
  <2>2. /\ key = High(m) /\ base = key * ChunkSize /\ cmin = Low(m)
        /\ cmax = (IF max - base < ChunkSize THEN max - base ELSE ChunkSize)
        /\ gap = cmax - cmin + step - 1 /\ m2 = m + gap - (gap % step)
    OBVIOUS
  <2> HIDE DEF m, key, base, cmin, cmax, gap, m2
  <2>0. TurnNumbers(m, max, step, key, base, cmin, cmax, m2)
    BY <1>1, <1>3, <2>2, RangeTurnNumbers
  <2>3. key \in Nat /\ m2 \in Nat /\ cmin \in 0..(ChunkSize - 1)
    BY <2>0 DEF TurnNumbers
  <2>4. c \in SUBSET Int
    OBVIOUS
  <2> HIDE DEF c
  <2>5. Entry(key, c) \in Rows
    BY <2>3, <2>4 DEF Entry, Rows
  <2> HIDE DEF Rows
  <2>6. Append(s.ra, Entry(key, c)) \in Seq(Rows)
    BY <1>1, <2>5
  <2> QED
    BY <2>1, <2>3, <2>6 DEF RangeStates
<1> QED
  BY <1>1, <1>2, <1>3

\* A turn adds the chunk of min_tmp.
LEMMA RangeTurn ==
  ASSUME NEW s \in RangeStates, NEW min \in Nat, NEW max \in Nat, max <= Universe,
         NEW step \in Nat \ {0}, NEW i \in Nat, Ranging(s, min, max, step, i)
  PROVE  Ranging(RangeStep(s, min, max, step), min, max, step, i + 1)
<1> DEFINE m == s.min_tmp
           key == High(m)
           base == key * ChunkSize
           cmin == Low(m)
           cmax == IF max - base < ChunkSize THEN max - base ELSE ChunkSize
           gap == cmax - cmin + step - 1
           m2 == m + gap - (gap % step)
           c == {v \in cmin..(cmax - 1) : (v - cmin) % step = 0}
           below == Until(m2, max)
           D == ChunksOf(Stepped(min, m, step))
           E == ChunksOf(Stepped(min, below, step))
           w == Append(s.ra, Entry(key, c))
<1>1. s.ra \in Seq(Rows) /\ m \in Nat /\ min <= m /\ (m - min) % step = 0
  BY DEF RangeStates, Ranging
<1>2. CASE m >= max
  <2>1. RangeStep(s, min, max, step) = s
    BY <1>2 DEF RangeStep
  <2> QED
    BY <1>2, <2>1 DEF Ranging
<1>3. CASE m < max
  <2>1. RangeStep(s, min, max, step) = [ra |-> w, min_tmp |-> m2]
    BY <1>1, <1>3 DEF RangeStep
  <2>2. /\ key = High(m) /\ base = key * ChunkSize /\ cmin = Low(m)
        /\ cmax = (IF max - base < ChunkSize THEN max - base ELSE ChunkSize)
        /\ gap = cmax - cmin + step - 1 /\ m2 = m + gap - (gap % step)
        /\ below = Until(m2, max)
    OBVIOUS
  <2>3. m = min \/ m - step < base
    BY <1>3 DEF Ranging
  <2>4. i <= key
    BY <1>3 DEF Ranging
  <2>5. Holds(s.ra, D)
    BY <1>3 DEF Ranging
  <2>6. /\ D \in Chunks /\ \A h \in Keys : D[h] = {v \in Lows : h * ChunkSize + v \in Stepped(min, m, step)}
        /\ E \in Chunks /\ \A h \in Keys : E[h] = {v \in Lows : h * ChunkSize + v \in Stepped(min, below, step)}
    BY ChunksOfType
  <2> HIDE DEF m, key, base, cmin, cmax, gap, m2, below, D, E
  <2>0. TurnNumbers(m, max, step, key, base, cmin, cmax, m2)
    BY <1>1, <1>3, <2>2, RangeTurnNumbers
  <2>19. TurnStart(min, m, step, base)
    BY <1>1, <2>3 DEF TurnStart
  <2>7. /\ key \in Nat /\ base \in Nat /\ cmin \in 0..(ChunkSize - 1) /\ m = base + cmin
        /\ cmax \in 1..ChunkSize /\ cmin < cmax
        /\ base + cmax <= max /\ (base + cmax = max \/ cmax = ChunkSize)
        /\ m2 \in Nat /\ m2 >= base + cmax /\ m2 < (base + cmax) + step
        /\ m2 > m /\ (m2 - m) % step = 0
    BY <2>0 DEF TurnNumbers
  <2>8. m \in Uint32 /\ key \in Keys
    <3>1. Universe \in Nat
      BY Sizes DEF Universe
    <3>2. m \in Uint32
      BY <1>1, <1>3, <3>1 DEF Uint32
    <3> QED
      BY <2>2, <3>2, HalvesOf
  <2>9. EndsBefore(D, key)
    <3>1. SUFFICES ASSUME NEW h \in Keys, h >= key, NEW v \in Lows, h * ChunkSize + v \in Stepped(min, m, step)
                   PROVE  FALSE
      BY <2>6 DEF EndsBefore
    <3> DEFINE x == h * ChunkSize + v
    <3>2. x \in Uint32 /\ High(x) = h /\ Low(x) = v
      BY ValueOf
    <3>3. min <= x /\ x < m /\ (x - min) % step = 0
      BY <3>1 DEF Stepped, InSteps
    <3>4. x = h * ChunkSize + v
      OBVIOUS
    <3> HIDE DEF x
    <3>5. x \in Nat
      BY <3>2 DEF Uint32
    <3>6. h <= key
      <4>1. High(x) < High(m) \/ (High(x) = High(m) /\ Low(x) <= Low(m))
        <5>1. x <= m
          BY <1>1, <3>3, <3>5
        <5> QED
          BY <2>8, <3>2, <5>1, HalvesOrder
      <4>2. h \in Nat /\ key \in Nat /\ High(x) = h /\ High(m) = key
        BY <2>2, <2>7, <3>2, Sizes
      <4> QED
        BY <4>1, <4>2
    <3>7. h = key
      BY <3>1, <3>6, <2>7, Sizes
    <3>8. x = base + v /\ v \in Nat
      BY <2>2, <3>4, <3>7, Sizes
    <3>9. m >= x + step
      BY <1>1, <3>3, <3>5, NoneBetween
    <3> QED
      BY <1>1, <2>3, <2>7, <3>3, <3>5, <3>8, <3>9
  <2>10. c \in SUBSET Lows /\ c # {}
    <3>1. c \in SUBSET Lows
      BY <2>7, Sizes
    <3>2. (cmin - cmin) % step = 0 /\ cmin \in cmin..(cmax - 1)
      <4>1. cmin - cmin = 0
        BY <2>7
      <4>2. 0 % step = 0
        OBVIOUS
      <4>3. cmin \in cmin..(cmax - 1)
        BY <2>7
      <4> QED
        BY <4>1, <4>2, <4>3
    <3>3. cmin \in c
      BY <3>2
    <3> QED
      BY <3>1, <3>3
  <2>11. \A v \in Lows : v \in c <=> InSteps(v, cmin, cmax, step)
    BY <2>7, Sizes DEF InSteps
  <2> HIDE DEF c
  <2>12. (m2 - min) % step = 0 /\ min <= m2
    <3> DEFINE a == m - min
               d == m2 - m
    <3>1. a \in Nat /\ d \in Nat /\ a + d = m2 - min
      BY <1>1, <2>7
    <3>2. a % step = 0 /\ d % step = 0
      BY <1>1, <2>7
    <3> HIDE DEF a, d
    <3>3. (a + d) % step = 0
      BY <3>1, <3>2, SameRemainder
    <3> QED
      BY <1>1, <2>7, <3>1, <3>3
  <2>13. With(D, key, c) = E
    <3>1. ASSUME NEW h \in Keys PROVE E[h] = IF h = key THEN c ELSE D[h]
      <4>1. ASSUME NEW v \in Lows
            PROVE  v \in E[h] <=> v \in (IF h = key THEN c ELSE D[h])
        <5> DEFINE x == h * ChunkSize + v
        <5>1. x \in Uint32 /\ High(x) = h /\ Low(x) = v
          BY ValueOf
        <5>2. v \in E[h] <=> InSteps(x, min, below, step)
          BY <2>6, <5>1 DEF Stepped
        <5>3. v \in D[h] <=> InSteps(x, min, m, step)
          BY <2>6, <5>1 DEF Stepped
        <5>4. x = h * ChunkSize + v
          OBVIOUS
        <5> HIDE DEF x
        <5>5. x \in Nat /\ ChunkSize \in Nat /\ cmin \in Nat /\ cmax \in Nat /\ v \in 0..(ChunkSize - 1)
          BY <5>1, <2>7, Sizes DEF Uint32
        <5>6. CASE h = key
          <6>1. x = base + v
            BY <2>2, <5>4, <5>6
          <6>2. InSteps(x, min, below, step) <=> InSteps(v, cmin, cmax, step)
            BY <1>1, <1>3, <2>0, <2>2, <2>19, <6>1, SteppedHere
          <6> QED
            BY <2>11, <5>2, <5>6, <6>2
        <5>7. CASE h # key
          <6>1. x < base \/ x >= base + ChunkSize
            <7>1. h \in Nat /\ key \in Nat /\ ChunkSize \in Nat \ {0}
              BY <2>7, Sizes
            <7>2. CASE h < key
              <8>1. h * ChunkSize + v < key * ChunkSize + 0
                <9>1. 0 \in 0..(ChunkSize - 1)
                  BY <7>1
                <9> QED
                  BY <5>5, <7>1, <7>2, <9>1, UniqueDivision
              <8> QED
                BY <2>2, <2>7, <5>4, <8>1
            <7>3. CASE h > key
              <8>1. (key + 1) * ChunkSize <= h * ChunkSize
                <9>1. key + 1 <= h /\ key + 1 \in Nat
                  BY <7>1, <7>3
                <9> QED
                  BY <7>1, <9>1, ProductGrows
              <8>2. (key + 1) * ChunkSize = key * ChunkSize + ChunkSize
                BY <7>1
              <8>3. h * ChunkSize \in Nat
                BY <7>1
              <8>4. base + ChunkSize <= h * ChunkSize
                BY <2>2, <8>1, <8>2
              <8> QED
                BY <2>7, <5>4, <5>5, <8>3, <8>4
            <7> QED
              BY <5>7, <7>1, <7>2, <7>3
          <6>2. InSteps(x, min, below, step) <=> InSteps(x, min, m, step)
            <7>1. Outside(x, base)
              BY <6>1 DEF Outside
            <7>2. x \in Nat /\ m \in Nat /\ m < max /\ (m2 - min) % step = 0 /\ below = Until(m2, max)
              BY <1>1, <1>3, <2>2, <2>12, <5>5
            <7> QED
              BY <7>1, <7>2, <2>0, SteppedElsewhere
          <6> QED
            BY <5>2, <5>3, <5>7, <6>2
        <5> QED
          BY <5>6, <5>7
      <4>2. E[h] \subseteq Lows /\ D[h] \subseteq Lows /\ c \subseteq Lows
        BY <2>6, <2>10
      <4> QED
        BY <4>1, <4>2
    <3> QED
      BY <2>6, <3>1 DEF With, Chunks
  <2>14. Holds(w, E)
    BY <2>5, <2>8, <2>9, <2>10, <2>13, AppendedChunk
  <2>15. m2 < max => i + 1 <= High(m2) /\ m2 - step < High(m2) * ChunkSize
    <3>1. SUFFICES ASSUME m2 < max PROVE i + 1 <= High(m2) /\ m2 - step < High(m2) * ChunkSize
      OBVIOUS
    <3> DEFINE q == High(m2)
               u == Low(m2)
               n == ChunkSize
               until == base + cmax
    <3>2. until \in Nat /\ until <= m2 /\ m2 < until + step /\ until = base + n
      BY <2>7, <3>1, Sizes
    <3> HIDE DEF until
    <3>3. m2 \in Uint32
      <4>1. Universe \in Nat
        BY Sizes DEF Universe
      <4> QED
        BY <2>7, <3>1, <4>1 DEF Uint32
    <3>4. n \in Nat \ {0} /\ q \in Nat /\ u \in 0..(n - 1) /\ m2 = q * n + u /\ base = key * n /\ key \in Nat
      BY <2>2, <2>7, <3>3, HalvesOf, Sizes
    <3> HIDE DEF n, q, u
    <3>5. (key + 1) * n = until /\ (key + 1) * n + 0 = until
      <4>1. (key + 1) * n = key * n + n
        BY <3>4
      <4>2. (key + 1) * n = until
        BY <3>2, <3>4, <4>1
      <4> QED
        BY <3>2, <4>2
    <3>6. key + 1 < q \/ (key + 1 = q /\ 0 <= u)
      <4>1. 0 \in 0..(n - 1) /\ key + 1 \in Nat
        BY <3>4
      <4>2. (key + 1) * n + 0 <= q * n + u
        BY <3>2, <3>4, <3>5
      <4> QED
        BY <3>4, <4>1, <4>2, UniqueDivision
    <3>7. key + 1 <= q /\ key + 1 \in Nat
      BY <3>4, <3>6
    <3>8. (key + 1) * n <= q * n
      BY <3>4, <3>7, ProductGrows
    <3>9. m2 - step < q * n
      <4> DEFINE qn == q * n
      <4>1. until <= qn
        BY <3>5, <3>8
      <4>2. qn \in Nat
        BY <3>4
      <4> HIDE DEF qn
      <4>3. m2 - step < qn
        BY <2>7, <3>2, <4>1, <4>2
      <4> QED
        BY <4>3 DEF qn
    <3>10. i + 1 <= q
      BY <2>4, <2>7, <3>4, <3>7
    <3> QED
      BY <3>9, <3>10 DEF n, q
  <2>16. w \in Seq(Rows)
    BY <2>14 DEF Holds
  <2> HIDE DEF w
  <2>17. m2 < max => Holds(w, ChunksOf(Stepped(min, m2, step)))
    BY <2>2, <2>14 DEF E, Until
  <2>18. m2 >= max => Holds(w, ChunksOf(Stepped(min, max, step)))
    <3>1. m2 >= max => below = max
      BY <2>2, <2>7 DEF Until
    <3> QED
      BY <2>14, <3>1 DEF E
  <2> QED
    BY <2>1, <2>7, <2>12, <2>15, <2>16, <2>17, <2>18 DEF Ranging
<1> QED
  BY <1>1, <1>2, <1>3

\* The array without entries, for the chunks that are all empty.
LEMMA NoValues ==
  Holds(<<>>, ChunksOf({}))
<1> DEFINE D == ChunksOf({})
<1>1. D \in Chunks /\ \A h \in Keys : D[h] = {}
  BY ChunksOfType
<1> HIDE DEF D
<1>2. Covers(<<>>, 1, 0, D, 0, KeyCount - 1)
  <2>1. \A h \in 0..(KeyCount - 1) : D[h] = {}
    BY <1>1, Sizes
  <2>2. \A i \in 1..0 : FALSE
    OBVIOUS
  <2> QED
    BY <2>1, <2>2 DEF Covers
<1>3. <<>> \in Seq(Rows) /\ Len(<<>>) = 0
  OBVIOUS
<1>4. Holds(<<>>, D)
  BY <1>1, <1>2, <1>3 DEF Holds
<1> QED
  BY <1>4 DEF D

\* The array that from_range builds chunk by chunk.
LEMMA FromRangeCorrect ==
  ASSUME NEW min \in Nat, NEW max \in Nat, min < max, max <= Universe, NEW step \in Nat \ {0}
  PROVE  Holds(from_range_chunks(min, max, step), ChunksOf(Stepped(min, max, step)))
<1> DEFINE n == KeyCount
           a == [ra |-> <<>>, min_tmp |-> min]
           q == [i \in 1..n |-> i]
           A == RangeStates
           turn(b, i) == RangeStep(b, min, max, step)
           G == [p \in (1..n) \X A |-> turn(p[2], p[1])]
           Step(it) == [x \in SUBSET DOMAIN q |-> IF x = {} THEN a ELSE turn(it[x \ {Max(x)}], Max(x))]
           it == CHOOSE f : f = Step(f)
           At(b, i) == Ranging(b, min, max, step, i)
           J == [i \in 0..n |-> {b \in A : At(b, i)}]
<1>1. n \in Nat /\ Universe \in Nat /\ Keys = 0..(n - 1)
  BY Sizes DEF Universe
<1>2. DOMAIN q = 1..n
  OBVIOUS
<1>3. from_range_chunks(min, max, step) = it[1..n].ra
  <2>1. from_range_chunks(min, max, step) = it[DOMAIN q].ra
    BY DEF from_range_chunks, FoldLeft, MapThenFoldSet, RangeStep
  <2> QED
    BY <1>2, <2>1
<1> HIDE DEF n, q
<1>6. \A b \in A, i \in 1..n : turn(b, i) \in A
  BY RangeStepType
<1>7. a \in A /\ At(a, 0)
  <2>1. Stepped(min, min, step) = {}
    BY DEF Stepped, InSteps, Uint32
  <2>2. (min - min) % step = 0
    <3>1. min - min = 0 /\ 0 % step = 0
      OBVIOUS
    <3> QED
      BY <3>1
  <2>3. Holds(<<>>, ChunksOf(Stepped(min, min, step)))
    BY <2>1, NoValues
  <2>4. 0 <= High(min)
    <3>1. min \in Uint32
      BY <1>1 DEF Uint32
    <3> QED
      BY <3>1, HalvesOf, Sizes
  <2>5. <<>> \in Seq(Rows)
    OBVIOUS
  <2> QED
    BY <2>2, <2>3, <2>4, <2>5 DEF Ranging, RangeStates
<1> HIDE DEF a, A
<1>8. G \in [(1..n) \X A -> A]
  <2> HIDE DEF turn
  <2> QED
    BY <1>6
<1>9. PICK f \in [SUBSET (1..n) -> A] : Folds(f, n, a, G)
  <2> HIDE DEF G
  <2> QED
    BY <1>1, <1>7, <1>8, FoldExists
<1>10. f = Step(f)
  <2>1. ASSUME NEW x \in SUBSET (1..n), x # {}
        PROVE  f[x] = turn(f[x \ {Max(x)}], Max(x))
    <3>1. Max(x) \in 1..n /\ x \ {Max(x)} \in SUBSET (1..n)
      BY <1>1, <2>1, LastIndex
    <3>2. f[x \ {Max(x)}] \in A
      BY <3>1
    <3> HIDE DEF turn
    <3> QED
      BY <1>9, <2>1, <3>1, <3>2 DEF Folds
  <2> HIDE DEF turn
  <2> QED
    BY <1>2, <1>9, <2>1 DEF Folds
<1>11. it = Step(it)
  BY <1>10
<1> HIDE DEF it, J, turn
<1>12. it[{}] = a /\ \A i \in 1..n : it[1..i] = turn(it[1..(i - 1)], i)
  <2>1. \A x \in SUBSET (1..n) : it[x] = IF x = {} THEN a ELSE turn(it[x \ {Max(x)}], Max(x))
    BY <1>2, <1>11
  <2> QED
    BY <1>1, <2>1, Segment
<1>13. it[{}] \in J[0]
  <2> HIDE DEF At
  <2> QED
    BY <1>1, <1>7, <1>12 DEF J
<1>14. ASSUME NEW i \in 1..n, it[1..(i - 1)] \in J[i - 1] PROVE it[1..i] \in J[i]
  <2> DEFINE b == it[1..(i - 1)]
             p == i - 1
  <2>1. i - 1 \in 0..n /\ i \in 0..n /\ p \in Nat /\ p + 1 = i
    BY <1>1
  <2>2. b \in A /\ At(b, p)
    <3> HIDE DEF At
    <3> QED
      BY <1>14, <2>1 DEF J
  <2>3. it[1..i] = RangeStep(b, min, max, step) /\ it[1..i] \in A
    BY <1>6, <1>12, <2>2 DEF turn
  <2> DEFINE c == RangeStep(b, min, max, step)
  <2> HIDE DEF b, p
  <2>4. At(c, p + 1)
    BY <2>1, <2>2, RangeTurn DEF A
  <2> HIDE DEF At, c
  <2>5. At(it[1..i], i)
    BY <2>1, <2>3, <2>4 DEF c
  <2> QED
    BY <2>1, <2>3, <2>5 DEF J
<1>15. it[1..n] \in J[n]
  <2> HIDE DEF At
  <2> QED
    BY <1>1, <1>13, <1>14, FoldKeeps
<1> DEFINE s == it[1..n]
<1>16. s \in A /\ At(s, n)
  <2> HIDE DEF At
  <2> QED
    BY <1>1, <1>15 DEF J
<1> HIDE DEF s
<1>17. s.min_tmp \in Nat /\ s.min_tmp >= max
  <2>1. s.min_tmp \in Nat
    BY <1>16 DEF A, RangeStates
  <2>2. ASSUME s.min_tmp < max PROVE FALSE
    <3>1. s.min_tmp \in Uint32
      BY <1>1, <2>1, <2>2 DEF Uint32
    <3>2. High(s.min_tmp) \in Keys
      BY <3>1, HalvesOf
    <3>3. n <= High(s.min_tmp)
      BY <1>16, <2>2 DEF Ranging
    <3> QED
      BY <1>1, <3>2, <3>3
  <2> QED
    BY <2>1, <2>2
<1>18. Holds(s.ra, ChunksOf(Stepped(min, max, step)))
  BY <1>16, <1>17 DEF Ranging
<1> QED
  BY <1>3, <1>18 DEF s
=============================================================================
