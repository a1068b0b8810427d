------------------------- MODULE PlainBitsetProofs --------------------------
(***************************************************************************)
(* Any sequence of calls on an uncompressed bitset, for all word widths    *)
(* and sizes: the bitset holds the values that bitset.h documents, and no  *)
(* call leaves the buffer, when the calls named in Unusual are not made.   *)
(***************************************************************************)
EXTENDS PlainBitset, FoldFacts

\* The well-formed bitsets.
Buffers == UNION {[0..(n - 1) -> Word] : n \in Nat}
Bitsets == {b \in [array : Buffers, arraysize : Nat, capacity : Nat] :
              /\ b.arraysize <= b.capacity
              /\ b.array \in [0..(b.capacity - 1) -> Word]}

\* The bit at position v is in the bitset, and one.
Bit(b, v) ==
  /\ v \div WordBits < b.arraysize
  /\ v % WordBits \in b.array[v \div WordBits]

\* Words have bits, and memory has words.
LEMMA Width ==
  ASSUME BitsetAssumption
  PROVE  WordBits \in Nat \ {0} /\ MaxWords \in Nat \ {0}
BY DEF BitsetAssumption

\* A bitset is made of its words, its size and its capacity.
LEMMA MadeOf ==
  ASSUME NEW n \in Nat, NEW c \in Nat, n <= c, NEW a \in [0..(c - 1) -> Word]
  PROVE  [array |-> a, arraysize |-> n, capacity |-> c] \in Bitsets
<1>1. a \in Buffers
  BY DEF Buffers
<1> QED
  BY <1>1 DEF Bitsets

\* The parts of a bitset.
LEMMA Parts ==
  ASSUME NEW b \in Bitsets
  PROVE  /\ b.capacity \in Nat /\ b.arraysize \in Nat /\ b.arraysize <= b.capacity
         /\ b.array \in [0..(b.capacity - 1) -> Word]
         /\ b = [array |-> b.array, arraysize |-> b.arraysize, capacity |-> b.capacity]
BY DEF Bitsets

\* The words in use are words of the buffer.
LEMMA UsedWords ==
  ASSUME NEW b \in Bitsets, NEW k \in Used(b)
  PROVE  /\ k \in Nat /\ k < b.arraysize /\ k \in 0..(b.capacity - 1)
         /\ b.array[k] \in Word
<1>1. k \in 0..(b.arraysize - 1)
  BY DEF Used
<1>2. k \in Nat /\ k < b.arraysize /\ k \in 0..(b.capacity - 1)
  BY <1>1, Parts
<1> QED
  BY <1>2, Parts

-----------------------------------------------------------------------------
(* Positions and their words.                                              *)

\* The word and the bit of a position.
LEMMA PositionOf ==
  ASSUME BitsetAssumption, NEW v \in Nat
  PROVE  /\ v \div WordBits \in Nat /\ v % WordBits \in AllOnes
         /\ v = (v \div WordBits) * WordBits + (v % WordBits)
BY Width, Divided DEF AllOnes

\* The position of a bit of a word.
LEMMA PositionAt ==
  ASSUME BitsetAssumption, NEW k \in Nat, NEW x \in AllOnes
  PROVE  /\ k * WordBits + x \in Nat
         /\ (k * WordBits + x) \div WordBits = k /\ (k * WordBits + x) % WordBits = x
BY Width, ToHalves DEF AllOnes

\* The positions below those of word n.
LEMMA Below ==
  ASSUME BitsetAssumption, NEW v \in Nat, NEW n \in Nat
  PROVE  v < n * WordBits <=> v \div WordBits < n
<1> DEFINE p == v \div WordBits
           x == v % WordBits
           W == WordBits
<1>0. W \in Nat \ {0} /\ p \in Nat /\ x \in 0..(W - 1) /\ v = p * W + x
  <2>1. p \in Nat /\ x \in AllOnes /\ v = p * W + x
    BY PositionOf
  <2> QED
    BY <2>1, Width DEF AllOnes
<1>1. W \in Nat \ {0} /\ p \in Nat /\ x \in 0..(W - 1) /\ v = p * W + x /\ 0 \in 0..(W - 1)
  <2> HIDE DEF p, x, W
  <2> QED
    BY <1>0
<1> HIDE DEF p, x, W
<1>2. n * W + 0 = n * W /\ n * W \in Nat
  BY <1>1
<1>3. ASSUME p < n PROVE v < n * W
  <2>1. p * W + x <= (n - 1) * W + (W - 1)
    <3>1. n - 1 \in Nat /\ W - 1 \in 0..(W - 1) /\ (p < n - 1 \/ (p = n - 1 /\ x <= W - 1))
      BY <1>1, <1>3
    <3> QED
      BY <1>1, <3>1, OrderedDivision
  <2>2. (n - 1) * W + (W - 1) = n * W - 1
    BY <1>1
  <2> QED
    BY <1>1, <1>2, <2>1, <2>2
<1>4. ASSUME v < n * W, n <= p PROVE FALSE
  <2>1. n * W <= p * W
    BY <1>1, <1>4, ProductGrows
  <2> QED
    BY <1>1, <1>2, <1>4, <2>1
<1>5. v < n * W <=> p < n
  BY <1>1, <1>3, <1>4
<1> QED
  BY <1>5 DEF p, W

\* The values of a bitset are the positions of its bits.
LEMMA ValuesAre ==
  ASSUME BitsetAssumption, NEW b \in Bitsets
  PROVE  Values(b) = {v \in Nat : Bit(b, v)}
<1>1. ASSUME NEW v \in Values(b) PROVE v \in Nat /\ Bit(b, v)
  <2>1. PICK k \in Used(b) : \E x \in b.array[k] : v = k * WordBits + x
    BY <1>1 DEF Values
  <2>2. PICK x \in b.array[k] : v = k * WordBits + x
    BY <2>1
  <2>3. k \in Nat /\ k < b.arraysize /\ x \in AllOnes
    BY <2>2, UsedWords DEF Word
  <2>4. v \in Nat /\ v \div WordBits = k /\ v % WordBits = x
    BY <2>2, <2>3, PositionAt
  <2> QED
    BY <2>2, <2>3, <2>4 DEF Bit
<1>2. ASSUME NEW v \in Nat, Bit(b, v) PROVE v \in Values(b)
  <2> DEFINE k == v \div WordBits
             x == v % WordBits
  <2>1. k \in Nat /\ v = k * WordBits + x /\ k < b.arraysize /\ x \in b.array[k]
    BY <1>2, PositionOf DEF Bit
  <2> HIDE DEF k, x
  <2>2. k \in Used(b)
    BY <2>1, Parts DEF Used
  <2> QED
    BY <2>1, <2>2 DEF Values
<1> QED
  BY <1>1, <1>2

\* A set of positions is what a bitset holds, if it is so position by position.
LEMMA ValuesBy ==
  ASSUME BitsetAssumption, NEW b \in Bitsets, NEW S \in SUBSET Nat,
         \A k \in Nat, x \in AllOnes :
           k * WordBits + x \in S <=> k < b.arraysize /\ x \in b.array[k]
  PROVE  Values(b) = S
<1>1. ASSUME NEW v \in Nat PROVE v \in S <=> Bit(b, v)
  <2> DEFINE k == v \div WordBits
             x == v % WordBits
  <2>1. k \in Nat /\ x \in AllOnes /\ v = k * WordBits + x
    BY PositionOf
  <2>2. v \in S <=> k < b.arraysize /\ x \in b.array[k]
    <3> HIDE DEF k, x
    <3> QED
      BY <2>1
  <2> QED
    BY <2>2 DEF Bit
<1> QED
  BY <1>1, ValuesAre

\* The other direction.
LEMMA BitAt ==
  ASSUME BitsetAssumption, NEW b \in Bitsets, NEW k \in Nat, NEW x \in AllOnes
  PROVE  k * WordBits + x \in Values(b) <=> k < b.arraysize /\ x \in b.array[k]
<1>1. /\ k * WordBits + x \in Nat
      /\ (k * WordBits + x) \div WordBits = k /\ (k * WordBits + x) % WordBits = x
  BY PositionAt
<1> QED
  BY <1>1, ValuesAre DEF Bit

\* A bitset with the same words, cut or filled up with zeroes.
LEMMA SameWords ==
  ASSUME BitsetAssumption, NEW b \in Bitsets, NEW c \in Bitsets,
         \A k \in Used(c) : c.array[k] = IF k < b.arraysize THEN b.array[k] ELSE {}
  PROVE  Values(c) = {v \in Values(b) : v < c.arraysize * WordBits}
<1> DEFINE S == {v \in Values(b) : v < c.arraysize * WordBits}
<1>1. c.arraysize \in Nat /\ S \in SUBSET Nat
  BY Parts, ValuesAre
<1>2. ASSUME NEW k \in Nat, NEW x \in AllOnes
      PROVE  k * WordBits + x \in S <=> k < c.arraysize /\ x \in c.array[k]
  <2> DEFINE v == k * WordBits + x
  <2>1. v \in Nat /\ v \div WordBits = k
    BY PositionAt
  <2>2. v < c.arraysize * WordBits <=> k < c.arraysize
    <3> HIDE DEF v
    <3> QED
      BY <1>1, <2>1, Below
  <2>3. v \in Values(b) <=> k < b.arraysize /\ x \in b.array[k]
    BY BitAt
  <2>4. k < c.arraysize => k \in Used(c)
    BY <1>1 DEF Used
  <2> HIDE DEF v
  <2>5. v \in S <=> k < c.arraysize /\ x \in c.array[k]
    BY <2>2, <2>3, <2>4
  <2> QED
    BY <2>5 DEF v
<1> HIDE DEF S
<1>3. Values(c) = S
  BY <1>1, <1>2, ValuesBy
<1> QED
  BY <1>3 DEF S

\* In a bitset that is not shorter, all of them.
LEMMA AllWords ==
  ASSUME BitsetAssumption, NEW b \in Bitsets, NEW c \in Bitsets, b.arraysize <= c.arraysize,
         \A k \in Used(c) : c.array[k] = IF k < b.arraysize THEN b.array[k] ELSE {}
  PROVE  Values(c) = Values(b)
<1>1. b.arraysize \in Nat /\ c.arraysize \in Nat
  BY Parts
<1>2. ASSUME NEW v \in Values(b) PROVE v < c.arraysize * WordBits
  <2>1. v \in Nat /\ v \div WordBits < b.arraysize
    BY ValuesAre DEF Bit
  <2>2. v \div WordBits < c.arraysize
    <3>1. v \div WordBits \in Nat
      BY <2>1, PositionOf
    <3> QED
      BY <1>1, <2>1, <3>1
  <2> QED
    BY <1>1, <2>1, <2>2, Below
<1>3. Values(c) = {v \in Values(b) : v < c.arraysize * WordBits}
  BY SameWords
<1> QED
  BY <1>2, <1>3

-----------------------------------------------------------------------------
(* The buffer.                                                             *)

\* The doubled capacity is large enough.
LEMMA DoubledEnough ==
  ASSUME NEW c \in Nat, NEW n \in Nat
  PROVE  DoubledTo(c, n) \in Nat /\ DoubledTo(c, n) >= n
<1> DEFINE a == IF c = 0 THEN 1 ELSE c
           q == [i \in 1..(n - 1 + 1) |-> 1 + i - 1]
           A == Nat \ {0}
           turn(m, i) == IF m < n THEN 2 * m ELSE m
           G == [p \in (1..n) \X A |-> turn(p[2], p[1])]
           Step(it) == [x \in SUBSET DOMAIN q |-> IF x = {} THEN a ELSE turn(it[x \ {Max(x)}], Max(x))]
           it == CHOOSE f : f = Step(f)
           J == [i \in 0..n |-> {m \in A : m >= n \/ m > i}]
<1>1. DOMAIN q = 1..n
  OBVIOUS
<1>2. DoubledTo(c, n) = it[1..n]
  <2>1. DoubledTo(c, n) = it[DOMAIN q]
    BY DEF DoubledTo, Up, FoldLeft, MapThenFoldSet
  <2> QED
    BY <1>1, <2>1
<1> HIDE DEF q
<1>3. a \in A
  OBVIOUS
<1>4. \A m \in A, i \in 1..n : turn(m, i) \in A
  OBVIOUS
<1> HIDE DEF a, A
<1>5. G \in [(1..n) \X A -> A]
  <2> HIDE DEF turn
  <2> QED
    BY <1>4
<1>6. PICK f \in [SUBSET (1..n) -> A] : Folds(f, n, a, G)
  <2> HIDE DEF G
  <2> QED
    BY <1>3, <1>5, FoldExists
<1>7. f = Step(f)
  <2>1. ASSUME NEW x \in SUBSET (1..n), x # {}
        PROVE  f[x] = turn(f[x \ {Max(x)}], Max(x))
    <3>1. Max(x) \in 1..n /\ x \ {Max(x)} \in SUBSET (1..n)
      BY <2>1, LastIndex
    <3>2. f[x \ {Max(x)}] \in A
      BY <3>1
    <3> HIDE DEF turn
    <3> QED
      BY <1>6, <2>1, <3>1, <3>2 DEF Folds
  <2> HIDE DEF turn
  <2> QED
    BY <1>1, <1>6, <2>1 DEF Folds
<1>8. it = Step(it)
  BY <1>7
<1> HIDE DEF it, J, turn
<1>9. it[{}] = a /\ \A i \in 1..n : it[1..i] = turn(it[1..(i - 1)], i)
  <2>1. \A x \in SUBSET (1..n) : it[x] = IF x = {} THEN a ELSE turn(it[x \ {Max(x)}], Max(x))
    BY <1>1, <1>8
  <2> QED
    BY <2>1, Segment
<1>10. it[{}] \in J[0]
  BY <1>3, <1>9 DEF J, A
<1>11. ASSUME NEW i \in 1..n, it[1..(i - 1)] \in J[i - 1] PROVE it[1..i] \in J[i]
  <2> DEFINE m == it[1..(i - 1)]
  <2>1. i - 1 \in 0..n /\ i \in 0..n
    OBVIOUS
  <2>2. m \in A /\ (m >= n \/ m > i - 1)
    BY <1>11, <2>1 DEF J
  <2>3. it[1..i] = turn(m, i)
    BY <1>9
  <2> HIDE DEF m
  <2>4. turn(m, i) \in A /\ (turn(m, i) >= n \/ turn(m, i) > i)
    BY <2>2 DEF turn, A
  <2> QED
    BY <2>1, <2>3, <2>4 DEF J
<1>12. it[1..n] \in J[n]
  BY <1>10, <1>11, FoldKeeps
<1> QED
  BY <1>2, <1>12 DEF J, A

\* realloc keeps the words.
LEMMA ReallocatedWords ==
  ASSUME NEW b \in Bitsets, NEW m \in Nat, b.capacity <= m, NEW spare \in Word,
         NEW c, c = Reallocated(b, m, spare)
  PROVE  /\ c \in Bitsets /\ c.arraysize = b.arraysize /\ c.capacity = m
         /\ \A k \in Used(b) : c.array[k] = b.array[k]
<1> DEFINE a == [k \in 0..(m - 1) |-> IF k < b.capacity THEN b.array[k] ELSE spare]
<1>1. /\ b.capacity \in Nat /\ b.arraysize \in Nat /\ b.arraysize <= b.capacity
      /\ b.array \in [0..(b.capacity - 1) -> Word]
      /\ b = [array |-> b.array, arraysize |-> b.arraysize, capacity |-> b.capacity]
  BY Parts
<1>2. c = [array |-> a, arraysize |-> b.arraysize, capacity |-> m]
  BY <1>1 DEF Reallocated
<1>3. a \in [0..(m - 1) -> Word]
  BY <1>1
<1>4. c \in Bitsets
  <2> HIDE DEF a
  <2> QED
    BY <1>1, <1>2, <1>3, MadeOf
<1>5. ASSUME NEW k \in Used(b) PROVE a[k] = b.array[k]
  <2>1. k \in 0..(m - 1) /\ k < b.capacity
    BY <1>1, UsedWords
  <2> QED
    BY <2>1
<1> QED
  BY <1>2, <1>4, <1>5

\* The words of c are those of b, zero from one to another.
Zeroes(c, b, from, n) ==
  \A k \in 0..(b.capacity - 1) :
    c.array[k] = IF from <= k /\ k < n THEN {} ELSE b.array[k]

\* c has the words of b; those that b does not use are zero.
HasWords(c, b) == \A k \in Used(c) : k < b.arraysize => c.array[k] = b.array[k]
Pads(c, b) == \A k \in Used(c) : k >= b.arraysize => c.array[k] = {}

\* memset clears the words of its range and no others.
LEMMA ZeroedWords ==
  ASSUME NEW b \in Bitsets, NEW from \in Nat, NEW n \in Nat, NEW c, c = Zeroed(b, from, n)
  PROVE  /\ c \in Bitsets /\ c.arraysize = b.arraysize /\ c.capacity = b.capacity
         /\ Zeroes(c, b, from, n)
<1> DEFINE a == [k \in 0..(b.capacity - 1) |-> IF k \in from..(n - 1) THEN {} ELSE b.array[k]]
<1>1. /\ b.capacity \in Nat /\ b.arraysize \in Nat /\ b.arraysize <= b.capacity
      /\ b.array \in [0..(b.capacity - 1) -> Word]
      /\ b = [array |-> b.array, arraysize |-> b.arraysize, capacity |-> b.capacity]
  BY Parts
<1>2. c = [array |-> a, arraysize |-> b.arraysize, capacity |-> b.capacity]
  BY <1>1 DEF Zeroed
<1>3. a \in [0..(b.capacity - 1) -> Word]
  BY <1>1 DEF Word
<1>4. c \in Bitsets
  <2> HIDE DEF a
  <2> QED
    BY <1>1, <1>2, <1>3, MadeOf
<1> QED
  BY <1>1, <1>2, <1>4 DEF Zeroes

\* A bitset with another number of words in use.
LEMMA WithSize ==
  ASSUME NEW b \in Bitsets, NEW n \in Nat, n <= b.capacity, NEW c, c = [b EXCEPT !.arraysize = n]
  PROVE  /\ c \in Bitsets /\ c.arraysize = n /\ c.capacity = b.capacity /\ c.array = b.array
<1>1. /\ b.capacity \in Nat /\ b.array \in [0..(b.capacity - 1) -> Word]
      /\ b = [array |-> b.array, arraysize |-> b.arraysize, capacity |-> b.capacity]
  BY Parts
<1>2. c = [array |-> b.array, arraysize |-> n, capacity |-> b.capacity]
  BY <1>1
<1>3. c \in Bitsets
  BY <1>1, <1>2, MadeOf
<1> QED
  BY <1>2, <1>3

\* A bitset with other words.
LEMMA WithWords ==
  ASSUME NEW b \in Bitsets, NEW a \in [0..(b.capacity - 1) -> Word], NEW c, c = [b EXCEPT !.array = a]
  PROVE  /\ c \in Bitsets /\ c.arraysize = b.arraysize /\ c.capacity = b.capacity /\ c.array = a
<1>1. /\ b.capacity \in Nat /\ b.arraysize \in Nat /\ b.arraysize <= b.capacity
      /\ b = [array |-> b.array, arraysize |-> b.arraysize, capacity |-> b.capacity]
  BY Parts
<1>2. c = [array |-> a, arraysize |-> b.arraysize, capacity |-> b.capacity]
  BY <1>1
<1>3. c \in Bitsets
  BY <1>1, <1>2, MadeOf
<1> QED
  BY <1>2, <1>3

\* The room that bitset_resize makes.
LEMMA RoomOf ==
  ASSUME NEW b \in Bitsets, NEW n \in Nat, NEW spare \in Word,
         NEW c, c = IF b.capacity < n THEN Reallocated(b, DoubledTo(b.capacity, n), spare) ELSE b
  PROVE  /\ c \in Bitsets /\ c.arraysize = b.arraysize /\ c.capacity >= n /\ c.capacity \in Nat
         /\ \A k \in Used(b) : c.array[k] = b.array[k]
<1>1. /\ b.capacity \in Nat /\ b.arraysize \in Nat /\ b.arraysize <= b.capacity
  BY Parts
<1>2. CASE b.capacity < n
  <2> DEFINE m == DoubledTo(b.capacity, n)
  <2>1. m \in Nat /\ m >= n
    BY <1>1, DoubledEnough
  <2>2. c = Reallocated(b, m, spare)
    BY <1>2
  <2> HIDE DEF m
  <2>3. b.capacity <= m
    BY <1>1, <1>2, <2>1
  <2>4. /\ c \in Bitsets /\ c.arraysize = b.arraysize /\ c.capacity = m
        /\ \A k \in Used(b) : c.array[k] = b.array[k]
    BY <2>1, <2>2, <2>3, ReallocatedWords
  <2> QED
    BY <2>1, <2>4
<1>3. CASE ~(b.capacity < n)
  <2>1. c = b
    BY <1>3
  <2> QED
    BY <1>1, <1>3, <2>1
<1> QED
  BY <1>2, <1>3

\* bitset_resize keeps the words that it does not cut off.
RoomWith(b, n, spare) ==
  IF b.capacity < n THEN Reallocated(b, DoubledTo(b.capacity, n), spare) ELSE b

\* A resize that is served keeps the words that remain.
LEMMA ResizedRoom ==
  ASSUME NEW b \in Bitsets, NEW n \in Nat, NEW spare \in Word,
         NEW c, c = [RoomWith(b, n, spare) EXCEPT !.arraysize = n]
  PROVE  c \in Bitsets /\ c.arraysize = n /\ c.capacity >= n /\ HasWords(c, b)
<1> DEFINE room == IF b.capacity < n THEN Reallocated(b, DoubledTo(b.capacity, n), spare) ELSE b
           d == [room EXCEPT !.arraysize = n]
<1>1. c = d
  BY DEF RoomWith
<1>2. /\ room \in Bitsets /\ room.arraysize = b.arraysize /\ room.capacity >= n /\ room.capacity \in Nat
      /\ \A k \in Used(b) : room.array[k] = b.array[k]
  <2>1. room = IF b.capacity < n THEN Reallocated(b, DoubledTo(b.capacity, n), spare) ELSE b
    OBVIOUS
  <2> HIDE DEF room
  <2> QED
    BY <2>1, RoomOf
<1> HIDE DEF room
<1>3. d \in Bitsets /\ d.arraysize = n /\ d.capacity = room.capacity /\ d.array = room.array
  <2>1. n <= room.capacity
    BY <1>2
  <2>2. d = [room EXCEPT !.arraysize = n]
    OBVIOUS
  <2> HIDE DEF d
  <2> QED
    BY <1>2, <2>1, <2>2, WithSize
<1> HIDE DEF d
<1>4. ASSUME NEW k \in Used(c), k < b.arraysize PROVE c.array[k] = b.array[k]
  <2>1. k \in Used(b)
    BY <1>1, <1>3, <1>4, UsedWords, Parts DEF Used
  <2> QED
    BY <1>1, <1>2, <1>3, <2>1
<1> QED
  BY <1>1, <1>2, <1>3, <1>4 DEF HasWords

\* The same for bitset_resize, whether or not it has to allocate.
LEMMA Resized ==
  ASSUME NEW b \in Bitsets, NEW n \in Nat, NEW spare \in Word,
         NEW ok \in BOOLEAN, ~Refused(b, n, ok),
         NEW c, c = bitset_resize(b, n, FALSE, spare, ok)
  PROVE  c \in Bitsets /\ c.arraysize = n /\ c.capacity >= n /\ HasWords(c, b)
<1>1. c = [RoomWith(b, n, spare) EXCEPT !.arraysize = n]
  BY DEF bitset_resize, RoomWith
<1> QED
  BY <1>1, ResizedRoom

\* With an allocator that serves every request.
SizedTo(b, n, spare) == bitset_resize(b, n, FALSE, spare, TRUE)
PaddedTo(b, n, spare) == bitset_resize(b, n, TRUE, spare, TRUE)

\* The same for a resize whose allocation is not refused.
LEMMA ResizedServed ==
  ASSUME NEW b \in Bitsets, NEW n \in Nat, NEW spare \in Word,
         NEW c, c = SizedTo(b, n, spare)
  PROVE  c \in Bitsets /\ c.arraysize = n /\ c.capacity >= n /\ HasWords(c, b)
<1>1. c = [RoomWith(b, n, spare) EXCEPT !.arraysize = n]
  BY DEF SizedTo, bitset_resize, RoomWith, Refused
<1> QED
  BY <1>1, ResizedRoom

\* Padding, it also appends words of zeroes.
LEMMA Padded ==
  ASSUME NEW b \in Bitsets, NEW n \in Nat, NEW room \in Bitsets,
         room.arraysize = b.arraysize, room.capacity >= n, \A k \in Used(b) : room.array[k] = b.array[k],
         NEW c, c = [Zeroed(room, Smaller(n, b.arraysize), n) EXCEPT !.arraysize = n]
  PROVE  c \in Bitsets /\ c.arraysize = n /\ c.capacity >= n /\ HasWords(c, b) /\ Pads(c, b)
<1> DEFINE smallest == Smaller(n, b.arraysize)
           padded == Zeroed(room, smallest, n)
           d == [padded EXCEPT !.arraysize = n]
<1>1. c = d
  OBVIOUS
<1>2. room.capacity \in Nat
  BY Parts
<1>3. b.arraysize \in Nat
  BY Parts
<1>4. smallest \in Nat /\ smallest = IF n < b.arraysize THEN n ELSE b.arraysize
  BY <1>3 DEF Smaller
<1> HIDE DEF smallest
<1>5. padded \in Bitsets /\ padded.capacity = room.capacity /\ Zeroes(padded, room, smallest, n)
  <2>1. padded = Zeroed(room, smallest, n)
    OBVIOUS
  <2> HIDE DEF padded
  <2> QED
    BY <1>4, <2>1, ZeroedWords
<1> HIDE DEF padded
<1>6. d \in Bitsets /\ d.arraysize = n /\ d.capacity = room.capacity /\ d.array = padded.array
  <2>1. n <= padded.capacity
    BY <1>2, <1>5
  <2>2. d = [padded EXCEPT !.arraysize = n]
    OBVIOUS
  <2> HIDE DEF d
  <2> QED
    BY <1>5, <2>1, <2>2, WithSize
<1> HIDE DEF d
<1>7. ASSUME NEW k \in Used(c)
      PROVE  /\ k < b.arraysize => c.array[k] = b.array[k]
             /\ k >= b.arraysize => c.array[k] = {}
  <2>1. k \in Nat /\ k < n
    BY <1>1, <1>6, UsedWords
  <2>2. k \in 0..(room.capacity - 1)
    BY <1>2, <2>1
  <2>3. c.array[k] = IF smallest <= k /\ k < n THEN {} ELSE room.array[k]
    BY <1>1, <1>5, <1>6, <2>2 DEF Zeroes
  <2>4. ASSUME k < b.arraysize PROVE c.array[k] = b.array[k]
    <3>1. k \in Used(b)
      BY <1>3, <2>1, <2>4 DEF Used
    <3>2. ~(smallest <= k)
      BY <1>3, <1>4, <2>1, <2>4
    <3> QED
      BY <2>3, <3>1, <3>2
  <2>5. ASSUME k >= b.arraysize PROVE c.array[k] = {}
    <3>1. smallest <= k
      BY <1>3, <1>4, <2>1, <2>5
    <3> QED
      BY <2>1, <2>3, <3>1
  <2> QED
    BY <2>4, <2>5
<1> QED
  BY <1>1, <1>6, <1>7 DEF HasWords, Pads

\* A resize with padding has no bits in the words it adds.
LEMMA PaddedRoom ==
  ASSUME NEW b \in Bitsets, NEW n \in Nat, NEW spare \in Word,
         NEW c, c = [Zeroed(RoomWith(b, n, spare), Smaller(n, b.arraysize), n) EXCEPT !.arraysize = n]
  PROVE  c \in Bitsets /\ c.arraysize = n /\ c.capacity >= n /\ HasWords(c, b) /\ Pads(c, b)
<1> DEFINE room == RoomWith(b, n, spare)
<1>1. c = [Zeroed(room, Smaller(n, b.arraysize), n) EXCEPT !.arraysize = n]
  OBVIOUS
<1>2. /\ room \in Bitsets /\ room.arraysize = b.arraysize /\ room.capacity >= n
      /\ \A k \in Used(b) : room.array[k] = b.array[k]
  <2>1. room = IF b.capacity < n THEN Reallocated(b, DoubledTo(b.capacity, n), spare) ELSE b
    BY DEF RoomWith
  <2> HIDE DEF room
  <2> QED
    BY <2>1, RoomOf
<1> HIDE DEF room
<1> QED
  BY <1>1, <1>2, Padded

Refitted(b, n, spare, ok) == bitset_resize(b, n, TRUE, spare, ok)

\* The same for bitset_resize with padding.
LEMMA ResizedPadded ==
  ASSUME NEW b \in Bitsets, NEW n \in Nat, NEW spare \in Word,
         NEW ok \in BOOLEAN, ~Refused(b, n, ok),
         NEW c, c = Refitted(b, n, spare, ok)
  PROVE  c \in Bitsets /\ c.arraysize = n /\ c.capacity >= n /\ HasWords(c, b) /\ Pads(c, b)
<1>1. c = [Zeroed(RoomWith(b, n, spare), Smaller(n, b.arraysize), n) EXCEPT !.arraysize = n]
  BY DEF Refitted, bitset_resize, RoomWith
<1> QED
  BY <1>1, PaddedRoom

\* The same for a padded resize whose allocation is not refused.
LEMMA PaddedServed ==
  ASSUME NEW b \in Bitsets, NEW n \in Nat, NEW spare \in Word,
         NEW c, c = PaddedTo(b, n, spare)
  PROVE  c \in Bitsets /\ c.arraysize = n /\ c.capacity >= n /\ HasWords(c, b) /\ Pads(c, b)
<1>1. c = [Zeroed(RoomWith(b, n, spare), Smaller(n, b.arraysize), n) EXCEPT !.arraysize = n]
  BY DEF PaddedTo, bitset_resize, RoomWith, Refused
<1> QED
  BY <1>1, PaddedRoom

\* bitset_grow appends words of zeroes.
LEMMA Grown ==
  ASSUME NEW b \in Bitsets, NEW n \in Nat, NEW spare \in Word,
         NEW ok \in BOOLEAN, ~Refused(b, n, ok), b.arraysize <= n,
         NEW c, c = bitset_grow(b, n, spare, ok)
  PROVE  /\ c \in Bitsets /\ c.arraysize = n
         /\ \A k \in Used(c) : c.array[k] = IF k < b.arraysize THEN b.array[k] ELSE {}
<1> DEFINE room == IF b.capacity < n THEN Reallocated(b, DoubledTo(1, n + 1), spare) ELSE b
           padded == Zeroed(room, b.arraysize, n)
<1>1. /\ b.capacity \in Nat /\ b.arraysize \in Nat /\ b.arraysize <= b.capacity
  BY Parts
<1>2. c = [padded EXCEPT !.arraysize = n]
  BY <1>1 DEF bitset_grow
<1>3. /\ room \in Bitsets /\ room.capacity >= n
      /\ \A k \in Used(b) : room.array[k] = b.array[k]
  <2>1. CASE b.capacity < n
    <3> DEFINE m == DoubledTo(1, n + 1)
    <3>1. m \in Nat /\ m >= n + 1
      <4>1. n + 1 \in Nat /\ 1 \in Nat
        OBVIOUS
      <4> QED
        BY <4>1, DoubledEnough
    <3> HIDE DEF m
    <3>2. b.capacity <= m /\ m >= n
      BY <1>1, <2>1, <3>1
    <3>3. room = Reallocated(b, m, spare)
      BY <2>1 DEF m
    <3> HIDE DEF room
    <3> QED
      BY <3>1, <3>2, <3>3, ReallocatedWords
  <2>2. CASE ~(b.capacity < n)
    <3>1. room = b
      BY <2>2
    <3> QED
      BY <1>1, <2>2, <3>1
  <2> QED
    BY <2>1, <2>2
<1> HIDE DEF room
<1>5. /\ padded \in Bitsets /\ padded.capacity = room.capacity
      /\ Zeroes(padded, room, b.arraysize, n)
  <2> DEFINE w == b.arraysize
  <2>1. padded = Zeroed(room, w, n) /\ room \in Bitsets /\ w \in Nat
    BY <1>1, <1>3
  <2> HIDE DEF padded, w
  <2>2. /\ padded \in Bitsets /\ padded.capacity = room.capacity
        /\ Zeroes(padded, room, w, n)
    BY <2>1, ZeroedWords
  <2> QED
    BY <2>2 DEF w
<1> HIDE DEF padded
<1>6. room.capacity \in Nat
  BY <1>3, Parts
<1>7. c \in Bitsets /\ c.arraysize = n /\ c.array = padded.array
  BY <1>2, <1>3, <1>5, WithSize
<1>8. ASSUME NEW k \in Used(c)
      PROVE  c.array[k] = IF k < b.arraysize THEN b.array[k] ELSE {}
  <2>1. k \in Nat /\ k < n
    BY <1>7, UsedWords
  <2>2. k \in 0..(room.capacity - 1)
    BY <1>3, <1>6, <2>1
  <2>3. c.array[k] = IF b.arraysize <= k /\ k < n THEN {} ELSE room.array[k]
    BY <1>5, <1>7, <2>2 DEF Zeroes
  <2>4. k < b.arraysize => k \in Used(b)
    BY <1>1, <2>1 DEF Used
  <2> QED
    BY <1>1, <1>3, <2>1, <2>3, <2>4
<1> QED
  BY <1>7, <1>8

-----------------------------------------------------------------------------
(* Calls on whole bitsets and on single values.                            *)

\* Every word of an empty bitset is zero.
LEMMA NoBits ==
  ASSUME BitsetAssumption, NEW b \in Bitsets, \A k \in Used(b) : b.array[k] = {}
  PROVE  Values(b) = {}
<1>1. ASSUME NEW k \in Nat, NEW x \in AllOnes PROVE ~(k < b.arraysize /\ x \in b.array[k])
  <2>1. k < b.arraysize => k \in Used(b)
    BY Parts DEF Used
  <2> QED
    BY <2>1
<1>2. \A k \in Nat, x \in AllOnes : k * WordBits + x \in {} <=> k < b.arraysize /\ x \in b.array[k]
  BY <1>1
<1> QED
  BY <1>2, ValuesBy

\* A new bitset has no bits, whatever its size.
LEMMA Created ==
  ASSUME BitsetAssumption, NEW size \in Nat, NEW c, c = bitset_create_with_capacity(size)
  PROVE  c \in Bitsets /\ Values(c) = {}
<1> DEFINE n == (size + WordBits - 1) \div WordBits
           a == [k \in 0..(n - 1) |-> {}]
<1>1. n \in Nat
  <2>1. size + WordBits - 1 \in Nat /\ WordBits \in Nat \ {0}
    BY Width
  <2> QED
    BY <2>1, Divided
<1>2. c = [array |-> a, arraysize |-> n, capacity |-> n]
  BY DEF bitset_create_with_capacity
<1> HIDE DEF n
<1>3. a \in [0..(n - 1) -> Word]
  BY DEF Word
<1>4. \A k \in Used(c) : c.array[k] = {}
  BY <1>2 DEF Used
<1> HIDE DEF a
<1>5. c \in Bitsets
  BY <1>1, <1>2, <1>3, MadeOf
<1> QED
  BY <1>4, <1>5, NoBits

\* Nor has one made without a size.
LEMMA CreatedEmpty ==
  ASSUME BitsetAssumption
  PROVE  bitset_create \in Bitsets /\ Values(bitset_create) = {}
<1> DEFINE a == [k \in {} |-> {}]
           c == bitset_create
           n == 0
<1>1. n \in Nat /\ n <= n /\ c = [array |-> a, arraysize |-> n, capacity |-> n]
  BY DEF bitset_create
<1>2. a \in [0..(n - 1) -> Word]
  OBVIOUS
<1>3. \A k \in Used(c) : c.array[k] = {}
  BY <1>1 DEF Used
<1> HIDE DEF a, c, n
<1>4. c \in Bitsets
  BY <1>1, <1>2, MadeOf
<1>5. Values(c) = {}
  BY <1>3, <1>4, NoBits
<1> QED
  BY <1>4, <1>5 DEF c

\* A copy has the bits of the original.
LEMMA Copied ==
  ASSUME BitsetAssumption, NEW b \in Bitsets, NEW c, c = bitset_copy(b)
  PROVE  c \in Bitsets /\ Values(c) = Values(b)
<1> DEFINE n == b.arraysize
           a == [k \in Used(b) |-> b.array[k]]
<1>1. n \in Nat /\ n <= n /\ c = [array |-> a, arraysize |-> n, capacity |-> n]
  BY Parts DEF bitset_copy
<1>2. a \in [0..(n - 1) -> Word]
  BY UsedWords DEF Used
<1>3. \A k \in Used(c) : c.array[k] = b.array[k] /\ k < b.arraysize
  BY <1>1 DEF Used
<1>4. c.arraysize = b.arraysize
  BY <1>1
<1> HIDE DEF a, n
<1>5. c \in Bitsets
  <2>1. n \in Nat /\ n <= n
    BY <1>1
  <2>2. [array |-> a, arraysize |-> n, capacity |-> n] \in Bitsets
    BY <1>2, <2>1, MadeOf
  <2> QED
    BY <1>1, <2>2
<1>6. b.arraysize <= c.arraysize
  BY <1>4, Parts
<1>7. \A k \in Used(c) : c.array[k] = IF k < b.arraysize THEN b.array[k] ELSE {}
  BY <1>3
<1> QED
  BY <1>5, <1>6, <1>7, AllWords

\* bitset_grow keeps the bits, and the size when it is refused.
LEMMA GrowKeeps ==
  ASSUME BitsetAssumption, NEW b \in Bitsets, NEW n \in Nat, NEW spare \in Word, NEW ok \in BOOLEAN,
         NEW c, c = bitset_grow(b, n, spare, ok)
  PROVE  /\ c \in Bitsets /\ Values(c) = Values(b)
         /\ c.arraysize = IF n < b.arraysize \/ Refused(b, n, ok) THEN b.arraysize ELSE n
<1>1. CASE n < b.arraysize \/ Refused(b, n, ok)
  <2>1. c = b
    BY <1>1 DEF bitset_grow
  <2> QED
    BY <1>1, <2>1
<1>2. CASE ~(n < b.arraysize) /\ ~Refused(b, n, ok)
  <2>1. b.arraysize <= n
    BY <1>2, Parts
  <2>2. /\ c \in Bitsets /\ c.arraysize = n
        /\ \A k \in Used(c) : c.array[k] = IF k < b.arraysize THEN b.array[k] ELSE {}
    BY <1>2, <2>1, Grown
  <2>3. Values(c) = Values(b)
    BY <2>1, <2>2, AllWords
  <2> QED
    BY <1>2, <2>2, <2>3
<1> QED
  BY <1>1, <1>2

\* bitset_resize with padding keeps the bits below the new size.
LEMMA ResizeCuts ==
  ASSUME BitsetAssumption, NEW b \in Bitsets, NEW n \in Nat, NEW spare \in Word, NEW ok \in BOOLEAN,
         NEW c, c = bitset_resize(b, n, TRUE, spare, ok)
  PROVE  c \in Bitsets /\ Values(c) = {v \in Values(b) : v < n * WordBits}
<1>1. CASE Refused(b, n, ok)
  <2>1. c = b
    BY <1>1 DEF bitset_resize
  <2>2. b.arraysize < n /\ b.arraysize \in Nat
    BY <1>1, Parts DEF Refused
  <2>3. ASSUME NEW v \in Values(b) PROVE v < n * WordBits
    <3>1. v \in Nat /\ v \div WordBits < b.arraysize
      BY ValuesAre DEF Bit
    <3>2. v \div WordBits < n
      <4>1. v \div WordBits \in Nat
        BY <3>1, PositionOf
      <4> QED
        BY <2>2, <3>1, <4>1
    <3> QED
      BY <3>1, <3>2, Below
  <2> QED
    BY <2>1, <2>3
<1>2. CASE ~Refused(b, n, ok)
  <2>1. c = Refitted(b, n, spare, ok)
    BY DEF Refitted
  <2>2. c \in Bitsets /\ c.arraysize = n /\ HasWords(c, b) /\ Pads(c, b)
    BY <1>2, <2>1, ResizedPadded
  <2>3. \A k \in Used(c) : c.array[k] = IF k < b.arraysize THEN b.array[k] ELSE {}
    <3>1. ASSUME NEW k \in Used(c) PROVE k < b.arraysize \/ k >= b.arraysize
      <4>1. k \in Nat /\ b.arraysize \in Nat
        BY <2>2, UsedWords, Parts
      <4> QED
        BY <4>1
    <3>2. ASSUME NEW k \in Used(c) PROVE k >= b.arraysize => ~(k < b.arraysize)
      <4>1. k \in Nat /\ b.arraysize \in Nat
        BY <2>2, UsedWords, Parts
      <4> QED
        BY <4>1
    <3> QED
      BY <2>2, <3>1, <3>2 DEF HasWords, Pads
  <2>4. Values(c) = {v \in Values(b) : v < c.arraysize * WordBits}
    BY <2>2, <2>3, SameWords
  <2> QED
    BY <2>2, <2>4
<1> QED
  BY <1>1, <1>2

\* bitset_trim cuts behind the last word that is not zero.
LEMMA TrimKeeps ==
  ASSUME BitsetAssumption, NEW b \in Bitsets, NEW c, c = bitset_trim(b)
  PROVE  c \in Bitsets /\ Values(c) = Values(b)
<1> DEFINE n == TrimmedSize(b)
           T == {0} \cup {k + 1 : k \in {j \in Used(b) : b.array[j] # {}}}
<1>1. b.capacity \in Nat /\ b.arraysize \in Nat /\ b.arraysize <= b.capacity
  BY Parts
<1>2. T \in SUBSET Nat /\ T # {} /\ \A y \in T : y <= b.arraysize
  BY <1>1 DEF Used
<1>3. n \in T /\ \A y \in T : y <= n
  <2>1. n = Max(T)
    BY DEF TrimmedSize
  <2> HIDE DEF n, T
  <2> QED
    BY <1>1, <1>2, <2>1, MaxFacts
<1>4. n \in Nat /\ n <= b.arraysize
  BY <1>2, <1>3
<1>5. ASSUME NEW k \in Used(b), n <= k PROVE b.array[k] = {}
  <2>1. k \in Nat
    BY UsedWords
  <2>2. k + 1 \notin T
    BY <1>3, <1>4, <1>5, <2>1
  <2> QED
    BY <2>2
<1> HIDE DEF n, T
<1>6. CASE b.capacity = n
  BY <1>6 DEF bitset_trim, n
<1>7. CASE b.capacity # n
  <2> DEFINE a == [k \in 0..(n - 1) |-> b.array[k]]
  <2>1. c = [array |-> a, arraysize |-> n, capacity |-> n]
    BY <1>7 DEF bitset_trim, n
  <2>2. a \in [0..(n - 1) -> Word]
    BY <1>1, <1>4, UsedWords DEF Used
  <2>3. \A k \in 0..(n - 1) : c.array[k] = b.array[k]
    BY <2>1
  <2>4. c.arraysize = n
    BY <2>1
  <2> HIDE DEF a
  <2>5. c \in Bitsets
    BY <1>4, <2>1, <2>2, MadeOf
  <2>6. ASSUME NEW k \in Used(b)
        PROVE  b.array[k] = IF k < c.arraysize THEN c.array[k] ELSE {}
    <3>1. k \in Nat
      BY UsedWords
    <3>2. CASE k < n
      <4>1. k \in 0..(n - 1)
        BY <1>4, <3>1, <3>2
      <4> QED
        BY <2>3, <2>4, <3>2, <4>1
    <3>3. CASE ~(k < n)
      <4>1. n <= k
        BY <1>4, <3>1, <3>3
      <4> QED
        BY <1>5, <2>4, <3>3, <4>1
    <3> QED
      BY <3>2, <3>3
  <2>7. c.arraysize <= b.arraysize
    BY <1>4, <2>4
  <2>8. Values(b) = Values(c)
    BY <2>5, <2>6, <2>7, AllWords
  <2> QED
    BY <2>5, <2>8
<1> QED
  BY <1>6, <1>7

\* bitset_clear takes every bit.
LEMMA ClearedAll ==
  ASSUME BitsetAssumption, NEW b \in Bitsets, NEW c, c = bitset_clear(b)
  PROVE  c \in Bitsets /\ Values(c) = {}
<1>1. b.capacity \in Nat /\ b.arraysize \in Nat /\ b.arraysize <= b.capacity /\ 0 \in Nat
  BY Parts
<1>2. c = Zeroed(b, 0, b.arraysize)
  BY DEF bitset_clear
<1>3. /\ c \in Bitsets /\ c.arraysize = b.arraysize /\ c.capacity = b.capacity
      /\ Zeroes(c, b, 0, b.arraysize)
  BY <1>1, <1>2, ZeroedWords
<1>4. ASSUME NEW k \in Used(c) PROVE c.array[k] = {}
  <2>1. k \in Nat /\ k < b.arraysize /\ k \in 0..(b.capacity - 1)
    BY <1>3, UsedWords
  <2> QED
    BY <1>3, <2>1 DEF Zeroes
<1> QED
  BY <1>3, <1>4, NoBits

\* bitset_fill sets every bit up to the size.
LEMMA FilledAll ==
  ASSUME BitsetAssumption, NEW b \in Bitsets, NEW c, c = bitset_fill(b)
  PROVE  c \in Bitsets /\ Values(c) = 0..(WordBits * b.arraysize - 1)
<1> DEFINE a == [k \in 0..(b.capacity - 1) |-> IF k < b.arraysize THEN AllOnes ELSE b.array[k]]
           S == 0..(WordBits * b.arraysize - 1)
<1>1. b.capacity \in Nat /\ b.arraysize \in Nat /\ b.arraysize <= b.capacity
      /\ b.array \in [0..(b.capacity - 1) -> Word]
  BY Parts
<1>2. c = [b EXCEPT !.array = a]
  BY <1>1 DEF bitset_fill
<1>3. a \in [0..(b.capacity - 1) -> Word]
  BY <1>1 DEF Word
<1>4. c \in Bitsets /\ c.arraysize = b.arraysize /\ c.capacity = b.capacity /\ c.array = a
  <2> HIDE DEF a
  <2> QED
    BY <1>2, <1>3, WithWords
<1>5. \A k \in Nat : k < b.arraysize => c.array[k] = AllOnes
  BY <1>1, <1>4
<1> HIDE DEF a
<1>6. WordBits * b.arraysize = b.arraysize * WordBits /\ b.arraysize * WordBits \in Nat
  BY <1>1, Width
<1>7. ASSUME NEW k \in Nat, NEW x \in AllOnes
      PROVE  k * WordBits + x \in S <=> k < c.arraysize /\ x \in c.array[k]
  <2> DEFINE v == k * WordBits + x
  <2>1. v \in Nat /\ v \div WordBits = k
    BY PositionAt
  <2> HIDE DEF v
  <2>2. v < b.arraysize * WordBits <=> k < b.arraysize
    BY <1>1, <2>1, Below
  <2>3. v \in S <=> v < b.arraysize * WordBits
    BY <1>6, <2>1
  <2>4. v \in S <=> k < c.arraysize /\ x \in c.array[k]
    BY <1>4, <1>5, <2>2, <2>3
  <2> QED
    BY <2>4 DEF v
<1>8. S \in SUBSET Nat
  OBVIOUS
<1> HIDE DEF S
<1>9. Values(c) = S
  BY <1>4, <1>7, <1>8, ValuesBy
<1> QED
  BY <1>4, <1>9 DEF S

\* A bitset in which one word is another, and the values of it.
WithWord(b, p, w) == [b EXCEPT !.array[p] = w]
WordIs(S, V, p, w) ==
  \A k \in Nat, x \in AllOnes :
    k * WordBits + x \in S <=> IF k = p THEN x \in w ELSE k * WordBits + x \in V

\* A change of one word changes the bits of that word only.
LEMMA OneWord ==
  ASSUME BitsetAssumption, NEW b \in Bitsets, NEW p \in Used(b), NEW w \in Word,
         NEW c, c = WithWord(b, p, w), NEW S \in SUBSET Nat, WordIs(S, Values(b), p, w)
  PROVE  c \in Bitsets /\ Values(c) = S
<1> DEFINE a == [b.array EXCEPT ![p] = w]
           d == [b EXCEPT !.array = a]
<1>1. /\ b.capacity \in Nat /\ b.arraysize \in Nat /\ b.arraysize <= b.capacity
      /\ b.array \in [0..(b.capacity - 1) -> Word]
      /\ b = [array |-> b.array, arraysize |-> b.arraysize, capacity |-> b.capacity]
  BY Parts
<1>2. p \in 0..(b.capacity - 1) /\ p \in Nat /\ p < b.arraysize
  BY UsedWords
<1>3. c = d
  BY <1>1 DEF WithWord
<1>4. a \in [0..(b.capacity - 1) -> Word]
  BY <1>1
<1>5. \A k \in 0..(b.capacity - 1) : a[k] = IF k = p THEN w ELSE b.array[k]
  BY <1>1, <1>2
<1> HIDE DEF a
<1>6. c \in Bitsets /\ c.arraysize = b.arraysize /\ c.array = a
  <2>1. d = [b EXCEPT !.array = a]
    OBVIOUS
  <2> HIDE DEF d
  <2>2. d \in Bitsets /\ d.arraysize = b.arraysize /\ d.capacity = b.capacity /\ d.array = a
    BY <1>4, <2>1, WithWords
  <2> QED
    BY <1>3, <2>2
<1>7. ASSUME NEW k \in Nat, NEW x \in AllOnes
      PROVE  k * WordBits + x \in S <=> k < c.arraysize /\ x \in c.array[k]
  <2>1. k * WordBits + x \in Values(b) <=> k < b.arraysize /\ x \in b.array[k]
    BY BitAt
  <2>2. k < b.arraysize => k \in 0..(b.capacity - 1)
    BY <1>1
  <2>3. k * WordBits + x \in S <=> IF k = p THEN x \in w ELSE k * WordBits + x \in Values(b)
    BY DEF WordIs
  <2> QED
    BY <1>2, <1>5, <1>6, <2>1, <2>2, <2>3
<1>8. Values(c) = S
  BY <1>6, <1>7, ValuesBy
<1> QED
  BY <1>6, <1>8

\* Without room for word p, and without an allocator that makes any.
Full(b, p, ok) == p >= b.arraysize /\ Refused(b, p + 1, ok)

\* Where a write goes: the bitset has the word, or grows, or stays without it.
LEMMA RoomFor ==
  ASSUME BitsetAssumption, NEW b \in Bitsets, NEW p \in Nat, NEW spare \in Word, NEW ok \in BOOLEAN,
         NEW c, c = IF p >= b.arraysize THEN bitset_grow(b, p + 1, spare, ok) ELSE b
  PROVE  /\ c \in Bitsets /\ Values(c) = Values(b)
         /\ IF p >= b.arraysize /\ Refused(b, p + 1, ok) THEN p >= c.arraysize ELSE p \in Used(c)
<1>1. b.arraysize \in Nat
  BY Parts
<1>2. CASE p >= b.arraysize
  <2> DEFINE n == p + 1
  <2>1. n \in Nat /\ c = bitset_grow(b, n, spare, ok) /\ ~(n < b.arraysize)
    BY <1>1, <1>2
  <2>2. p \in 0..(n - 1)
    OBVIOUS
  <2> HIDE DEF n
  <2>3. /\ c \in Bitsets /\ Values(c) = Values(b)
        /\ c.arraysize = IF n < b.arraysize \/ Refused(b, n, ok) THEN b.arraysize ELSE n
    BY <2>1, GrowKeeps
  <2>4. CASE Refused(b, n, ok)
    <3>1. c.arraysize = b.arraysize
      BY <2>3, <2>4
    <3> QED
      BY <1>2, <2>3, <2>4, <3>1 DEF n
  <2>5. CASE ~Refused(b, n, ok)
    <3>1. c.arraysize = n
      BY <2>1, <2>3, <2>5
    <3>2. p \in Used(c)
      BY <2>2, <3>1 DEF Used
    <3> QED
      BY <2>3, <2>5, <3>2 DEF n
  <2> QED
    BY <2>4, <2>5
<1>3. CASE ~(p >= b.arraysize)
  <2>1. c = b
    BY <1>3
  <2>2. p \in Used(b)
    BY <1>1, <1>3 DEF Used
  <2> QED
    BY <1>3, <2>1, <2>2
<1> QED
  BY <1>2, <1>3

\* bitset_set adds a bit, unless the room for it is refused.
LEMMA SetAdds ==
  ASSUME BitsetAssumption, NEW b \in Bitsets, NEW i \in Nat, NEW spare \in Word, NEW ok \in BOOLEAN,
         NEW c, c = bitset_set(b, i, spare, ok)
  PROVE  /\ c \in Bitsets
         /\ Values(c) = IF i \div WordBits >= b.arraysize /\ Refused(b, i \div WordBits + 1, ok)
                        THEN Values(b) ELSE Values(b) \cup {i}
<1> DEFINE p == i \div WordBits
           y == i % WordBits
           room == IF p >= b.arraysize THEN bitset_grow(b, p + 1, spare, ok) ELSE b
           w == room.array[p] \cup {y}
           S == Values(b) \cup {i}
<1>1. c = IF p >= room.arraysize THEN b ELSE [room EXCEPT !.array[p] = w]
  BY DEF bitset_set
<1>2. p \in Nat /\ y \in AllOnes /\ i = p * WordBits + y
  BY PositionOf
<1>3. ASSUME NEW k \in Nat, NEW x \in AllOnes PROVE k * WordBits + x = i <=> k = p /\ x = y
  <2>1. (k * WordBits + x) \div WordBits = k /\ (k * WordBits + x) % WordBits = x
    BY PositionAt
  <2> QED
    BY <1>2, <2>1
<1> HIDE DEF p, y
<1>4. /\ room \in Bitsets /\ Values(room) = Values(b)
      /\ IF p >= b.arraysize /\ Refused(b, p + 1, ok) THEN p >= room.arraysize ELSE p \in Used(room)
  <2> HIDE DEF room
  <2>1. room = IF p >= b.arraysize THEN bitset_grow(b, p + 1, spare, ok) ELSE b
    BY DEF room
  <2> QED
    BY <1>2, <2>1, RoomFor
<1> HIDE DEF room
<1>5. CASE p >= b.arraysize /\ Refused(b, p + 1, ok)
  <2>1. c = b
    BY <1>1, <1>4, <1>5
  <2> QED
    BY <1>5, <2>1 DEF p
<1>6. CASE ~(p >= b.arraysize /\ Refused(b, p + 1, ok))
  <2>1. p \in Used(room)
    BY <1>4, <1>6
  <2>2. p < room.arraysize /\ room.array[p] \in Word /\ room.arraysize \in Nat
    BY <1>4, <2>1, UsedWords, Parts
  <2>3. c = WithWord(room, p, w)
    BY <1>1, <1>2, <2>2 DEF WithWord
  <2>4. w \in Word
    BY <1>2, <2>2 DEF Word
  <2>5. S \in SUBSET Nat
    BY ValuesAre
  <2>0. ASSUME NEW k \in Nat, NEW x \in AllOnes
        PROVE  k * WordBits + x \in S
                 <=> IF k = p THEN x \in w ELSE k * WordBits + x \in Values(room)
    <3>1. k * WordBits + x \in Values(room) <=> k < room.arraysize /\ x \in room.array[k]
      BY <1>4, BitAt
    <3>2. k * WordBits + x = i <=> k = p /\ x = y
      BY <1>3
    <3> QED
      BY <1>4, <2>2, <3>1, <3>2
  <2>6. WordIs(S, Values(room), p, w)
    BY <2>0 DEF WordIs
  <2> HIDE DEF w, S
  <2>7. c \in Bitsets /\ Values(c) = S
    BY <1>4, <2>1, <2>3, <2>4, <2>5, <2>6, OneWord
  <2> QED
    BY <1>6, <2>7 DEF S, p
<1> QED
  BY <1>5, <1>6

\* i is the position of bit y of word p, and no other position is.
BitOf(i, p, y) == \A k \in Nat, x \in AllOnes : k * WordBits + x = i <=> k = p /\ x = y

\* A position is a word and a bit of it.
LEMMA BitOfPosition ==
  ASSUME BitsetAssumption, NEW i \in Nat, NEW p, p = i \div WordBits, NEW y, y = i % WordBits
  PROVE  p \in Nat /\ y \in AllOnes /\ BitOf(i, p, y)
<1>1. p \in Nat /\ y \in AllOnes /\ i = p * WordBits + y
  BY PositionOf
<1>2. ASSUME NEW k \in Nat, NEW x \in AllOnes PROVE k * WordBits + x = i <=> k = p /\ x = y
  <2>1. (k * WordBits + x) \div WordBits = k /\ (k * WordBits + x) % WordBits = x
    BY PositionAt
  <2> QED
    BY <1>1, <2>1
<1> QED
  BY <1>1, <1>2 DEF BitOf

\* bitset_set_to_value with false takes the bit, after it made room for it.
LEMMA SetClears ==
  ASSUME BitsetAssumption, NEW b \in Bitsets, NEW i \in Nat, NEW spare \in Word, NEW ok \in BOOLEAN,
         NEW p \in Nat, NEW y \in AllOnes, BitOf(i, p, y),
         NEW room, room = IF p >= b.arraysize THEN bitset_grow(b, p + 1, spare, ok) ELSE b,
         NEW c, c = IF p >= room.arraysize THEN b ELSE WithWord(room, p, room.array[p] \ {y})
  PROVE  /\ c \in Bitsets
         /\ Full(b, p, ok) => Values(c) = Values(b)
         /\ ~Full(b, p, ok) => Values(c) = Values(b) \ {i}
<1> DEFINE w == room.array[p] \ {y}
           S == Values(b) \ {i}
<1>1. c = IF p >= room.arraysize THEN b ELSE WithWord(room, p, w)
  OBVIOUS
<1>4. /\ room \in Bitsets /\ Values(room) = Values(b)
      /\ IF p >= b.arraysize /\ Refused(b, p + 1, ok) THEN p >= room.arraysize ELSE p \in Used(room)
  BY RoomFor
<1>5. CASE p >= b.arraysize /\ Refused(b, p + 1, ok)
  <2>1. c = b
    BY <1>1, <1>4, <1>5
  <2> QED
    BY <1>5, <2>1 DEF Full
<1>6. CASE ~(p >= b.arraysize /\ Refused(b, p + 1, ok))
  <2>1. p \in Used(room)
    BY <1>4, <1>6
  <2>2. p < room.arraysize /\ room.array[p] \in Word /\ room.arraysize \in Nat
    BY <1>4, <2>1, UsedWords, Parts
  <2>3. c = WithWord(room, p, w)
    BY <1>1, <2>2
  <2>4. w \in Word
    BY <2>2 DEF Word
  <2>5. S \in SUBSET Nat
    BY ValuesAre
  <2>0. ASSUME NEW k \in Nat, NEW x \in AllOnes
        PROVE  k * WordBits + x \in S
                 <=> IF k = p THEN x \in w ELSE k * WordBits + x \in Values(room)
    <3>1. k * WordBits + x \in Values(room) <=> k < room.arraysize /\ x \in room.array[k]
      BY <1>4, BitAt
    <3>2. k * WordBits + x = i <=> k = p /\ x = y
      BY DEF BitOf
    <3> QED
      BY <1>4, <2>2, <3>1, <3>2
  <2>6. WordIs(S, Values(room), p, w)
    BY <2>0 DEF WordIs
  <2> HIDE DEF w, S
  <2>7. c \in Bitsets /\ Values(c) = S
    BY <1>4, <2>1, <2>3, <2>4, <2>5, <2>6, OneWord
  <2> QED
    BY <1>6, <2>7 DEF S, Full
<1> QED
  BY <1>5, <1>6

\* bitset_set_to_value sets or takes the bit, unless room is refused.
LEMMA SetToValueSets ==
  ASSUME BitsetAssumption, NEW b \in Bitsets, NEW i \in Nat, NEW flag \in BOOLEAN,
         NEW spare \in Word, NEW ok \in BOOLEAN,
         NEW c, c = bitset_set_to_value(b, i, flag, spare, ok)
  PROVE  /\ c \in Bitsets
         /\ Values(c) = IF i \div WordBits >= b.arraysize /\ Refused(b, i \div WordBits + 1, ok)
                        THEN Values(b)
                        ELSE IF flag THEN Values(b) \cup {i} ELSE Values(b) \ {i}
<1>1. CASE flag = TRUE
  <2>1. \A X, y : (X \ {y}) \cup {y} = X \cup {y}
    OBVIOUS
  <2>2. c = bitset_set(b, i, spare, ok)
    BY <1>1, <2>1 DEF bitset_set_to_value, bitset_set
  <2> QED
    BY <1>1, <2>2, SetAdds
<1>2. CASE flag = FALSE
  <2> DEFINE p == i \div WordBits
             y == i % WordBits
             room == IF p >= b.arraysize THEN bitset_grow(b, p + 1, spare, ok) ELSE b
  <2>1. \A X : (X \ {y}) \cup {} = X \ {y}
    OBVIOUS
  <2>2. c = IF p >= room.arraysize THEN b ELSE WithWord(room, p, room.array[p] \ {y})
    BY <1>2, <2>1 DEF bitset_set_to_value, WithWord
  <2>3. room = IF p >= b.arraysize THEN bitset_grow(b, p + 1, spare, ok) ELSE b
    OBVIOUS
  <2>4. p \in Nat /\ y \in AllOnes /\ BitOf(i, p, y)
    BY BitOfPosition
  <2> HIDE DEF p, y, room
  <2>5. /\ c \in Bitsets
        /\ Full(b, p, ok) => Values(c) = Values(b)
        /\ ~Full(b, p, ok) => Values(c) = Values(b) \ {i}
    BY <2>2, <2>3, <2>4, SetClears
  <2> QED
    BY <1>2, <2>5 DEF p, Full
<1> QED
  BY <1>1, <1>2

-----------------------------------------------------------------------------
(* The operations in place.                                                *)

\* Every operand is a bitset.
LEMMA OperandsAre ==
  ASSUME BitsetAssumption, NEW o \in Operands
  PROVE  o \in Bitsets
<1>1. PICK n \in 0..MaxWords :
        o \in {[array |-> a, arraysize |-> n, capacity |-> n] : a \in [0..(n - 1) -> OperandWords]}
  BY DEF Operands
<1>2. PICK a \in [0..(n - 1) -> OperandWords] : o = [array |-> a, arraysize |-> n, capacity |-> n]
  BY <1>1
<1>3. OperandWords \subseteq Word
  <2>1. 0 \in AllOnes
    BY Width DEF AllOnes
  <2> QED
    BY <2>1 DEF OperandWords, Word
<1>4. a \in [0..(n - 1) -> Word]
  BY <1>3
<1>5. n \in Nat /\ n <= n
  BY Width
<1>6. [array |-> a, arraysize |-> n, capacity |-> n] \in Bitsets
  BY <1>4, <1>5, MadeOf
<1> QED
  BY <1>2, <1>6

\* The words both have.
LEMMA CommonWords ==
  ASSUME NEW b \in Bitsets, NEW o \in Bitsets, NEW k \in Nat
  PROVE  k \in Common(b, o) <=> k < b.arraysize /\ k < o.arraysize
BY Parts DEF Common, Smaller

\* The words of e are those of d, behind them those of o.
Appends(e, d, o) == \A k \in Used(e) : e.array[k] = IF k < d.arraysize THEN d.array[k] ELSE o.array[k]

SizeWith(d, o, ok) ==
  IF o.arraysize <= d.arraysize \/ Refused(d, o.arraysize, ok) THEN d.arraysize ELSE o.arraysize

\* A union first appends the words that only the other bitset has.
LEMMA ExtendedWords ==
  ASSUME NEW d \in Bitsets, NEW o \in Bitsets, NEW spare \in Word, NEW ok \in BOOLEAN,
         NEW e, e = Extended(d, o, spare, ok)
  PROVE  e \in Bitsets /\ Appends(e, d, o) /\ e.arraysize = SizeWith(d, o, ok)
<1>1. d.arraysize \in Nat /\ o.arraysize \in Nat
  BY Parts
<1>2. CASE o.arraysize <= d.arraysize \/ Refused(d, o.arraysize, ok)
  <2>1. e = d
    BY <1>2 DEF Extended
  <2>2. \A k \in Used(d) : k < d.arraysize
    BY UsedWords
  <2> QED
    BY <1>2, <2>1, <2>2 DEF Appends, SizeWith
<1>3. CASE ~(o.arraysize <= d.arraysize \/ Refused(d, o.arraysize, ok))
  <2> DEFINE n == o.arraysize
             room == bitset_resize(d, n, FALSE, spare, ok)
             a == [k \in DOMAIN room.array |->
                     IF k \in Rest(o, d.arraysize) THEN o.array[k] ELSE room.array[k]]
  <2>1. e = [room EXCEPT !.array = a]
    BY <1>3 DEF Extended
  <2>2. room \in Bitsets /\ room.arraysize = n /\ room.capacity >= n /\ HasWords(room, d)
    <3>1. n \in Nat /\ ~Refused(d, n, ok) /\ room = bitset_resize(d, n, FALSE, spare, ok)
      BY <1>1, <1>3
    <3> HIDE DEF n, room
    <3> QED
      BY <3>1, Resized
  <2> HIDE DEF room
  <2>3. room.capacity \in Nat /\ room.array \in [0..(room.capacity - 1) -> Word]
    BY <2>2, Parts
  <2>4. a \in [0..(room.capacity - 1) -> Word]
    <3>1. \A k \in Rest(o, d.arraysize) : o.array[k] \in Word
      BY UsedWords DEF Rest
    <3> QED
      BY <2>3, <3>1
  <2>5. \A k \in 0..(room.capacity - 1) :
          a[k] = IF k \in Rest(o, d.arraysize) THEN o.array[k] ELSE room.array[k]
    BY <2>3
  <2> HIDE DEF a
  <2>6. e \in Bitsets /\ e.arraysize = room.arraysize /\ e.capacity = room.capacity /\ e.array = a
    BY <2>1, <2>2, <2>4, WithWords
  <2>7. ASSUME NEW k \in Used(e)
        PROVE  e.array[k] = IF k < d.arraysize THEN d.array[k] ELSE o.array[k]
    <3>1. k \in Nat /\ k < n /\ k \in 0..(room.capacity - 1)
      BY <2>2, <2>6, UsedWords
    <3>2. e.array[k] = IF k \in Rest(o, d.arraysize) THEN o.array[k] ELSE room.array[k]
      BY <2>5, <2>6, <3>1
    <3>3. k \in Rest(o, d.arraysize) <=> ~(k < d.arraysize)
      BY <1>1, <3>1 DEF Rest, Used
    <3>4. k < d.arraysize => room.array[k] = d.array[k]
      <4>1. k \in Used(room)
        BY <2>2, <2>6 DEF Used
      <4> QED
        BY <2>2, <4>1 DEF HasWords
    <3> QED
      BY <3>2, <3>3, <3>4
  <2> QED
    BY <1>3, <2>2, <2>6, <2>7 DEF Appends, SizeWith
<1> QED
  BY <1>2, <1>3

\* The values of o that an operation reaches which had no room for all of them.
Reached(b, o, ok) ==
  IF Refused(b, o.arraysize, ok) THEN {v \in Values(o) : v < WordBits * b.arraysize} ELSE Values(o)

\* The bits of the other bitset that a union reaches, by words.
LEMMA ReachedBits ==
  ASSUME BitsetAssumption, NEW b \in Bitsets, NEW o \in Bitsets, NEW ok,
         NEW k \in Nat, NEW x \in AllOnes
  PROVE  k * WordBits + x \in Reached(b, o, ok)
           <=> /\ k < o.arraysize /\ x \in o.array[k]
               /\ k < b.arraysize \/ ~Refused(b, o.arraysize, ok)
<1> DEFINE v == k * WordBits + x
<1>1. v \in Nat /\ v \div WordBits = k
  BY PositionAt
<1>2. v \in Values(o) <=> k < o.arraysize /\ x \in o.array[k]
  BY BitAt
<1>3. b.arraysize \in Nat /\ WordBits * b.arraysize = b.arraysize * WordBits
  BY Parts, Width
<1> HIDE DEF v
<1>4. v < WordBits * b.arraysize <=> k < b.arraysize
  BY <1>1, <1>3, Below
<1>5. v \in Reached(b, o, ok) <=> v \in Values(o) /\ (k < b.arraysize \/ ~Refused(b, o.arraysize, ok))
  BY <1>4 DEF Reached
<1> QED
  BY <1>2, <1>5 DEF v

\* The words of d are those that an operation in place makes of b and o, where
\* S are the values it is to leave.
Combines(d, b, o, ok, S) ==
  \A k \in Nat, x \in AllOnes :
    k * WordBits + x \in S
      <=> IF k < b.arraysize THEN x \in d.array[k] ELSE k * WordBits + x \in Reached(b, o, ok)

\* An operation on the common words that then appends the others of o.
LEMMA CombinedInplace ==
  ASSUME BitsetAssumption, NEW b \in Bitsets, NEW o \in Bitsets,
         NEW spare \in Word, NEW ok \in BOOLEAN,
         NEW d \in Bitsets, d.arraysize = b.arraysize, d.capacity = b.capacity,
         NEW S \in SUBSET Nat, Combines(d, b, o, ok, S), NEW e, e = Extended(d, o, spare, ok)
  PROVE  e \in Bitsets /\ Values(e) = S
<1>1. e \in Bitsets /\ Appends(e, d, o) /\ e.arraysize = SizeWith(d, o, ok)
  BY ExtendedWords
<1>2. Refused(d, o.arraysize, ok) <=> Refused(b, o.arraysize, ok)
  BY DEF Refused
<1>3. b.arraysize \in Nat /\ o.arraysize \in Nat /\ e.arraysize \in Nat
  BY <1>1, Parts
<1>4. ASSUME NEW k \in Nat, NEW x \in AllOnes
      PROVE  k * WordBits + x \in S <=> k < e.arraysize /\ x \in e.array[k]
  <2> DEFINE v == k * WordBits + x
  <2>1. v \in S <=> IF k < b.arraysize THEN x \in d.array[k] ELSE v \in Reached(b, o, ok)
    BY DEF Combines
  <2>2. v \in Reached(b, o, ok)
          <=> /\ k < o.arraysize /\ x \in o.array[k]
              /\ k < b.arraysize \/ ~Refused(b, o.arraysize, ok)
    BY ReachedBits
  <2> HIDE DEF v
  <2>3. k < e.arraysize => e.array[k] = IF k < d.arraysize THEN d.array[k] ELSE o.array[k]
    BY <1>1, <1>3 DEF Appends, Used
  <2>4. CASE k < b.arraysize
    <3>1. k < e.arraysize
      BY <1>1, <1>3, <2>4 DEF SizeWith
    <3>2. e.array[k] = d.array[k]
      BY <2>3, <2>4, <3>1
    <3> QED
      BY <2>1, <2>4, <3>1, <3>2 DEF v
  <2>5. CASE ~(k < b.arraysize)
    <3>1. k < e.arraysize <=> k < o.arraysize /\ ~Refused(b, o.arraysize, ok)
      BY <1>1, <1>2, <1>3, <2>5 DEF SizeWith
    <3>2. k < e.arraysize => e.array[k] = o.array[k]
      BY <2>3, <2>5
    <3> QED
      BY <2>1, <2>2, <2>5, <3>1, <3>2 DEF v
  <2> QED
    BY <2>4, <2>5
<1>5. Values(e) = S
  BY <1>1, <1>4, ValuesBy
<1> QED
  BY <1>1, <1>5

\* What a union leaves.
Joined(b, o, ok) == Values(b) \cup Reached(b, o, ok)

\* The union in place joins the bits that it reaches.
LEMMA UnionInplace ==
  ASSUME BitsetAssumption, NEW b \in Bitsets, NEW o \in Bitsets,
         NEW spare \in Word, NEW ok \in BOOLEAN,
         NEW e, e = bitset_inplace_union(b, o, spare, ok)
  PROVE  e \in Bitsets /\ Values(e) = Joined(b, o, ok)
<1> DEFINE a == [k \in DOMAIN b.array |->
                   IF k \in Common(b, o) THEN b.array[k] \cup o.array[k] ELSE b.array[k]]
           d == [b EXCEPT !.array = a]
           S == Values(b) \cup Reached(b, o, ok)
<1>1. e = Extended(d, o, spare, ok)
  BY DEF bitset_inplace_union
<1>2. b.capacity \in Nat /\ b.array \in [0..(b.capacity - 1) -> Word]
      /\ b.arraysize \in Nat /\ b.arraysize <= b.capacity /\ o.arraysize \in Nat
  BY Parts
<1>3. a \in [0..(b.capacity - 1) -> Word]
  <2>1. \A k \in Common(b, o) : o.array[k] \in Word
    BY <1>2, UsedWords DEF Common, Smaller, Used
  <2> QED
    BY <1>2, <2>1 DEF Word
<1>4. \A k \in Nat : k < b.arraysize =>
        a[k] = IF k < o.arraysize THEN b.array[k] \cup o.array[k] ELSE b.array[k]
  <2>1. ASSUME NEW k \in Nat, k < b.arraysize
        PROVE  a[k] = IF k < o.arraysize THEN b.array[k] \cup o.array[k] ELSE b.array[k]
    <3>1. k \in DOMAIN b.array
      BY <1>2, <2>1
    <3>2. k \in Common(b, o) <=> k < o.arraysize
      BY <2>1, CommonWords
    <3> QED
      BY <3>1, <3>2
  <2> QED
    BY <2>1
<1>5. d \in Bitsets /\ d.arraysize = b.arraysize /\ d.capacity = b.capacity /\ d.array = a
  <2>1. d = [b EXCEPT !.array = a]
    OBVIOUS
  <2> HIDE DEF d, a
  <2> QED
    BY <1>3, <2>1, WithWords
<1> HIDE DEF d, a
<1>6. Combines(d, b, o, ok, S)
  <2>1. ASSUME NEW k \in Nat, NEW x \in AllOnes
        PROVE  k * WordBits + x \in S
                 <=> IF k < b.arraysize THEN x \in d.array[k]
                     ELSE k * WordBits + x \in Reached(b, o, ok)
    <3>1. k * WordBits + x \in Values(b) <=> k < b.arraysize /\ x \in b.array[k]
      BY BitAt
    <3>2. k * WordBits + x \in Reached(b, o, ok)
            <=> /\ k < o.arraysize /\ x \in o.array[k]
                /\ k < b.arraysize \/ ~Refused(b, o.arraysize, ok)
      BY ReachedBits
    <3> QED
      BY <1>4, <1>5, <3>1, <3>2
  <2> QED
    BY <2>1 DEF Combines
<1>7. S \in SUBSET Nat
  BY ValuesAre DEF Reached
<1> HIDE DEF S
<1>8. e \in Bitsets /\ Values(e) = S
  BY <1>1, <1>5, <1>6, <1>7, CombinedInplace
<1> QED
  BY <1>8 DEF S, Joined

\* The symmetric difference in place changes the bits that it reaches.
LEMMA SymmetricDifferenceInplace ==
  ASSUME BitsetAssumption, NEW b \in Bitsets, NEW o \in Bitsets,
         NEW spare \in Word, NEW ok \in BOOLEAN,
         NEW e, e = bitset_inplace_symmetric_difference(b, o, spare, ok)
  PROVE  e \in Bitsets /\ Values(e) = SymDiff(Values(b), Reached(b, o, ok))
<1> DEFINE a == [k \in DOMAIN b.array |->
                   IF k \in Common(b, o) THEN SymDiff(b.array[k], o.array[k]) ELSE b.array[k]]
           d == [b EXCEPT !.array = a]
           S == SymDiff(Values(b), Reached(b, o, ok))
<1>1. e = Extended(d, o, spare, ok)
  BY DEF bitset_inplace_symmetric_difference
<1>2. b.capacity \in Nat /\ b.array \in [0..(b.capacity - 1) -> Word]
      /\ b.arraysize \in Nat /\ b.arraysize <= b.capacity /\ o.arraysize \in Nat
  BY Parts
<1>3. a \in [0..(b.capacity - 1) -> Word]
  <2>1. \A k \in Common(b, o) : o.array[k] \in Word
    BY <1>2, UsedWords DEF Common, Smaller, Used
  <2> QED
    BY <1>2, <2>1 DEF Word, SymDiff
<1>4. \A k \in Nat : k < b.arraysize =>
        a[k] = IF k < o.arraysize THEN SymDiff(b.array[k], o.array[k]) ELSE b.array[k]
  <2>1. ASSUME NEW k \in Nat, k < b.arraysize
        PROVE  a[k] = IF k < o.arraysize THEN SymDiff(b.array[k], o.array[k]) ELSE b.array[k]
    <3>1. k \in DOMAIN b.array
      BY <1>2, <2>1
    <3>2. k \in Common(b, o) <=> k < o.arraysize
      BY <2>1, CommonWords
    <3> QED
      BY <3>1, <3>2
  <2> QED
    BY <2>1
<1>5. d \in Bitsets /\ d.arraysize = b.arraysize /\ d.capacity = b.capacity /\ d.array = a
  <2>1. d = [b EXCEPT !.array = a]
    OBVIOUS
  <2> HIDE DEF d, a
  <2> QED
    BY <1>3, <2>1, WithWords
<1> HIDE DEF d, a
<1>6. Combines(d, b, o, ok, S)
  <2>1. ASSUME NEW k \in Nat, NEW x \in AllOnes
        PROVE  k * WordBits + x \in S
                 <=> IF k < b.arraysize THEN x \in d.array[k]
                     ELSE k * WordBits + x \in Reached(b, o, ok)
    <3>1. k * WordBits + x \in Values(b) <=> k < b.arraysize /\ x \in b.array[k]
      BY BitAt
    <3>2. k * WordBits + x \in Reached(b, o, ok)
            <=> /\ k < o.arraysize /\ x \in o.array[k]
                /\ k < b.arraysize \/ ~Refused(b, o.arraysize, ok)
      BY ReachedBits
    <3> QED
      BY <1>4, <1>5, <3>1, <3>2 DEF SymDiff
  <2> QED
    BY <2>1 DEF Combines
<1>7. S \in SUBSET Nat
  BY ValuesAre DEF Reached, SymDiff
<1> HIDE DEF S
<1>8. e \in Bitsets /\ Values(e) = S
  BY <1>1, <1>5, <1>6, <1>7, CombinedInplace
<1> QED
  BY <1>8 DEF S

\* The intersection in place keeps the common bits.
LEMMA IntersectionInplace ==
  ASSUME BitsetAssumption, NEW b \in Bitsets, NEW o \in Bitsets,
         NEW e, e = bitset_inplace_intersection(b, o)
  PROVE  e \in Bitsets /\ Values(e) = Values(b) \cap Values(o)
<1> DEFINE a == [k \in DOMAIN b.array |->
                   IF k \in Common(b, o) THEN b.array[k] \cap o.array[k]
                   ELSE IF k < b.arraysize THEN {} ELSE b.array[k]]
           d == [b EXCEPT !.array = a]
           S == Values(b) \cap Values(o)
<1>1. e = d
  BY DEF bitset_inplace_intersection
<1>2. b.capacity \in Nat /\ b.array \in [0..(b.capacity - 1) -> Word]
      /\ b.arraysize \in Nat /\ b.arraysize <= b.capacity /\ o.arraysize \in Nat
  BY Parts
<1>3. a \in [0..(b.capacity - 1) -> Word]
  BY <1>2 DEF Word
<1>4. ASSUME NEW k \in Nat, NEW x \in AllOnes, k < b.arraysize
      PROVE  x \in a[k] <=> x \in b.array[k] /\ (k < o.arraysize /\ x \in o.array[k])
  <2>1. k \in DOMAIN b.array
    BY <1>2, <1>4
  <2>2. k \in Common(b, o) <=> k < o.arraysize
    BY <1>4, CommonWords
  <2> QED
    BY <1>4, <2>1, <2>2
<1>5. d \in Bitsets /\ d.arraysize = b.arraysize /\ d.capacity = b.capacity /\ d.array = a
  <2>1. d = [b EXCEPT !.array = a]
    OBVIOUS
  <2> HIDE DEF d, a
  <2> QED
    BY <1>3, <2>1, WithWords
<1> HIDE DEF d, a
<1>6. ASSUME NEW k \in Nat, NEW x \in AllOnes
      PROVE  k * WordBits + x \in S <=> k < d.arraysize /\ x \in d.array[k]
  <2>1. k * WordBits + x \in Values(b) <=> k < b.arraysize /\ x \in b.array[k]
    BY BitAt
  <2>2. k * WordBits + x \in Values(o) <=> k < o.arraysize /\ x \in o.array[k]
    BY BitAt
  <2> QED
    BY <1>4, <1>5, <2>1, <2>2
<1>7. S \in SUBSET Nat
  BY ValuesAre
<1> HIDE DEF S
<1>8. Values(d) = S
  BY <1>5, <1>6, <1>7, ValuesBy
<1> QED
  BY <1>1, <1>5, <1>8 DEF S

\* The difference in place takes the bits of the other bitset.
LEMMA DifferenceInplace ==
  ASSUME BitsetAssumption, NEW b \in Bitsets, NEW o \in Bitsets,
         NEW e, e = bitset_inplace_difference(b, o)
  PROVE  e \in Bitsets /\ Values(e) = Values(b) \ Values(o)
<1> DEFINE a == [k \in DOMAIN b.array |->
                   IF k \in Common(b, o) THEN b.array[k] \ o.array[k] ELSE b.array[k]]
           d == [b EXCEPT !.array = a]
           S == Values(b) \ Values(o)
<1>1. e = d
  BY DEF bitset_inplace_difference
<1>2. b.capacity \in Nat /\ b.array \in [0..(b.capacity - 1) -> Word]
      /\ b.arraysize \in Nat /\ b.arraysize <= b.capacity /\ o.arraysize \in Nat
  BY Parts
<1>3. a \in [0..(b.capacity - 1) -> Word]
  BY <1>2 DEF Word
<1>4. ASSUME NEW k \in Nat, NEW x \in AllOnes, k < b.arraysize
      PROVE  x \in a[k] <=> x \in b.array[k] /\ ~(k < o.arraysize /\ x \in o.array[k])
  <2>1. k \in DOMAIN b.array
    BY <1>2, <1>4
  <2>2. k \in Common(b, o) <=> k < o.arraysize
    BY <1>4, CommonWords
  <2> QED
    BY <1>4, <2>1, <2>2
<1>5. d \in Bitsets /\ d.arraysize = b.arraysize /\ d.capacity = b.capacity /\ d.array = a
  <2>1. d = [b EXCEPT !.array = a]
    OBVIOUS
  <2> HIDE DEF d, a
  <2> QED
    BY <1>3, <2>1, WithWords
<1> HIDE DEF d, a
<1>6. ASSUME NEW k \in Nat, NEW x \in AllOnes
      PROVE  k * WordBits + x \in S <=> k < d.arraysize /\ x \in d.array[k]
  <2>1. k * WordBits + x \in Values(b) <=> k < b.arraysize /\ x \in b.array[k]
    BY BitAt
  <2>2. k * WordBits + x \in Values(o) <=> k < o.arraysize /\ x \in o.array[k]
    BY BitAt
  <2> QED
    BY <1>4, <1>5, <2>1, <2>2
<1>7. S \in SUBSET Nat
  BY ValuesAre
<1> HIDE DEF S
<1>8. Values(d) = S
  BY <1>5, <1>6, <1>7, ValuesBy
<1> QED
  BY <1>1, <1>5, <1>8 DEF S

-----------------------------------------------------------------------------
(* The shifts.                                                             *)

\* Shifted words are words.
LEMMA ShiftsAreWords ==
  ASSUME BitsetAssumption, NEW w \in Word, NEW s \in Nat
  PROVE  ShiftUp(w, s) \in Word /\ ShiftDown(w, s) \in Word
<1>1. \A y \in w : y \in Nat /\ y < WordBits
  BY Width DEF Word, AllOnes
<1>2. ASSUME NEW y \in w, y >= s PROVE y - s \in AllOnes
  BY <1>1, <1>2, Width DEF AllOnes
<1> QED
  BY <1>2 DEF ShiftUp, ShiftDown, Word

\* The word that a turn of bitset_shift_left puts at k, and how far the loop
\* goes down.
LeftWord(a, k, extra, inword) ==
  IF inword = 0 THEN a[k - extra]
  ELSE ShiftUp(a[k - extra], inword) \cup ShiftDown(a[k - 1 - extra], WordBits - inword)
LeftEnd(extra, inword) == IF inword = 0 THEN extra ELSE extra + 1

\* The word that a shift to the left stores is a word.
LEMMA LeftWordIs ==
  ASSUME BitsetAssumption, NEW m \in Nat, NEW a \in [0..(m - 1) -> Word], NEW extra \in Nat,
         NEW inword \in AllOnes, NEW k \in 0..(m - 1), LeftEnd(extra, inword) <= k
  PROVE  LeftWord(a, k, extra, inword) \in Word
<1>1. inword \in Nat /\ inword < WordBits /\ WordBits \in Nat
  BY Width DEF AllOnes
<1>2. CASE inword = 0
  <2>1. k - extra \in 0..(m - 1)
    BY <1>2 DEF LeftEnd
  <2> QED
    BY <1>2, <2>1 DEF LeftWord
<1>3. CASE inword # 0
  <2>1. k - extra \in 0..(m - 1) /\ k - 1 - extra \in 0..(m - 1)
    BY <1>3 DEF LeftEnd
  <2>2. WordBits - inword \in Nat
    BY <1>1
  <2>3. ShiftUp(a[k - extra], inword) \in Word
    BY <1>1, <2>1, ShiftsAreWords
  <2>4. ShiftDown(a[k - 1 - extra], WordBits - inword) \in Word
    BY <2>1, <2>2, ShiftsAreWords
  <2> QED
    BY <1>3, <2>3, <2>4 DEF LeftWord, Word
<1> QED
  BY <1>2, <1>3

\* A turn that leaves the words it reads.
LEMMA LeftWordSame ==
  ASSUME NEW a, NEW c, NEW extra \in Nat, NEW inword, NEW k \in Nat, LeftEnd(extra, inword) <= k,
         \A j \in 0..k : c[j] = a[j]
  PROVE  LeftWord(c, k, extra, inword) = LeftWord(a, k, extra, inword)
<1>1. CASE inword = 0
  <2>1. k - extra \in 0..k
    BY <1>1 DEF LeftEnd
  <2> QED
    BY <1>1, <2>1 DEF LeftWord
<1>2. CASE inword # 0
  <2>1. k - extra \in 0..k /\ k - 1 - extra \in 0..k
    BY <1>2 DEF LeftEnd
  <2>2. c[k - extra] = a[k - extra] /\ c[k - 1 - extra] = a[k - 1 - extra]
    BY <2>1
  <2> QED
    BY <1>2, <2>2 DEF LeftWord
<1> QED
  BY <1>1, <1>2

\* The words from lo up to hi are moved, the others are as before.
MovedLeft(c, a, m, lo, hi, extra, inword) ==
  \A k \in 0..(m - 1) :
    c[k] = IF lo <= k /\ k < hi THEN LeftWord(a, k, extra, inword) ELSE a[k]

\* One turn of the shift to the left moves one word more.
LEMMA LeftTurn ==
  ASSUME BitsetAssumption, NEW m \in Nat, NEW a \in [0..(m - 1) -> Word], NEW extra \in Nat,
         NEW inword \in AllOnes, NEW hi \in 0..m, NEW k \in Nat, k < hi, LeftEnd(extra, inword) <= k,
         NEW c \in [0..(m - 1) -> Word], MovedLeft(c, a, m, k + 1, hi, extra, inword),
         NEW d, d = LeftMove(c, k + 1, extra, inword)
  PROVE  MovedLeft(d, a, m, k, hi, extra, inword)
<1>1. k \in 0..(m - 1) /\ k + 1 - 1 = k
  OBVIOUS
<1>2. d = [c EXCEPT ![k] = LeftWord(c, k, extra, inword)]
  <2>1. k + 1 - 1 - extra = k - extra /\ k + 1 - 2 - extra = k - 1 - extra
    OBVIOUS
  <2> QED
    BY <1>1, <2>1 DEF LeftMove, LeftWord
<1>3. LeftWord(c, k, extra, inword) = LeftWord(a, k, extra, inword)
  <2>1. ASSUME NEW j \in 0..k PROVE c[j] = a[j]
    <3>1. j \in 0..(m - 1) /\ ~(k + 1 <= j)
      BY <1>1
    <3> QED
      BY <3>1 DEF MovedLeft
  <2> QED
    BY <2>1, LeftWordSame
<1>4. ASSUME NEW j \in 0..(m - 1)
      PROVE  d[j] = IF k <= j /\ j < hi THEN LeftWord(a, j, extra, inword) ELSE a[j]
  <2>1. CASE j = k
    BY <1>1, <1>2, <1>3, <2>1
  <2>2. CASE j # k
    <3>1. d[j] = c[j]
      BY <1>2, <2>2
    <3>2. k <= j <=> k + 1 <= j
      BY <2>2
    <3> QED
      BY <3>1, <3>2 DEF MovedLeft
  <2> QED
    BY <2>1, <2>2
<1> QED
  BY <1>4 DEF MovedLeft

\* How many turns the loop takes.
Turns(hi, extra, inword) == hi - (extra + (IF inword = 0 THEN 1 ELSE 2)) + 1
RoomLeft(size, extra, inword, m) == size + extra <= m /\ (inword # 0 => size # 0)

\* The turns of the shift to the left stay in the array.
LEMMA LeftTurns ==
  ASSUME NEW m \in Nat, NEW extra \in Nat, NEW inword \in Nat, NEW size \in Nat,
         RoomLeft(size, extra, inword, m),
         NEW hi, hi = size + extra, NEW low, low = LeftEnd(extra, inword),
         NEW n, n = Turns(hi, extra, inword)
  PROVE  n = hi - low /\ n \in Nat /\ hi \in 0..m /\ low \in Nat /\ hi - n = low
<1>1. CASE inword = 0
  BY <1>1 DEF LeftEnd, Turns, RoomLeft
<1>2. CASE inword # 0
  BY <1>2 DEF LeftEnd, Turns, RoomLeft
<1> QED
  BY <1>1, <1>2

\* The loop of bitset_shift_left moves every word once, and reads none that
\* it has moved before.
LEMMA LeftMovesWords ==
  ASSUME BitsetAssumption, NEW m \in Nat, NEW a \in [0..(m - 1) -> Word], NEW extra \in Nat,
         NEW inword \in AllOnes, NEW size \in Nat, RoomLeft(size, extra, inword, m),
         NEW c, c = LeftMoves(a, size, extra, inword)
  PROVE  /\ c \in [0..(m - 1) -> Word]
         /\ MovedLeft(c, a, m, LeftEnd(extra, inword), size + extra, extra, inword)
<1> DEFINE hi == size + extra
           low == LeftEnd(extra, inword)
           n == Turns(hi, extra, inword)
           q == [i \in 1..n |-> hi - i + 1]
           A == [0..(m - 1) -> Word]
           turn(d, i) == LeftMove(d, q[i], extra, inword)
           G == [p \in (1..n) \X A |-> turn(p[2], p[1])]
           Step(it) == [x \in SUBSET DOMAIN q |-> IF x = {} THEN a ELSE turn(it[x \ {Max(x)}], Max(x))]
           it == CHOOSE f : f = Step(f)
           J == [i \in 0..n |-> {d \in A : MovedLeft(d, a, m, hi - i, hi, extra, inword)}]
<1>0. n = hi - low /\ n \in Nat /\ hi \in 0..m /\ low \in Nat /\ hi - n = low
  <2>1. inword \in Nat
    BY DEF AllOnes
  <2>2. hi = size + extra
    OBVIOUS
  <2>3. low = LeftEnd(extra, inword)
    OBVIOUS
  <2>4. n = Turns(hi, extra, inword)
    OBVIOUS
  <2> HIDE DEF hi, low, n
  <2> QED
    BY <2>1, <2>2, <2>3, <2>4, LeftTurns
<1>1. DOMAIN q = 1..n
  OBVIOUS
<1>2. c = it[1..n]
  <2>1. c = it[DOMAIN q]
    BY DEF LeftMoves, Turns, Down, FoldLeft, MapThenFoldSet
  <2> QED
    BY <1>1, <2>1
<1>3. \A i \in 1..n : q[i] = (hi - i) + 1 /\ hi - i \in Nat /\ low <= hi - i /\ hi - i < hi /\ hi - i \in 0..(m - 1)
  <2> HIDE DEF hi, n, low
  <2> QED
    BY <1>0
<1> HIDE DEF q, n, hi, low
<1>4. ASSUME NEW d \in A, NEW i \in 1..n PROVE turn(d, i) \in A
  <2> DEFINE k == hi - i
  <2>1. k \in 0..(m - 1) /\ low <= k /\ q[i] = k + 1
    BY <1>3
  <2> HIDE DEF k
  <2>2. LeftWord(d, k, extra, inword) \in Word
    BY <2>1, LeftWordIs DEF low
  <2>3. LeftMove(d, k + 1, extra, inword) = [d EXCEPT ![k] = LeftWord(d, k, extra, inword)]
    <3>1. k + 1 - 1 = k /\ k + 1 - 1 - extra = k - extra /\ k + 1 - 2 - extra = k - 1 - extra
      BY <2>1
    <3> QED
      BY <2>1, <3>1 DEF LeftMove, LeftWord
  <2> QED
    BY <2>1, <2>2, <2>3
<1> HIDE DEF A
<1>5. G \in [(1..n) \X A -> A]
  <2> HIDE DEF turn
  <2> QED
    BY <1>4
<1>5a. a \in A
  BY DEF A
<1>6. PICK f \in [SUBSET (1..n) -> A] : Folds(f, n, a, G)
  <2> HIDE DEF G
  <2> QED
    BY <1>0, <1>5, <1>5a, FoldExists
<1>7. f = Step(f)
  <2>1. ASSUME NEW x \in SUBSET (1..n), x # {}
        PROVE  f[x] = turn(f[x \ {Max(x)}], Max(x))
    <3>1. Max(x) \in 1..n /\ x \ {Max(x)} \in SUBSET (1..n)
      BY <1>0, <2>1, LastIndex
    <3>2. f[x \ {Max(x)}] \in A
      BY <3>1
    <3> HIDE DEF turn
    <3> QED
      BY <1>6, <2>1, <3>1, <3>2 DEF Folds
  <2> HIDE DEF turn
  <2> QED
    BY <1>1, <1>6, <2>1 DEF Folds
<1>8. it = Step(it)
  BY <1>7
<1> HIDE DEF it, J, turn
<1>9. it[{}] = a /\ \A i \in 1..n : it[1..i] = turn(it[1..(i - 1)], i)
  <2>1. \A x \in SUBSET (1..n) : it[x] = IF x = {} THEN a ELSE turn(it[x \ {Max(x)}], Max(x))
    BY <1>1, <1>8
  <2> QED
    BY <1>0, <2>1, Segment
<1>10. it[{}] \in J[0]
  <2>1. hi - 0 = hi
    BY <1>0
  <2>2. MovedLeft(a, a, m, hi, hi, extra, inword)
    BY <1>0 DEF MovedLeft
  <2> QED
    BY <1>0, <1>5a, <1>9, <2>1, <2>2 DEF J
<1>11. ASSUME NEW i \in 1..n, it[1..(i - 1)] \in J[i - 1] PROVE it[1..i] \in J[i]
  <2> DEFINE d == it[1..(i - 1)]
             k == hi - i
             e == turn(d, i)
  <2>1. i - 1 \in 0..n /\ i \in 0..n /\ hi - (i - 1) = k + 1
    BY <1>0
  <2>2. d \in A /\ MovedLeft(d, a, m, k + 1, hi, extra, inword)
    BY <1>11, <2>1 DEF J
  <2>3. it[1..i] = e
    BY <1>9
  <2>4. e \in A
    <3> HIDE DEF d
    <3> QED
      BY <1>4, <2>2
  <2>5. k \in Nat /\ k < hi /\ low <= k /\ e = LeftMove(d, k + 1, extra, inword)
    BY <1>3 DEF turn
  <2> HIDE DEF d, k, e
  <2>6. MovedLeft(e, a, m, k, hi, extra, inword)
    BY <1>0, <2>2, <2>5, LeftTurn DEF A, low
  <2> QED
    BY <2>1, <2>3, <2>4, <2>6 DEF J, k
<1>12. it[1..n] \in J[n]
  BY <1>0, <1>10, <1>11, FoldKeeps
<1>13. n \in 0..n
  BY <1>0
<1>14. c \in A /\ MovedLeft(c, a, m, hi - n, hi, extra, inword)
  BY <1>2, <1>12, <1>13 DEF J
<1>15. c \in A /\ MovedLeft(c, a, m, low, hi, extra, inword)
  BY <1>0, <1>14
<1> QED
  BY <1>15 DEF A, low, hi

\* The word that a turn of bitset_shift_right puts at k, and where its loop ends.
RightWord(a, k, extra, inword) ==
  IF inword = 0 THEN a[k + extra]
  ELSE ShiftDown(a[k + extra], inword) \cup ShiftUp(a[k + extra + 1], WordBits - inword)
RightEnd(size, extra, inword) == IF inword = 0 THEN size - extra ELSE size - extra - 1

RoomRight(size, extra, inword, m) ==
  size <= m /\ extra <= size /\ (inword # 0 => extra < size)

\* The turns of the shift to the right stay in the array.
LEMMA RightTurns ==
  ASSUME NEW m \in Nat, NEW extra \in Nat, NEW inword \in Nat, NEW size \in Nat,
         RoomRight(size, extra, inword, m), NEW n, n = RightEnd(size, extra, inword)
  PROVE  /\ n \in Nat
         /\ \A k \in Nat : k < n => /\ k \in 0..(m - 1) /\ k + extra \in 0..(m - 1)
                                    /\ inword # 0 => k + extra + 1 \in 0..(m - 1)
<1>1. CASE inword = 0
  BY <1>1 DEF RightEnd, RoomRight
<1>2. CASE inword # 0
  BY <1>2 DEF RightEnd, RoomRight
<1> QED
  BY <1>1, <1>2

\* The word that a shift to the right stores is a word.
LEMMA RightWordIs ==
  ASSUME BitsetAssumption, NEW m \in Nat, NEW a \in [0..(m - 1) -> Word], NEW extra \in Nat,
         NEW inword \in AllOnes, NEW k \in 0..(m - 1), k + extra \in 0..(m - 1),
         inword # 0 => k + extra + 1 \in 0..(m - 1)
  PROVE  RightWord(a, k, extra, inword) \in Word
<1>1. inword \in Nat /\ inword < WordBits /\ WordBits \in Nat
  BY Width DEF AllOnes
<1>2. CASE inword = 0
  BY <1>2 DEF RightWord
<1>3. CASE inword # 0
  <2>1. k + extra \in 0..(m - 1) /\ k + extra + 1 \in 0..(m - 1)
    BY <1>3
  <2>2. WordBits - inword \in Nat
    BY <1>1
  <2>3. ShiftDown(a[k + extra], inword) \in Word
    BY <1>1, <2>1, ShiftsAreWords
  <2>4. ShiftUp(a[k + extra + 1], WordBits - inword) \in Word
    BY <2>1, <2>2, ShiftsAreWords
  <2> QED
    BY <1>3, <2>3, <2>4 DEF RightWord, Word
<1> QED
  BY <1>2, <1>3

\* The words below hi are moved, the others are as before.
MovedRight(c, a, m, hi, extra, inword) ==
  \A k \in 0..(m - 1) : c[k] = IF k < hi THEN RightWord(a, k, extra, inword) ELSE a[k]

\* One turn of the shift to the right moves one word more.
LEMMA RightTurn ==
  ASSUME NEW m \in Nat, NEW a \in [0..(m - 1) -> Word], NEW extra \in Nat,
         NEW inword, NEW k \in 0..(m - 1), k + extra \in 0..(m - 1),
         inword # 0 => k + extra + 1 \in 0..(m - 1),
         NEW c \in [0..(m - 1) -> Word], MovedRight(c, a, m, k, extra, inword),
         NEW d, d = [c EXCEPT ![k] = RightWord(c, k, extra, inword)]
  PROVE  MovedRight(d, a, m, k + 1, extra, inword)
<1>1. c[k + extra] = a[k + extra]
  <2>1. ~(k + extra < k)
    OBVIOUS
  <2> QED
    BY <2>1 DEF MovedRight
<1>2. ASSUME inword # 0 PROVE c[k + extra + 1] = a[k + extra + 1]
  <2>1. ~(k + extra + 1 < k) /\ k + extra + 1 \in 0..(m - 1)
    BY <1>2
  <2> QED
    BY <2>1 DEF MovedRight
<1>3. RightWord(c, k, extra, inword) = RightWord(a, k, extra, inword)
  BY <1>1, <1>2 DEF RightWord
<1>4. ASSUME NEW j \in 0..(m - 1)
      PROVE  d[j] = IF j < k + 1 THEN RightWord(a, j, extra, inword) ELSE a[j]
  <2>1. CASE j = k
    BY <1>3, <2>1
  <2>2. CASE j # k
    <3>1. d[j] = c[j]
      BY <2>2
    <3>2. j < k + 1 <=> j < k
      BY <2>2
    <3> QED
      BY <3>1, <3>2 DEF MovedRight
  <2> QED
    BY <2>1, <2>2
<1> QED
  BY <1>4 DEF MovedRight

\* The loop of bitset_shift_right moves every word once, and reads none that
\* it has moved before.
LEMMA RightMovesWords ==
  ASSUME BitsetAssumption, NEW m \in Nat, NEW a \in [0..(m - 1) -> Word], NEW extra \in Nat,
         NEW inword \in AllOnes, NEW size \in Nat, RoomRight(size, extra, inword, m),
         NEW c, c = RightMoves(a, size, extra, inword)
  PROVE  /\ c \in [0..(m - 1) -> Word]
         /\ MovedRight(c, a, m, RightEnd(size, extra, inword), extra, inword)
<1> DEFINE last == size - extra - (IF inword = 0 THEN 1 ELSE 2)
           n == last - 0 + 1
           q == [i \in 1..n |-> 0 + i - 1]
           A == [0..(m - 1) -> Word]
           turn(d, i) == RightMove(d, q[i], extra, inword)
           G == [p \in (1..n) \X A |-> turn(p[2], p[1])]
           Step(it) == [x \in SUBSET DOMAIN q |-> IF x = {} THEN a ELSE turn(it[x \ {Max(x)}], Max(x))]
           it == CHOOSE f : f = Step(f)
           J == [i \in 0..n |-> {d \in A : MovedRight(d, a, m, i, extra, inword)}]
<1>0. inword \in Nat
  BY DEF AllOnes
<1>1. DOMAIN q = 1..n
  OBVIOUS
<1>2. c = it[1..n]
  <2>1. c = it[DOMAIN q]
    BY DEF RightMoves, Up, FoldLeft, MapThenFoldSet
  <2> QED
    BY <1>1, <2>1
<1>3. n = RightEnd(size, extra, inword)
  BY <1>0 DEF RightEnd
<1>4. \A i \in 1..n : q[i] = i - 1
  OBVIOUS
<1> HIDE DEF q, n
<1>5. /\ n \in Nat
      /\ \A k \in Nat : k < n => /\ k \in 0..(m - 1) /\ k + extra \in 0..(m - 1)
                                 /\ inword # 0 => k + extra + 1 \in 0..(m - 1)
  BY <1>0, <1>3, RightTurns
<1>6. ASSUME NEW i \in 1..n
      PROVE  /\ i - 1 \in 0..(m - 1) /\ i - 1 + extra \in 0..(m - 1)
             /\ inword # 0 => i - 1 + extra + 1 \in 0..(m - 1)
  <2>1. i - 1 \in Nat /\ i - 1 < n
    BY <1>5
  <2> QED
    BY <1>5, <2>1
<1>7. ASSUME NEW d \in A, NEW i \in 1..n
      PROVE  turn(d, i) \in A /\ turn(d, i) = [d EXCEPT ![i - 1] = RightWord(d, i - 1, extra, inword)]
  <2> DEFINE k == i - 1
  <2>1. /\ k \in 0..(m - 1) /\ k + extra \in 0..(m - 1)
        /\ inword # 0 => k + extra + 1 \in 0..(m - 1)
    BY <1>6
  <2>2. turn(d, i) = [d EXCEPT ![k] = RightWord(d, k, extra, inword)]
    BY <1>4 DEF RightMove, RightWord
  <2> HIDE DEF k
  <2>3. RightWord(d, k, extra, inword) \in Word
    BY <2>1, RightWordIs
  <2> QED
    BY <2>2, <2>3 DEF k
<1> HIDE DEF A
<1>8. G \in [(1..n) \X A -> A]
  <2> HIDE DEF turn
  <2> QED
    BY <1>7
<1>9. a \in A
  BY DEF A
<1>10. PICK f \in [SUBSET (1..n) -> A] : Folds(f, n, a, G)
  <2> HIDE DEF G
  <2> QED
    BY <1>5, <1>8, <1>9, FoldExists
<1>11. f = Step(f)
  <2>1. ASSUME NEW x \in SUBSET (1..n), x # {}
        PROVE  f[x] = turn(f[x \ {Max(x)}], Max(x))
    <3>1. Max(x) \in 1..n /\ x \ {Max(x)} \in SUBSET (1..n)
      BY <1>5, <2>1, LastIndex
    <3>2. f[x \ {Max(x)}] \in A
      BY <3>1
    <3> HIDE DEF turn
    <3> QED
      BY <1>10, <2>1, <3>1, <3>2 DEF Folds
  <2> HIDE DEF turn
  <2> QED
    BY <1>1, <1>10, <2>1 DEF Folds
<1>12. it = Step(it)
  BY <1>11
<1> HIDE DEF it, J, turn
<1>13. it[{}] = a /\ \A i \in 1..n : it[1..i] = turn(it[1..(i - 1)], i)
  <2>1. \A x \in SUBSET (1..n) : it[x] = IF x = {} THEN a ELSE turn(it[x \ {Max(x)}], Max(x))
    BY <1>1, <1>12
  <2> QED
    BY <1>5, <2>1, Segment
<1>14. it[{}] \in J[0]
  <2>1. MovedRight(a, a, m, 0, extra, inword)
    BY DEF MovedRight
  <2> QED
    BY <1>5, <1>9, <1>13, <2>1 DEF J
<1>15. ASSUME NEW i \in 1..n, it[1..(i - 1)] \in J[i - 1] PROVE it[1..i] \in J[i]
  <2> DEFINE d == it[1..(i - 1)]
             k == i - 1
             e == turn(d, i)
  <2>1. k \in 0..n /\ i \in 0..n /\ k + 1 = i
    BY <1>5
  <2>2. d \in A /\ MovedRight(d, a, m, k, extra, inword)
    BY <1>15, <2>1 DEF J
  <2>3. it[1..i] = e
    BY <1>13
  <2> HIDE DEF d
  <2>4. e \in A /\ e = [d EXCEPT ![k] = RightWord(d, k, extra, inword)]
    BY <1>7, <2>2
  <2>5. /\ k \in 0..(m - 1) /\ k + extra \in 0..(m - 1)
        /\ inword # 0 => k + extra + 1 \in 0..(m - 1)
    BY <1>6
  <2> HIDE DEF k, e
  <2>6. MovedRight(e, a, m, k + 1, extra, inword)
    BY <2>2, <2>4, <2>5, RightTurn DEF A
  <2> QED
    BY <2>1, <2>3, <2>4, <2>6 DEF J
<1>16. it[1..n] \in J[n]
  BY <1>5, <1>14, <1>15, FoldKeeps
<1>17. n \in 0..n
  BY <1>5
<1>18. c \in A /\ MovedRight(c, a, m, n, extra, inword)
  BY <1>2, <1>16, <1>17 DEF J
<1> QED
  BY <1>3, <1>18 DEF A

\* A word of a bitset, that is zero behind those in use.
WordOf(b, k) == IF k \in Used(b) THEN b.array[k] ELSE {}

\* The word at a place is a word, beyond the size too.
LEMMA WordOfIs ==
  ASSUME NEW b \in Bitsets, NEW k
  PROVE  WordOf(b, k) \in Word
BY UsedWords DEF WordOf, Word

\* A bitset has a bit when the word at its place does.
LEMMA HeldBy ==
  ASSUME BitsetAssumption, NEW b \in Bitsets, NEW k \in Nat, NEW x \in AllOnes
  PROVE  k * WordBits + x \in Values(b) <=> x \in WordOf(b, k)
<1>1. k \in Used(b) <=> k < b.arraysize
  BY Parts DEF Used
<1> QED
  BY <1>1, BitAt DEF WordOf

\* What the words of a bitset shifted by extra words and inword bits are, up
\* and down.
UpWord(b, k, extra, inword) ==
  ShiftUp(WordOf(b, k - extra), inword)
    \cup ShiftDown(WordOf(b, k - extra - 1), WordBits - inword)
DownWord(b, k, extra, inword) ==
  ShiftDown(WordOf(b, k + extra), inword)
    \cup ShiftUp(WordOf(b, k + extra + 1), WordBits - inword)

\* The position of bit y of word j, and what lies s behind the values.
IsAt(u, j, y) == u = j * WordBits + y
Behind(b, s) == {t + s : t \in Values(b)}
IsBehind(v, u, s) == v = u + s

\* A bit behind a distance comes from the word at its old place.
LEMMA FromWord ==
  ASSUME BitsetAssumption, NEW b \in Bitsets, NEW j \in Int, NEW y \in AllOnes, NEW s \in Nat,
         NEW v \in Nat, NEW u \in Int, IsAt(u, j, y), IsBehind(v, u, s)
  PROVE  v \in Behind(b, s) <=> y \in WordOf(b, j)
<1> DEFINE S == Behind(b, s)
<1>0. u = j * WordBits + y /\ v = u + s /\ S = {t + s : t \in Values(b)}
  BY DEF IsAt, Behind, IsBehind
<1> HIDE DEF S
<1>1. WordBits \in Nat \ {0} /\ y \in Nat /\ y < WordBits
  BY Width DEF AllOnes
<1>2. \A t \in Values(b) : t \in Nat
  BY ValuesAre
<1>3. v \in S <=> u \in Values(b)
  <2>1. \A t \in Values(b) : v = t + s <=> t = u
    BY <1>0, <1>2
  <2> QED
    BY <1>0, <2>1
<1>4. CASE j >= 0
  <2>1. j \in Nat
    BY <1>4
  <2> QED
    BY <1>0, <1>3, <2>1, HeldBy DEF S
<1>5. CASE ~(j >= 0)
  <2>1. j \notin Used(b)
    BY <1>5 DEF Used
  <2>2. u < 0
    <3> DEFINE i == -1 - j
    <3>1. i \in Nat /\ j = -1 - i
      BY <1>5
    <3> HIDE DEF i
    <3>2. i * WordBits \in Nat /\ j * WordBits = 0 - WordBits - i * WordBits
      BY <1>1, <3>1
    <3> QED
      BY <1>0, <1>1, <3>2
  <2> QED
    BY <1>2, <1>3, <2>1, <2>2 DEF WordOf, S
<1> QED
  BY <1>4, <1>5

\* A bit of a shifted word.
LEMMA ShiftedBit ==
  ASSUME BitsetAssumption, NEW w \in Word, NEW s \in Nat, NEW x \in AllOnes
  PROVE  /\ x \in ShiftUp(w, s) <=> x - s \in w
         /\ x \in ShiftDown(w, s) <=> x + s \in w
<1>1. \A y \in w : y \in Nat /\ y < WordBits
  BY Width DEF Word, AllOnes
<1>2. x \in Nat
  BY DEF AllOnes
<1>3. \A y \in w : x = y + s <=> y = x - s
  BY <1>1, <1>2
<1>4. \A y \in w : x = y - s <=> y = x + s
  BY <1>1, <1>2
<1>5. \A y \in w : y = x + s => y >= s
  BY <1>2
<1> QED
  BY <1>3, <1>4, <1>5 DEF ShiftUp, ShiftDown

\* A bitset whose words are shifted up has the bits moved up.
LEMMA UpShifted ==
  ASSUME BitsetAssumption, NEW b \in Bitsets, NEW c \in Bitsets, NEW extra \in Nat,
         NEW inword \in AllOnes, NEW s, s = extra * WordBits + inword,
         \A k \in Nat : WordOf(c, k) = UpWord(b, k, extra, inword)
  PROVE  Values(c) = Behind(b, s)
<1> DEFINE S == Behind(b, s)
           W == WordBits
<1>1. W \in Nat \ {0} /\ inword \in Nat /\ inword < W /\ extra * W \in Nat /\ s \in Nat
  BY Width DEF AllOnes
<1>2. S \in SUBSET Nat
  BY <1>1, ValuesAre DEF Behind
<1>3. ASSUME NEW k \in Nat, NEW x \in AllOnes
      PROVE  k * W + x \in S <=> k < c.arraysize /\ x \in c.array[k]
  <2> DEFINE v == k * W + x
             p == WordOf(b, k - extra)
             q == WordOf(b, k - extra - 1)
  <2>1. v \in Nat /\ x \in Nat /\ x < W
    BY <1>1, PositionAt DEF AllOnes
  <2>2. v \in Values(c) <=> x \in WordOf(c, k)
    BY HeldBy
  <2>3. p \in Word /\ q \in Word /\ W - inword \in Nat
    BY <1>1, WordOfIs
  <2>4. x \in WordOf(c, k) <=> x - inword \in p \/ x + (W - inword) \in q
    <3>1. WordOf(c, k) = ShiftUp(p, inword) \cup ShiftDown(q, W - inword)
      BY DEF UpWord
    <3> HIDE DEF p, q
    <3>2. x \in ShiftUp(p, inword) <=> x - inword \in p
      BY <1>1, <2>3, ShiftedBit
    <3>3. x \in ShiftDown(q, W - inword) <=> x + (W - inword) \in q
      <4> DEFINE r == W - inword
      <4>1. r \in Nat
        BY <2>3
      <4> HIDE DEF r, W
      <4>2. x \in ShiftDown(q, r) <=> x + r \in q
        BY <2>3, <4>1, ShiftedBit
      <4> QED
        BY <4>2 DEF r
    <3> QED
      BY <3>1, <3>2, <3>3
  <2>5. \A y \in p \cup q : y \in Nat /\ y < W
    BY <1>1, <2>3 DEF Word, AllOnes
  <2> HIDE DEF p, q
  <2>6. CASE x >= inword
    <3> DEFINE y == x - inword
               j == k - extra
               u == j * W + y
    <3>1. j \in Int /\ y \in AllOnes /\ u \in Int /\ u = j * W + y
      BY <1>1, <2>1, <2>6 DEF AllOnes
    <3>2. v = u + s
      <4>1. j * W = k * W - extra * W /\ k * W \in Nat
        BY <1>1
      <4> HIDE DEF W
      <4> QED
        BY <1>1, <2>1, <4>1 DEF W
    <3>3. IsAt(u, j, y) /\ IsBehind(v, u, s)
      BY <3>2 DEF IsAt, IsBehind
    <3> HIDE DEF v, u, y, j
    <3>4. v \in S <=> y \in WordOf(b, j)
      BY <1>1, <2>1, <3>1, <3>3, FromWord
    <3>5. ~(x + (W - inword) \in q)
      BY <1>1, <2>1, <2>5, <2>6
    <3>6. v \in S <=> x \in WordOf(c, k)
      BY <2>4, <3>4, <3>5 DEF y, j, p
    <3> QED
      BY <3>6, <2>2, BitAt DEF v, W
  <2>7. CASE ~(x >= inword)
    <3> DEFINE y == x + (W - inword)
               j == k - extra - 1
               u == j * W + y
    <3>1. j \in Int /\ y \in AllOnes /\ u \in Int /\ u = j * W + y
      BY <1>1, <2>1, <2>7 DEF AllOnes
    <3>2. v = u + s
      <4>1. j * W = k * W - extra * W - W /\ k * W \in Nat
        BY <1>1
      <4> HIDE DEF W
      <4> QED
        BY <1>1, <2>1, <4>1 DEF W
    <3>3. IsAt(u, j, y) /\ IsBehind(v, u, s)
      BY <3>2 DEF IsAt, IsBehind
    <3> HIDE DEF v, u, y, j
    <3>4. v \in S <=> y \in WordOf(b, j)
      BY <1>1, <2>1, <3>1, <3>3, FromWord
    <3>5. ~(x - inword \in p)
      BY <1>1, <2>1, <2>5, <2>7
    <3>6. v \in S <=> x \in WordOf(c, k)
      BY <2>4, <3>4, <3>5 DEF y, j, q
    <3> QED
      BY <3>6, <2>2, BitAt DEF v, W
  <2> QED
    BY <2>6, <2>7
<1> HIDE DEF S
<1>4. Values(c) = S
  BY <1>2, <1>3, ValuesBy
<1> QED
  BY <1>4 DEF S

\* What is left of the values when s of the positions before them go.
Ahead(b, s) == {t - s : t \in {u \in Values(b) : u >= s}}

\* A bit ahead of a distance comes from the word at its old place.
LEMMA ToWord ==
  ASSUME BitsetAssumption, NEW b \in Bitsets, NEW j \in Nat, NEW y \in AllOnes, NEW s \in Nat,
         NEW v \in Nat, NEW u \in Nat, IsAt(u, j, y), IsBehind(u, v, s)
  PROVE  v \in Ahead(b, s) <=> y \in WordOf(b, j)
<1>1. u = j * WordBits + y /\ u = v + s
  BY DEF IsAt, IsBehind
<1>2. \A t \in Values(b) : t \in Nat
  BY ValuesAre
<1>3. u \in Values(b) <=> y \in WordOf(b, j)
  BY <1>1, HeldBy
<1>4. \A t \in Values(b) : t >= s => (v = t - s <=> t = u)
  BY <1>1, <1>2
<1>5. u >= s
  BY <1>1
<1>6. v \in Ahead(b, s) <=> u \in Values(b)
  BY <1>4, <1>5 DEF Ahead
<1> QED
  BY <1>3, <1>6

\* A bitset whose words are shifted down has the bits moved down.
LEMMA DownShifted ==
  ASSUME BitsetAssumption, NEW b \in Bitsets, NEW c \in Bitsets, NEW extra \in Nat,
         NEW inword \in AllOnes, NEW s, s = extra * WordBits + inword,
         \A k \in Nat : WordOf(c, k) = DownWord(b, k, extra, inword)
  PROVE  Values(c) = Ahead(b, s)
<1> DEFINE S == Ahead(b, s)
           W == WordBits
<1>1. W \in Nat \ {0} /\ inword \in Nat /\ inword < W /\ extra * W \in Nat /\ s \in Nat
  BY Width DEF AllOnes
<1>2. S \in SUBSET Nat
  <2>1. \A t \in Values(b) : t \in Nat
    BY ValuesAre
  <2>2. \A t \in Values(b) : t >= s => t - s \in Nat
    BY <1>1, <2>1
  <2> QED
    BY <2>2 DEF Ahead
<1>3. ASSUME NEW k \in Nat, NEW x \in AllOnes
      PROVE  k * W + x \in S <=> k < c.arraysize /\ x \in c.array[k]
  <2> DEFINE v == k * W + x
             p == WordOf(b, k + extra)
             q == WordOf(b, k + extra + 1)
             r == W - inword
  <2>1. v \in Nat /\ x \in Nat /\ x < W
    BY <1>1, PositionAt DEF AllOnes
  <2>2. v \in Values(c) <=> x \in WordOf(c, k)
    BY HeldBy
  <2>3. p \in Word /\ q \in Word /\ r \in Nat /\ r = W - inword
    BY <1>1, WordOfIs
  <2>4. x \in WordOf(c, k) <=> x + inword \in p \/ x - r \in q
    <3>1. WordOf(c, k) = ShiftDown(p, inword) \cup ShiftUp(q, r)
      BY DEF DownWord
    <3> HIDE DEF p, q, r
    <3>2. x \in ShiftDown(p, inword) <=> x + inword \in p
      BY <1>1, <2>3, ShiftedBit
    <3>3. x \in ShiftUp(q, r) <=> x - r \in q
      BY <2>3, ShiftedBit
    <3> QED
      BY <3>1, <3>2, <3>3
  <2>5. \A y \in p \cup q : y \in Nat /\ y < W
    BY <1>1, <2>3 DEF Word, AllOnes
  <2> HIDE DEF p, q, r
  <2>6. CASE x + inword < W
    <3> DEFINE y == x + inword
               j == k + extra
               u == j * W + y
    <3>1. j \in Nat /\ y \in AllOnes /\ u \in Nat /\ u = j * W + y
      BY <1>1, <2>1, <2>6 DEF AllOnes
    <3>2. u = v + s
      <4>1. j * W = k * W + extra * W /\ k * W \in Nat
        BY <1>1
      <4> HIDE DEF W
      <4> QED
        BY <1>1, <2>1, <4>1 DEF W
    <3>3. IsAt(u, j, y) /\ IsBehind(u, v, s)
      BY <3>2 DEF IsAt, IsBehind
    <3> HIDE DEF v, u, y, j
    <3>4. v \in S <=> y \in WordOf(b, j)
      BY <1>1, <2>1, <3>1, <3>3, ToWord
    <3>5. ~(x - r \in q)
      BY <1>1, <2>1, <2>3, <2>5, <2>6
    <3>6. v \in S <=> x \in WordOf(c, k)
      BY <2>4, <3>4, <3>5 DEF y, j, p
    <3> QED
      BY <3>6, <2>2, BitAt DEF v, W
  <2>7. CASE ~(x + inword < W)
    <3> DEFINE y == x - r
               j == k + extra + 1
               u == j * W + y
    <3>1. j \in Nat /\ y \in AllOnes /\ u \in Nat /\ u = j * W + y
      <4>1. j \in Nat /\ y \in AllOnes
        BY <1>1, <2>1, <2>3, <2>7 DEF AllOnes
      <4> HIDE DEF j, y
      <4> QED
        BY <4>1, PositionAt DEF u
    <3>2. u = v + s
      <4>1. j * W = k * W + extra * W + W /\ k * W \in Nat
        BY <1>1
      <4> HIDE DEF W
      <4> QED
        BY <1>1, <2>1, <2>3, <4>1 DEF W
    <3>3. IsAt(u, j, y) /\ IsBehind(u, v, s)
      BY <3>2 DEF IsAt, IsBehind
    <3> HIDE DEF v, u, y, j
    <3>4. v \in S <=> y \in WordOf(b, j)
      BY <1>1, <2>1, <3>1, <3>3, ToWord
    <3>5. ~(x + inword \in p)
      BY <1>1, <2>1, <2>5, <2>7
    <3>6. v \in S <=> x \in WordOf(c, k)
      BY <2>4, <3>4, <3>5 DEF y, j, q
    <3> QED
      BY <3>6, <2>2, BitAt DEF v, W
  <2> QED
    BY <2>6, <2>7
<1> HIDE DEF S
<1>4. Values(c) = S
  BY <1>2, <1>3, ValuesBy
<1> QED
  BY <1>4 DEF S

\* What bitset_shift_left leaves when it has made its moves.
LeftSize(b, extra, inword) == b.arraysize + extra + (IF inword = 0 THEN 0 ELSE 1)
IsShift(s, extra, inword) == extra = s \div WordBits /\ inword = s % WordBits

\* The room made for a shift to the left keeps the words.
LEMMA LeftRoomIs ==
  ASSUME BitsetAssumption, NEW b \in Bitsets, NEW s \in Nat, NEW spare \in Word,
         NEW extra \in Nat, NEW inword \in AllOnes, IsShift(s, extra, inword),
         NEW r, r = LeftRoom(b, s, spare), NEW n, n = LeftSize(b, extra, inword)
  PROVE  n \in Nat /\ r \in Bitsets /\ r.arraysize = n /\ r.capacity >= n /\ HasWords(r, b)
<1>1. b.arraysize \in Nat /\ n \in Nat
  BY Parts DEF LeftSize
<1>2. CASE inword = 0
  <2>1. n = b.arraysize + extra
    BY <1>1, <1>2 DEF LeftSize
  <2>2. r = SizedTo(b, n, spare)
    BY <1>2, <2>1 DEF LeftRoom, SizedTo, IsShift
  <2> QED
    BY <1>1, <2>2, ResizedServed
<1>3. CASE inword # 0
  <2>1. n = b.arraysize + extra + 1
    BY <1>1, <1>3 DEF LeftSize
  <2>2. r = PaddedTo(b, n, spare)
    BY <1>3, <2>1 DEF LeftRoom, PaddedTo, IsShift
  <2> QED
    BY <1>1, <2>2, PaddedServed
<1> QED
  BY <1>2, <1>3

\* The words behind which an array is zero up to n.
Finished(room, a, extra) == Zeroed([room EXCEPT !.array = a], 0, extra)

\* The end of a shift to the left clears the words below.
LEMMA FinishedWords ==
  ASSUME NEW room \in Bitsets, NEW a \in [0..(room.capacity - 1) -> Word], NEW extra \in Nat,
         NEW c, c = Finished(room, a, extra)
  PROVE  /\ c \in Bitsets /\ c.arraysize = room.arraysize
         /\ \A k \in Nat : k < c.arraysize => c.array[k] = IF k < extra THEN {} ELSE a[k]
<1> DEFINE d == [room EXCEPT !.array = a]
           from == 0
<1>1. from \in Nat /\ c = Zeroed(d, from, extra)
  BY DEF Finished
<1>2. \A k \in Nat : from <= k
  OBVIOUS
<1>3. d \in Bitsets /\ d.arraysize = room.arraysize /\ d.capacity = room.capacity /\ d.array = a
  <2>1. d = [room EXCEPT !.array = a]
    OBVIOUS
  <2> HIDE DEF d
  <2> QED
    BY <2>1, WithWords
<1> HIDE DEF d, from
<1>4. /\ c \in Bitsets /\ c.arraysize = d.arraysize /\ c.capacity = d.capacity
      /\ Zeroes(c, d, from, extra)
  BY <1>1, <1>3, ZeroedWords
<1>5. room.capacity \in Nat /\ room.arraysize \in Nat /\ room.arraysize <= room.capacity
  BY Parts
<1>6. ASSUME NEW k \in Nat, k < c.arraysize
      PROVE  c.array[k] = IF k < extra THEN {} ELSE a[k]
  <2>1. k \in 0..(d.capacity - 1)
    BY <1>3, <1>4, <1>5, <1>6
  <2>2. c.array[k] = IF from <= k /\ k < extra THEN {} ELSE d.array[k]
    BY <1>4, <2>1 DEF Zeroes
  <2> QED
    BY <1>2, <1>3, <2>2
<1> QED
  BY <1>3, <1>4, <1>6

\* The words of b, shifted by whole words.
LEMMA LeftByWords ==
  ASSUME BitsetAssumption, NEW b \in Bitsets, NEW extra \in Nat, NEW room \in Bitsets,
         room.arraysize = b.arraysize + extra, HasWords(room, b), NEW inword, inword = 0,
         NEW c, c = Finished(room, LeftMoves(room.array, b.arraysize, extra, inword), extra)
  PROVE  c \in Bitsets /\ \A k \in Nat : WordOf(c, k) = UpWord(b, k, extra, inword)
<1> DEFINE n == b.arraysize
           m == room.capacity
           a == LeftMoves(room.array, n, extra, inword)
<1>1. /\ n \in Nat /\ m \in Nat /\ room.array \in [0..(m - 1) -> Word]
      /\ n + extra <= m /\ room.arraysize = n + extra
  BY Parts
<1>2. inword \in AllOnes /\ RoomLeft(n, extra, inword, m)
  <2>1. 0 \in AllOnes
    BY Width DEF AllOnes
  <2> QED
    BY <1>1, <2>1 DEF RoomLeft
<1>3. a = LeftMoves(room.array, n, extra, inword) /\ c = Finished(room, a, extra)
  OBVIOUS
<1> HIDE DEF a
<1>4. a \in [0..(m - 1) -> Word] /\ MovedLeft(a, room.array, m, LeftEnd(extra, inword), n + extra, extra, inword)
  <2> HIDE DEF n, m
  <2> QED
    BY <1>1, <1>2, <1>3, LeftMovesWords
<1>5. /\ c \in Bitsets /\ c.arraysize = room.arraysize
      /\ \A k \in Nat : k < c.arraysize => c.array[k] = IF k < extra THEN {} ELSE a[k]
  BY <1>3, <1>4, FinishedWords
<1>6. ASSUME NEW k \in Nat PROVE WordOf(c, k) = UpWord(b, k, extra, inword)
  <2>1. UpWord(b, k, extra, inword) = WordOf(b, k - extra)
    <3> DEFINE p == WordOf(b, k - extra)
               q == WordOf(b, k - extra - 1)
    <3>1. p \in Word /\ q \in Word
      BY WordOfIs
    <3>2. \A y \in p \cup q : y \in Nat /\ y < WordBits
      BY <3>1, Width DEF Word, AllOnes
    <3>3. WordBits - inword = WordBits
      BY Width
    <3> HIDE DEF p, q
    <3>4. ShiftUp(p, inword) = p
      BY <3>1, <3>2 DEF ShiftUp, Word
    <3>5. ShiftDown(q, WordBits - inword) = {}
      BY <3>2, <3>3, Width DEF ShiftDown
    <3> QED
      BY <3>4, <3>5 DEF UpWord, p, q
  <2>2. CASE k < extra
    <3>1. k - extra \notin Used(b)
      BY <2>2 DEF Used
    <3>2. WordOf(c, k) = {}
      BY <1>1, <1>5, <2>2 DEF WordOf, Used
    <3> QED
      BY <2>1, <3>1, <3>2 DEF WordOf
  <2>3. CASE ~(k < extra) /\ k < n + extra
    <3>1. k - extra \in Used(b) /\ k - extra \in Used(room) /\ k - extra < n /\ k \in 0..(m - 1) /\ extra <= k
      BY <1>1, <2>3 DEF Used
    <3>2. a[k] = room.array[k - extra]
      BY <1>4, <2>3, <3>1 DEF MovedLeft, LeftEnd, LeftWord
    <3>3. room.array[k - extra] = b.array[k - extra]
      BY <3>1 DEF HasWords
    <3>4. WordOf(c, k) = a[k]
      BY <1>1, <1>5, <2>3 DEF WordOf, Used
    <3> QED
      BY <2>1, <3>1, <3>2, <3>3, <3>4 DEF WordOf
  <2>4. CASE ~(k < n + extra)
    <3>1. k - extra \notin Used(b) /\ k \notin Used(c)
      BY <1>1, <1>5, <2>4 DEF Used
    <3> QED
      BY <2>1, <3>1 DEF WordOf
  <2> QED
    BY <1>1, <2>2, <2>3, <2>4
<1> QED
  BY <1>5, <1>6

\* And by bits, where the highest go to a word of their own.
Carried(a, n, extra, inword) ==
  [a EXCEPT ![n + extra] = ShiftDown(a[n - 1], WordBits - inword)]
LowestLast(a, extra, inword) == [a EXCEPT ![extra] = ShiftUp(a[0], inword)]

\* A shift to the left by a number that is not one of whole words.
LEMMA LeftByBits ==
  ASSUME BitsetAssumption, NEW b \in Bitsets, NEW extra \in Nat, NEW room \in Bitsets,
         room.arraysize = b.arraysize + extra + 1, HasWords(room, b), b.arraysize # 0,
         NEW inword \in AllOnes, inword # 0,
         NEW n, n = b.arraysize, NEW m, m = room.capacity, NEW old, old = room.array,
         NEW carried, carried = Carried(old, n, extra, inword),
         NEW moved, moved = LeftMoves(carried, n, extra, inword),
         NEW a, a = LowestLast(moved, extra, inword),
         NEW c, c = Finished(room, a, extra)
  PROVE  c \in Bitsets /\ \A k \in Nat : WordOf(c, k) = UpWord(b, k, extra, inword)
<1>1. /\ n \in Nat /\ m \in Nat /\ old \in [0..(m - 1) -> Word] /\ n # 0
      /\ n + extra < m /\ room.arraysize = n + extra + 1 /\ n + extra \in 0..(m - 1)
      /\ extra \in 0..(m - 1) /\ n - 1 \in 0..(m - 1)
  <2>1. /\ b.arraysize \in Nat /\ room.capacity \in Nat /\ room.arraysize <= room.capacity
        /\ room.array \in [0..(room.capacity - 1) -> Word]
    BY Parts
  <2> QED
    BY <2>1
<1>2. inword \in Nat /\ inword < WordBits /\ WordBits \in Nat /\ WordBits - inword \in Nat
  BY Width DEF AllOnes
<1>3. \A k \in Nat : k < n => old[k] = b.array[k] /\ k \in Used(b)
  BY <1>1 DEF HasWords, Used
<1>4. ShiftDown(old[n - 1], WordBits - inword) \in Word
  BY <1>1, <1>2, ShiftsAreWords
<1>5. carried \in [0..(m - 1) -> Word] /\ carried[n + extra] = ShiftDown(old[n - 1], WordBits - inword)
  BY <1>1, <1>4 DEF Carried
<1>6. \A k \in 0..(m - 1) : k # n + extra => carried[k] = old[k]
  BY <1>1 DEF Carried
<1>7. RoomLeft(n, extra, inword, m)
  BY <1>1 DEF RoomLeft
<1>8. moved \in [0..(m - 1) -> Word] /\ MovedLeft(moved, carried, m, LeftEnd(extra, inword), n + extra, extra, inword)
  BY <1>1, <1>5, <1>7, LeftMovesWords
<1>9. \A k \in 0..(m - 1) : moved[k] = IF extra + 1 <= k /\ k < n + extra
                                        THEN LeftWord(carried, k, extra, inword) ELSE carried[k]
  BY <1>8 DEF MovedLeft, LeftEnd
<1>10. moved[0] = old[0] /\ 0 \in 0..(m - 1)
  <2>1. 0 \in 0..(m - 1) /\ ~(extra + 1 <= 0) /\ 0 # n + extra
    BY <1>1
  <2> QED
    BY <1>6, <1>9, <2>1
<1>11. ShiftUp(moved[0], inword) \in Word
  BY <1>2, <1>8, <1>10, ShiftsAreWords
<1>12. a \in [0..(m - 1) -> Word] /\ a[extra] = ShiftUp(old[0], inword)
  BY <1>1, <1>8, <1>10, <1>11 DEF LowestLast
<1>13. \A k \in 0..(m - 1) : k # extra => a[k] = moved[k]
  BY <1>8 DEF LowestLast
<1>14. /\ c \in Bitsets /\ c.arraysize = room.arraysize
       /\ \A k \in Nat : k < c.arraysize => c.array[k] = IF k < extra THEN {} ELSE a[k]
  BY <1>12, FinishedWords
<1>15. \A t \in Nat : ShiftUp({}, t) = {} /\ ShiftDown({}, t) = {}
  BY DEF ShiftUp, ShiftDown
<1>16. \A k \in Int : ~(0 <= k /\ k < n) => WordOf(b, k) = {}
  BY <1>1 DEF WordOf, Used
<1>17. \A k \in Nat : k < n => WordOf(b, k) = old[k]
  BY <1>3 DEF WordOf
<1>18. ASSUME NEW k \in Nat PROVE WordOf(c, k) = UpWord(b, k, extra, inword)
  <2> DEFINE i == k - extra
             j == k - extra - 1
             p == WordOf(b, i)
             q == WordOf(b, j)
             w == ShiftUp(p, inword) \cup ShiftDown(q, WordBits - inword)
  <2>0. i \in Int /\ j \in Int /\ i = k - extra /\ j = k - extra - 1
    BY <1>1
  <2>1. UpWord(b, k, extra, inword) = w
    BY DEF UpWord
  <2>2. WordOf(c, k) = IF k < n + extra + 1 THEN (IF k < extra THEN {} ELSE a[k]) ELSE {}
    BY <1>1, <1>14 DEF WordOf, Used
  <2> HIDE DEF i, j
  <2>3. /\ ~(0 <= i /\ i < n) => p = {}
        /\ ~(0 <= j /\ j < n) => q = {}
    BY <1>16, <2>0
  <2>4. /\ i \in Nat /\ i < n => p = old[i]
        /\ j \in Nat /\ j < n => q = old[j]
    BY <1>17
  <2> HIDE DEF p, q
  <2>5. /\ p = {} => ShiftUp(p, inword) = {}
        /\ q = {} => ShiftDown(q, WordBits - inword) = {}
    BY <1>2, <1>15
  <2>6. CASE k < extra
    <3>1. ~(0 <= i) /\ ~(0 <= j)
      BY <1>1, <2>0, <2>6
    <3>2. WordOf(c, k) = {}
      BY <1>1, <2>2, <2>6
    <3> QED
      BY <2>1, <2>3, <2>5, <3>1, <3>2
  <2>7. CASE k = extra
    <3>1. i = 0 /\ ~(0 <= j) /\ i \in Nat /\ i < n
      BY <1>1, <2>0, <2>7
    <3>2. WordOf(c, k) = a[extra]
      BY <1>1, <2>2, <2>7
    <3>3. q = {} /\ p = old[0]
      BY <2>3, <2>4, <3>1
    <3> QED
      BY <1>12, <2>1, <2>5, <3>2, <3>3
  <2>8. CASE extra + 1 <= k /\ k < n + extra
    <3>1. i \in Nat /\ i < n /\ j \in Nat /\ j < n /\ k - 1 - extra = j
      BY <1>1, <2>0, <2>8
    <3>2. k \in 0..(m - 1) /\ k # extra
      BY <1>1, <2>8
    <3>3. carried[i] = old[i] /\ carried[j] = old[j]
      <4>1. i \in 0..(m - 1) /\ i # n + extra
        BY <1>1, <3>1
      <4>2. j \in 0..(m - 1) /\ j # n + extra
        BY <1>1, <3>1
      <4> QED
        BY <1>6, <4>1, <4>2
    <3>4. a[k] = LeftWord(carried, k, extra, inword)
      BY <1>9, <1>13, <2>8, <3>2
    <3>5. a[k] = ShiftUp(carried[i], inword) \cup ShiftDown(carried[j], WordBits - inword)
      BY <2>0, <3>1, <3>4 DEF LeftWord
    <3>6. WordOf(c, k) = a[k]
      BY <1>1, <2>2, <2>8
    <3> QED
      BY <2>1, <2>4, <3>1, <3>3, <3>5, <3>6
  <2>9. CASE k = n + extra
    <3>0. i = n /\ j = n - 1
      BY <1>1, <2>0, <2>9
    <3>1. ~(i < n) /\ j = n - 1 /\ j \in Nat /\ j < n
      BY <1>1, <3>0
    <3>2. k # extra /\ k \in 0..(m - 1) /\ ~(k < n + extra)
      BY <1>1, <2>9
    <3>3. a[k] = carried[n + extra]
      BY <1>9, <1>13, <2>9, <3>2
    <3>4. WordOf(c, k) = a[k]
      BY <1>1, <2>2, <2>9
    <3>5. p = {} /\ q = old[n - 1]
      BY <2>3, <2>4, <3>1
    <3> QED
      BY <1>5, <2>1, <2>5, <3>3, <3>4, <3>5
  <2>10. CASE n + extra < k
    <3>1. ~(i < n) /\ ~(j < n)
      BY <1>1, <2>0, <2>10
    <3>2. WordOf(c, k) = {}
      BY <1>1, <2>2, <2>10
    <3> QED
      BY <2>1, <2>3, <2>5, <3>1, <3>2
  <2> QED
    BY <1>1, <2>6, <2>7, <2>8, <2>9, <2>10
<1> QED
  BY <1>14, <1>18

\* bitset_shift_left moves every bit up and touches its own words only.
LEMMA ShiftedLeft ==
  ASSUME BitsetAssumption, NEW b \in Bitsets, NEW s \in Nat, NEW spare \in Word,
         b.arraysize # 0 \/ s % WordBits = 0, NEW c, c = bitset_shift_left(b, s, spare)
  PROVE  /\ c \in Bitsets /\ Values(c) = Behind(b, s)
         /\ TouchedLeft(b.arraysize, s \div WordBits, s % WordBits)
              \subseteq 0..(LeftRoom(b, s, spare).capacity - 1)
<1> DEFINE extra == s \div WordBits
           inword == s % WordBits
           n == b.arraysize
           room == LeftRoom(b, s, spare)
           size == LeftSize(b, extra, inword)
<1>1. extra \in Nat /\ inword \in AllOnes /\ s = extra * WordBits + inword /\ n \in Nat
  BY PositionOf, Parts
<1>2. n # 0 \/ inword = 0
  OBVIOUS
<1>3. IsShift(s, extra, inword)
  BY DEF IsShift
<1>4. c = Finished(room, IF inword = 0 THEN LeftMoves(room.array, n, extra, inword)
                         ELSE LowestLast(LeftMoves(Carried(room.array, n, extra, inword), n, extra, inword),
                                         extra, inword), extra)
  BY DEF bitset_shift_left, Finished, LowestLast, Carried
<1> HIDE DEF extra, inword
<1>5. room \in Bitsets /\ room.arraysize = size /\ room.capacity >= size /\ HasWords(room, b)
  <2>1. room = LeftRoom(b, s, spare) /\ size = LeftSize(b, extra, inword)
    OBVIOUS
  <2> HIDE DEF room, size
  <2> QED
    BY <1>1, <1>3, <2>1, LeftRoomIs
<1>6. size = IF inword = 0 THEN n + extra ELSE n + extra + 1
  BY <1>1 DEF LeftSize
<1>7. room.capacity \in Nat
  BY <1>5, Parts
<1> HIDE DEF room, size
<1>8. TouchedLeft(n, extra, inword) \subseteq 0..(room.capacity - 1)
  <2>1. CASE inword = 0
    BY <1>1, <1>5, <1>6, <1>7, <2>1 DEF TouchedLeft
  <2>2. CASE inword # 0
    BY <1>1, <1>2, <1>5, <1>6, <1>7, <2>2 DEF TouchedLeft
  <2> QED
    BY <2>1, <2>2
<1>9. c \in Bitsets /\ \A k \in Nat : WordOf(c, k) = UpWord(b, k, extra, inword)
  <2>1. CASE inword = 0
    <3>1. c = Finished(room, LeftMoves(room.array, b.arraysize, extra, inword), extra)
      BY <1>4, <2>1
    <3>2. room.arraysize = b.arraysize + extra
      BY <1>5, <1>6, <2>1
    <3> QED
      BY <1>1, <1>5, <2>1, <3>1, <3>2, LeftByWords
  <2>2. CASE inword # 0
    <3> DEFINE m == room.capacity
               old == room.array
               carried == Carried(old, n, extra, inword)
               moved == LeftMoves(carried, n, extra, inword)
               a == LowestLast(moved, extra, inword)
    <3>1. c = Finished(room, a, extra)
      BY <1>4, <2>2
    <3>2. room.arraysize = b.arraysize + extra + 1 /\ b.arraysize # 0
      BY <1>2, <1>5, <1>6, <2>2
    <3>3. n = b.arraysize /\ m = room.capacity /\ old = room.array
      OBVIOUS
    <3>4. carried = Carried(old, n, extra, inword) /\ moved = LeftMoves(carried, n, extra, inword)
          /\ a = LowestLast(moved, extra, inword)
      OBVIOUS
    <3> HIDE DEF n, m, old, carried, moved, a
    <3> QED
      BY <1>1, <1>5, <2>2, <3>1, <3>2, <3>3, <3>4, LeftByBits
  <2> QED
    BY <2>1, <2>2
<1>10. Values(c) = Behind(b, s)
  BY <1>1, <1>9, UpShifted
<1> QED
  BY <1>8, <1>9, <1>10 DEF extra, inword, room

\* A shift to the right by no more than all words.
LEMMA RightRoomIs ==
  ASSUME BitsetAssumption, NEW n \in Nat, NEW m \in Nat, n <= m, NEW s \in Nat, s <= WordBits * n,
         NEW extra \in Nat, NEW inword \in AllOnes, IsShift(s, extra, inword)
  PROVE  RoomRight(n, extra, inword, m)
<1> DEFINE zero == 0
           v == n * WordBits + zero
<1>1. zero \in AllOnes /\ v = WordBits * n /\ n * WordBits = WordBits * n /\ WordBits * n \in Nat
  BY Width DEF AllOnes
<1>2. v \div WordBits = n /\ v % WordBits = zero
  <2> HIDE DEF zero
  <2> QED
    BY <1>1, PositionAt
<1>3. CASE s = WordBits * n
  <2>1. extra = n /\ inword = 0
    <3> HIDE DEF v
    <3> QED
      BY <1>1, <1>2, <1>3 DEF IsShift
  <2> QED
    BY <2>1 DEF RoomRight
<1>4. CASE s # WordBits * n
  <2>1. s < n * WordBits
    BY <1>1, <1>4
  <2>2. extra < n
    BY <2>1, Below DEF IsShift
  <2> QED
    BY <2>2 DEF RoomRight
<1> QED
  BY <1>3, <1>4

\* What bitset_shift_right makes of the words in use.
HighestLast(moved, n, extra, inword) ==
  IF inword = 0 THEN moved
  ELSE [moved EXCEPT ![n - extra - 1] = ShiftDown(moved[n - 1], inword)]

\* The words that a shift to the right leaves.
LEMMA RightWords ==
  ASSUME BitsetAssumption, NEW b \in Bitsets, NEW extra \in Nat, NEW inword \in AllOnes,
         NEW n, n = b.arraysize, NEW m, m = b.capacity, RoomRight(n, extra, inword, m),
         NEW old, old = b.array,
         NEW moved, moved = RightMoves(old, n, extra, inword),
         NEW a, a = HighestLast(moved, n, extra, inword)
  PROVE  /\ a \in [0..(m - 1) -> Word]
         /\ \A k \in Nat : k < n - extra => a[k] = DownWord(b, k, extra, inword)
<1>1. n \in Nat /\ m \in Nat /\ old \in [0..(m - 1) -> Word] /\ n <= m /\ extra <= n
  BY Parts DEF RoomRight
<1>2. inword \in Nat /\ inword < WordBits /\ WordBits \in Nat /\ WordBits - inword \in Nat
  BY Width DEF AllOnes
<1>3. moved \in [0..(m - 1) -> Word] /\ MovedRight(moved, old, m, RightEnd(n, extra, inword), extra, inword)
  BY <1>1, RightMovesWords
<1>4. \A k \in Nat : k < n => WordOf(b, k) = old[k]
  BY <1>1 DEF WordOf, Used
<1>5. \A k \in Nat : ~(k < n) => WordOf(b, k) = {}
  BY <1>1 DEF WordOf, Used
<1>6. CASE inword = 0
  <2>1. a = moved
    BY <1>6 DEF HighestLast
  <2>2. \A k \in 0..(m - 1) : k < n - extra => a[k] = old[k + extra]
    BY <1>3, <1>6, <2>1 DEF MovedRight, RightEnd, RightWord
  <2>3. ASSUME NEW k \in Nat, k < n - extra PROVE a[k] = DownWord(b, k, extra, inword)
    <3> DEFINE p == WordOf(b, k + extra)
               q == WordOf(b, k + extra + 1)
    <3>1. k \in 0..(m - 1) /\ k + extra \in Nat /\ k + extra < n
      BY <1>1, <2>3
    <3>2. p = a[k]
      BY <1>4, <2>2, <2>3, <3>1
    <3>3. p \in Word /\ q \in Word
      BY WordOfIs
    <3>4. \A y \in p \cup q : y \in Nat /\ y < WordBits
      BY <3>3, Width DEF Word, AllOnes
    <3>5. DownWord(b, k, extra, inword) = ShiftDown(p, inword) \cup ShiftUp(q, WordBits - inword)
      BY DEF DownWord
    <3>6. WordBits - inword = WordBits
      BY <1>2, <1>6
    <3> HIDE DEF p, q
    <3>7. ShiftDown(p, inword) = p
      BY <1>6, <3>4 DEF ShiftDown
    <3>8. ShiftUp(q, WordBits - inword) = {}
      BY <1>2, <3>4, <3>6 DEF ShiftUp, AllOnes
    <3> QED
      BY <3>2, <3>5, <3>7, <3>8
  <2> QED
    BY <1>3, <2>1, <2>3
<1>7. CASE inword # 0
  <2> DEFINE t == n - extra - 1
  <2>1. t \in Nat /\ t < n /\ t \in 0..(m - 1) /\ t + extra = n - 1 /\ n - 1 \in 0..(m - 1) /\ t + extra + 1 = n
    BY <1>1, <1>7 DEF RoomRight
  <2>2. t <= n - 1 /\ RightEnd(n, extra, inword) = t
    BY <1>1, <1>7 DEF RightEnd
  <2>3. a = [moved EXCEPT ![t] = ShiftDown(moved[n - 1], inword)]
    BY <1>7 DEF HighestLast
  <2>4. \A k \in Nat : k < n - extra => k < t \/ k = t
    BY <1>1
  <2> HIDE DEF t
  <2>5. moved[n - 1] = old[n - 1]
    <3>1. ~(n - 1 < t)
      BY <1>1, <2>1, <2>2
    <3> QED
      BY <1>3, <2>1, <2>2, <3>1 DEF MovedRight
  <2>6. ShiftDown(old[n - 1], inword) \in Word
    BY <1>1, <1>2, <2>1, ShiftsAreWords
  <2>7. a \in [0..(m - 1) -> Word] /\ a[t] = ShiftDown(old[n - 1], inword)
    <3> DEFINE w == ShiftDown(old[n - 1], inword)
    <3>1. a = [moved EXCEPT ![t] = w] /\ w \in Word
      BY <2>3, <2>5, <2>6
    <3> HIDE DEF w
    <3> QED
      BY <1>3, <2>1, <3>1 DEF w
  <2>8. \A k \in 0..(m - 1) : k < t => a[k] = RightWord(old, k, extra, inword)
    <3>1. \A k \in 0..(m - 1) : k < t => k # t
      BY <2>1
    <3> QED
      BY <1>3, <2>2, <2>3, <3>1 DEF MovedRight
  <2>9. ASSUME NEW k \in Nat, k < n - extra PROVE a[k] = DownWord(b, k, extra, inword)
    <3>1. CASE k < t
      <4>1. k \in 0..(m - 1) /\ k + extra \in Nat /\ k + extra < n
            /\ k + extra + 1 \in Nat /\ k + extra + 1 < n
        BY <1>1, <2>1, <3>1
      <4>2. a[k] = RightWord(old, k, extra, inword)
        BY <2>8, <3>1, <4>1
      <4>3. WordOf(b, k + extra) = old[k + extra] /\ WordOf(b, k + extra + 1) = old[k + extra + 1]
        BY <1>4, <4>1
      <4> QED
        BY <1>7, <4>2, <4>3 DEF RightWord, DownWord
    <3>2. CASE k = t
      <4>1. k + extra = n - 1 /\ n - 1 \in Nat /\ n - 1 < n /\ k + extra + 1 = n /\ ~(n < n)
        BY <1>1, <2>1, <3>2
      <4>2. WordOf(b, k + extra) = old[n - 1] /\ WordOf(b, k + extra + 1) = {}
        BY <1>1, <1>4, <1>5, <4>1
      <4>3. ShiftUp({}, WordBits - inword) = {}
        BY DEF ShiftUp
      <4> QED
        BY <2>7, <3>2, <4>2, <4>3 DEF DownWord
    <3> QED
      BY <2>4, <2>9, <3>1, <3>2
  <2> QED
    BY <2>7, <2>9
<1> QED
  BY <1>6, <1>7

\* bitset_shift_right moves every bit down and touches its own words only.
LEMMA ShiftedRight ==
  ASSUME BitsetAssumption, NEW b \in Bitsets, NEW s \in Nat, s <= WordBits * b.arraysize,
         NEW c, c = bitset_shift_right(b, s)
  PROVE  /\ c \in Bitsets /\ Values(c) = Ahead(b, s)
         /\ TouchedRight(b.arraysize, s \div WordBits, s % WordBits) \subseteq 0..(b.capacity - 1)
<1> DEFINE extra == s \div WordBits
           inword == s % WordBits
           n == b.arraysize
           m == b.capacity
           old == b.array
           moved == RightMoves(old, n, extra, inword)
           a == HighestLast(moved, n, extra, inword)
           d == [b EXCEPT !.array = a]
           size == n - extra
           none == {}
<1>1. extra \in Nat /\ inword \in AllOnes /\ s = extra * WordBits + inword
      /\ n \in Nat /\ m \in Nat /\ n <= m
  BY PositionOf, Parts
<1>2. RoomRight(n, extra, inword, m)
  <2>1. s <= WordBits * n /\ IsShift(s, extra, inword)
    BY DEF IsShift
  <2> HIDE DEF extra, inword, n, m
  <2> QED
    BY <1>1, <2>1, RightRoomIs
<1>3. c = SizedTo(d, size, none)
  BY DEF bitset_shift_right, SizedTo, HighestLast
<1>4. none \in Word
  BY DEF Word
<1>5. a = HighestLast(moved, n, extra, inword)
  OBVIOUS
<1>6. n = b.arraysize /\ m = b.capacity /\ old = b.array /\ moved = RightMoves(old, n, extra, inword)
      /\ d = [b EXCEPT !.array = a] /\ size = n - extra
  OBVIOUS
<1> HIDE DEF extra, inword, n, m, old, moved, a, d, size, none
<1>7. /\ a \in [0..(m - 1) -> Word]
      /\ \A k \in Nat : k < n - extra => a[k] = DownWord(b, k, extra, inword)
  BY <1>1, <1>2, <1>5, <1>6, RightWords
<1>8. d \in Bitsets /\ d.arraysize = n /\ d.array = a
  BY <1>6, <1>7, WithWords
<1>9. size \in Nat /\ size <= n /\ extra <= n
  BY <1>1, <1>2, <1>6 DEF RoomRight
<1>10. c \in Bitsets /\ c.arraysize = size /\ HasWords(c, d)
  BY <1>3, <1>4, <1>8, <1>9, ResizedServed
<1>11. ASSUME NEW k \in Nat PROVE WordOf(c, k) = DownWord(b, k, extra, inword)
  <2>1. CASE k < size
    <3>1. k \in Used(c) /\ k < n
      BY <1>1, <1>9, <1>10, <2>1 DEF Used
    <3>2. WordOf(c, k) = a[k]
      BY <1>8, <1>10, <3>1 DEF WordOf, HasWords
    <3> QED
      BY <1>6, <1>7, <2>1, <3>2
  <2>2. CASE ~(k < size)
    <3>1. k \notin Used(c) /\ k + extra \notin Used(b) /\ k + extra + 1 \notin Used(b)
      BY <1>1, <1>6, <1>9, <1>10, <2>2 DEF Used
    <3>2. \A t : ShiftUp({}, t) = {} /\ ShiftDown({}, t) = {}
      BY DEF ShiftUp, ShiftDown
    <3> QED
      BY <3>1, <3>2 DEF WordOf, DownWord
  <2> QED
    BY <2>1, <2>2
<1>12. Values(c) = Ahead(b, s)
  BY <1>1, <1>10, <1>11, DownShifted
<1>13. TouchedRight(n, extra, inword) \subseteq 0..(m - 1)
  <2>1. CASE inword = 0
    BY <1>1, <1>9, <2>1 DEF TouchedRight
  <2>2. CASE inword # 0
    <3>1. extra < n
      BY <1>2, <2>2 DEF RoomRight
    <3> QED
      BY <1>1, <2>2, <3>1 DEF TouchedRight
  <2> QED
    BY <2>1, <2>2
<1> QED
  BY <1>6, <1>10, <1>12, <1>13 DEF extra, inword

-----------------------------------------------------------------------------
(* The steps.                                                              *)

\* The bitset is well-formed and holds the values it is to hold: the
\* inductive invariant, as long as no access has left the buffer.
Holding == bitset \in Bitsets /\ Values(bitset) = members
IInv == memory = "sound" => Holding

\* What a step from there is to lead to.
Kept == IInv' /\ (Unusual = {} => memory' = "sound")

\* The invariant holds at first, and memory is sound.
LEMMA StartHolds ==
  ASSUME BitsetAssumption, Init
  PROVE  IInv /\ memory = "sound"
BY CreatedEmpty DEF Init, IInv, Holding

\* A call with the effect it documents keeps the invariant.
LEMMA BecomesHolds ==
  ASSUME memory = "sound", NEW b \in Bitsets, NEW m, Values(b) = m, Becomes(b, m)
  PROVE  Kept
<1>1. bitset' = b /\ members' = m /\ memory' = "sound"
  BY DEF Becomes
<1>2. Holding'
  BY <1>1 DEF Holding
<1> QED
  BY <1>1, <1>2 DEF Kept, IInv

\* bitset_trim keeps the bits.
LEMMA TrimStep ==
  ASSUME BitsetAssumption, memory = "sound", Holding, Trim
  PROVE  Kept
<1>1. CASE TrimmedSize(bitset) = 0 /\ bitset.capacity # 0 /\ "trim_empty" \in Unusual
  <2>1. memory' = "freed" /\ Unusual # {}
    BY <1>1 DEF Trim
  <2> QED
    BY <2>1 DEF Kept, IInv
<1>2. CASE ~(TrimmedSize(bitset) = 0 /\ bitset.capacity # 0 /\ "trim_empty" \in Unusual)
  <2> DEFINE c == bitset_trim(bitset)
  <2>1. Becomes(c, members) /\ bitset \in Bitsets /\ Values(bitset) = members
    BY <1>2 DEF Trim, Holding
  <2>2. c = bitset_trim(bitset)
    OBVIOUS
  <2> HIDE DEF c
  <2>3. c \in Bitsets /\ Values(c) = members
    BY <2>1, <2>2, TrimKeeps
  <2> QED
    BY <2>1, <2>3, BecomesHolds
<1> QED
  BY <1>1, <1>2

\* A shift that does not leave the buffer holds what it is to hold; one that
\* leaves it has a name in Unusual.
LEMMA ShiftLeftStep ==
  ASSUME BitsetAssumption, memory = "sound", Holding, NEW s \in Nat, NEW spare \in Word,
         ShiftLeft(s, spare)
  PROVE  Kept
<1> DEFINE extra == s \div WordBits
           inword == s % WordBits
           touched == TouchedLeft(bitset.arraysize, extra, inword)
           buffer == 0..(LeftRoom(bitset, s, spare).capacity - 1)
           c == bitset_shift_left(bitset, s, spare)
<1>1. bitset \in Bitsets /\ Values(bitset) = members
  BY DEF Holding
<1>2. /\ bitset.arraysize > 0 \/ inword = 0 \/ "left_empty" \in Unusual
      /\ IF touched \subseteq buffer THEN Becomes(c, {v + s : v \in members})
         ELSE memory' = "outside"
  BY DEF ShiftLeft
<1>3. c = bitset_shift_left(bitset, s, spare)
  OBVIOUS
<1>4. bitset.arraysize \in Nat
  BY <1>1, Parts
<1>5. touched = TouchedLeft(bitset.arraysize, extra, inword) /\ \A k \in buffer : k >= 0
  OBVIOUS
<1> HIDE DEF c
<1>6. CASE bitset.arraysize # 0 \/ inword = 0
  <2>1. c \in Bitsets /\ Values(c) = Behind(bitset, s) /\ touched \subseteq buffer
    BY <1>1, <1>3, <1>6, ShiftedLeft
  <2> HIDE DEF touched, buffer
  <2>2. Becomes(c, {v + s : v \in members})
    BY <1>2, <2>1
  <2>3. Values(c) = {v + s : v \in members}
    BY <1>1, <2>1 DEF Behind
  <2> QED
    BY <2>1, <2>2, <2>3, BecomesHolds
<1>7. CASE ~(bitset.arraysize # 0 \/ inword = 0)
  <2>1. Unusual # {}
    BY <1>2, <1>7
  <2>2. -1 \in touched /\ -1 \notin buffer
    BY <1>5, <1>7 DEF TouchedLeft
  <2> HIDE DEF touched, buffer
  <2>3. memory' = "outside"
    BY <1>2, <2>2
  <2> QED
    BY <2>1, <2>3 DEF Kept, IInv
<1> QED
  BY <1>6, <1>7

\* A shift to the right beyond the size leaves the array.
LEMMA BeyondLeaves ==
  ASSUME BitsetAssumption, NEW n \in Nat, NEW s \in Nat, ~(s <= WordBits * n)
  PROVE  \E k \in TouchedRight(n, s \div WordBits, s % WordBits) : k < 0
<1> DEFINE extra == s \div WordBits
           inword == s % WordBits
           W == WordBits
<1>1. W \in Nat \ {0} /\ extra \in Nat /\ inword \in Nat /\ s = extra * W + inword
  BY PositionOf, Width DEF AllOnes
<1>2. n * W = W * n /\ n * W \in Nat
  BY <1>1
<1>3. ~(extra < n)
  <2>1. ~(s < n * W)
    BY <1>2
  <2> QED
    BY <2>1, Below
<1> HIDE DEF extra, inword
<1>4. CASE inword = 0
  <2>1. extra # n
    BY <1>1, <1>2, <1>4
  <2>2. n < extra
    BY <1>1, <1>3, <2>1
  <2> QED
    BY <1>4, <2>2 DEF TouchedRight, extra, inword
<1>5. CASE inword # 0
  <2>1. n - extra - 1 < 0
    BY <1>1, <1>3
  <2> QED
    BY <1>5, <2>1 DEF TouchedRight, extra, inword
<1> QED
  BY <1>4, <1>5

\* A shift to the right keeps the invariant, or leaves the array.
LEMMA ShiftRightStep ==
  ASSUME BitsetAssumption, memory = "sound", Holding, NEW s \in Nat, ShiftRight(s)
  PROVE  Kept
<1> DEFINE touched == TouchedRight(bitset.arraysize, s \div WordBits, s % WordBits)
           buffer == 0..(bitset.capacity - 1)
           c == bitset_shift_right(bitset, s)
<1>1. bitset \in Bitsets /\ Values(bitset) = members
  BY DEF Holding
<1>2. /\ s <= WordBits * bitset.arraysize \/ Unusual # {}
      /\ IF touched \subseteq buffer THEN Becomes(c, {v - s : v \in {m \in members : m >= s}})
         ELSE memory' = "outside"
  BY DEF ShiftRight
<1>3. c = bitset_shift_right(bitset, s)
  OBVIOUS
<1>4. bitset.arraysize \in Nat
  BY <1>1, Parts
<1>5. \A k \in buffer : ~(k < 0)
  OBVIOUS
<1> HIDE DEF c
<1>6. CASE s <= WordBits * bitset.arraysize
  <2>1. c \in Bitsets /\ Values(c) = Ahead(bitset, s) /\ touched \subseteq buffer
    BY <1>1, <1>3, <1>6, ShiftedRight
  <2> HIDE DEF touched, buffer
  <2>2. Becomes(c, {v - s : v \in {m \in members : m >= s}})
    BY <1>2, <2>1
  <2>3. Values(c) = {v - s : v \in {m \in members : m >= s}}
    BY <1>1, <2>1 DEF Ahead
  <2> QED
    BY <2>1, <2>2, <2>3, BecomesHolds
<1>7. CASE ~(s <= WordBits * bitset.arraysize)
  <2>1. Unusual # {}
    BY <1>2, <1>7
  <2>2. \E k \in touched : k < 0
    BY <1>4, <1>7, BeyondLeaves
  <2> HIDE DEF touched, buffer
  <2>3. memory' = "outside"
    BY <1>2, <1>5, <2>2
  <2> QED
    BY <2>1, <2>3 DEF Kept, IInv
<1> QED
  BY <1>6, <1>7

\* The calls that grow, cut or write single values.
LEMMA PointSteps ==
  ASSUME BitsetAssumption, memory = "sound", Holding, NEW spare \in Word, NEW ok \in BOOLEAN,
         \/ \E n \in 0..MaxWords : Grow(n, spare, ok) \/ Resize(n, spare, ok)
         \/ \E i \in Positions : Set(i, spare, ok)
         \/ \E i \in Positions, flag \in BOOLEAN : SetToValue(i, flag, spare, ok)
  PROVE  Kept
<1>1. bitset \in Bitsets /\ Values(bitset) = members
  BY DEF Holding
<1>2. ASSUME NEW n \in 0..MaxWords, Grow(n, spare, ok) PROVE Kept
  <2> DEFINE c == bitset_grow(bitset, n, spare, ok)
  <2>1. c = bitset_grow(bitset, n, spare, ok) /\ n \in Nat /\ Becomes(c, members)
    BY <1>2 DEF Grow
  <2> HIDE DEF c
  <2>2. c \in Bitsets /\ Values(c) = members
    BY <1>1, <2>1, GrowKeeps
  <2> QED
    BY <2>1, <2>2, BecomesHolds
<1>3. ASSUME NEW n \in 0..MaxWords, Resize(n, spare, ok) PROVE Kept
  <2> DEFINE c == bitset_resize(bitset, n, TRUE, spare, ok)
             m == {v \in members : v < n * WordBits}
  <2>1. c = bitset_resize(bitset, n, TRUE, spare, ok) /\ n \in Nat
    OBVIOUS
  <2>2. Becomes(c, m)
    BY <1>3 DEF Resize
  <2> HIDE DEF c
  <2>3. c \in Bitsets /\ Values(c) = m
    BY <1>1, <2>1, ResizeCuts
  <2> HIDE DEF m
  <2> QED
    BY <2>2, <2>3, BecomesHolds
<1>4. ASSUME NEW i \in Positions, Set(i, spare, ok) PROVE Kept
  <2> DEFINE c == bitset_set(bitset, i, spare, ok)
             m == IF i \div WordBits >= bitset.arraysize /\ Refused(bitset, i \div WordBits + 1, ok)
                  THEN members ELSE members \cup {i}
  <2>1. c = bitset_set(bitset, i, spare, ok) /\ i \in Nat /\ Becomes(c, m)
    BY <1>4 DEF Set, Positions
  <2> HIDE DEF c
  <2>2. c \in Bitsets /\ Values(c) = m
    BY <1>1, <2>1, SetAdds
  <2> HIDE DEF m
  <2> QED
    BY <2>1, <2>2, BecomesHolds
<1>5. ASSUME NEW i \in Positions, NEW flag \in BOOLEAN, SetToValue(i, flag, spare, ok) PROVE Kept
  <2> DEFINE c == bitset_set_to_value(bitset, i, flag, spare, ok)
             m == IF i \div WordBits >= bitset.arraysize /\ Refused(bitset, i \div WordBits + 1, ok)
                  THEN members ELSE IF flag THEN members \cup {i} ELSE members \ {i}
  <2>1. c = bitset_set_to_value(bitset, i, flag, spare, ok) /\ i \in Nat /\ Becomes(c, m)
    BY <1>5 DEF SetToValue, Positions
  <2> HIDE DEF c
  <2>2. c \in Bitsets /\ Values(c) = m
    BY <1>1, <2>1, SetToValueSets
  <2> HIDE DEF m
  <2> QED
    BY <2>1, <2>2, BecomesHolds
<1> QED
  BY <1>2, <1>3, <1>4, <1>5

\* The operations in place.
LEMMA InplaceSteps ==
  ASSUME BitsetAssumption, memory = "sound", Holding, NEW o \in Operands,
         \/ InplaceIntersection(o) \/ InplaceDifference(o)
         \/ \E spare \in Word, ok \in BOOLEAN :
              InplaceUnion(o, spare, ok) \/ InplaceSymmetricDifference(o, spare, ok)
  PROVE  Kept
<1>1. bitset \in Bitsets /\ Values(bitset) = members /\ o \in Bitsets
  BY OperandsAre DEF Holding
<1>2. CASE InplaceIntersection(o)
  <2> DEFINE c == bitset_inplace_intersection(bitset, o)
  <2>1. c = bitset_inplace_intersection(bitset, o) /\ Becomes(c, members \cap Values(o))
    BY <1>2 DEF InplaceIntersection
  <2> HIDE DEF c
  <2>2. c \in Bitsets /\ Values(c) = members \cap Values(o)
    BY <1>1, <2>1, IntersectionInplace
  <2> QED
    BY <2>1, <2>2, BecomesHolds
<1>3. CASE InplaceDifference(o)
  <2> DEFINE c == bitset_inplace_difference(bitset, o)
  <2>1. c = bitset_inplace_difference(bitset, o) /\ Becomes(c, members \ Values(o))
    BY <1>3 DEF InplaceDifference
  <2> HIDE DEF c
  <2>2. c \in Bitsets /\ Values(c) = members \ Values(o)
    BY <1>1, <2>1, DifferenceInplace
  <2> QED
    BY <2>1, <2>2, BecomesHolds
<1>4. ASSUME NEW spare \in Word, NEW ok \in BOOLEAN, InplaceUnion(o, spare, ok) PROVE Kept
  <2> DEFINE c == bitset_inplace_union(bitset, o, spare, ok)
             R == Reached(bitset, o, ok)
  <2>1. Becomes(c, members \cup R)
    BY <1>4 DEF InplaceUnion, Reached
  <2>2. c \in Bitsets /\ Values(c) = members \cup R
    <3>1. c = bitset_inplace_union(bitset, o, spare, ok)
      OBVIOUS
    <3> HIDE DEF c, R
    <3>2. c \in Bitsets /\ Values(c) = Joined(bitset, o, ok)
      BY <1>1, <3>1, UnionInplace
    <3> QED
      BY <1>1, <3>2 DEF Joined, R
  <2> HIDE DEF c, R
  <2> QED
    BY <2>1, <2>2, BecomesHolds
<1>5. ASSUME NEW spare \in Word, NEW ok \in BOOLEAN, InplaceSymmetricDifference(o, spare, ok)
      PROVE  Kept
  <2> DEFINE c == bitset_inplace_symmetric_difference(bitset, o, spare, ok)
             R == Reached(bitset, o, ok)
  <2>1. Becomes(c, SymDiff(members, R))
    BY <1>5 DEF InplaceSymmetricDifference, Reached
  <2>2. c \in Bitsets /\ Values(c) = SymDiff(members, R)
    <3>1. c = bitset_inplace_symmetric_difference(bitset, o, spare, ok)
      OBVIOUS
    <3> HIDE DEF c
    <3> QED
      BY <1>1, <3>1, SymmetricDifferenceInplace
  <2> HIDE DEF c, R
  <2> QED
    BY <2>1, <2>2, BecomesHolds
<1> QED
  BY <1>2, <1>3, <1>4, <1>5

\* The others.
LEMMA WholeSteps ==
  ASSUME BitsetAssumption, memory = "sound", Holding,
         \/ \E size \in 0..(WordBits * MaxWords) : Create(size)
         \/ Copy \/ Clear \/ Fill
  PROVE  Kept
<1>1. bitset \in Bitsets /\ Values(bitset) = members
  BY DEF Holding
<1>2. ASSUME NEW size \in 0..(WordBits * MaxWords), Create(size) PROVE Kept
  <2> DEFINE c == bitset_create_with_capacity(size)
  <2>1. c = bitset_create_with_capacity(size) /\ size \in Nat /\ Becomes(c, {})
    BY <1>2 DEF Create
  <2> HIDE DEF c
  <2>2. c \in Bitsets /\ Values(c) = {}
    BY <2>1, Created
  <2> QED
    BY <2>1, <2>2, BecomesHolds
<1>3. CASE Copy
  <2> DEFINE c == bitset_copy(bitset)
  <2>1. c = bitset_copy(bitset) /\ Becomes(c, members)
    BY <1>3 DEF Copy
  <2> HIDE DEF c
  <2>2. c \in Bitsets /\ Values(c) = members
    BY <1>1, <2>1, Copied
  <2> QED
    BY <2>1, <2>2, BecomesHolds
<1>4. CASE Clear
  <2> DEFINE c == bitset_clear(bitset)
  <2>1. c = bitset_clear(bitset) /\ Becomes(c, {})
    BY <1>4 DEF Clear
  <2> HIDE DEF c
  <2>2. c \in Bitsets /\ Values(c) = {}
    BY <1>1, <2>1, ClearedAll
  <2> QED
    BY <2>1, <2>2, BecomesHolds
<1>5. CASE Fill
  <2> DEFINE c == bitset_fill(bitset)
             m == 0..(WordBits * bitset.arraysize - 1)
  <2>1. c = bitset_fill(bitset) /\ Becomes(c, m)
    BY <1>5 DEF Fill
  <2> HIDE DEF c
  <2>2. c \in Bitsets /\ Values(c) = m
    BY <1>1, <2>1, FilledAll
  <2> HIDE DEF m
  <2> QED
    BY <2>1, <2>2, BecomesHolds
<1> QED
  BY <1>2, <1>3, <1>4, <1>5

\* Every step keeps the invariant while memory is sound.
LEMMA StepKeeps ==
  ASSUME BitsetAssumption, memory = "sound", IInv, Next
  PROVE  Kept
<1>1. Holding
  BY DEF IInv
<1>2. Spares \subseteq Word
  BY DEF Spares, Word
<1>3. \A s \in 0..(WordBits * MaxWords) : s \in Nat
  OBVIOUS
<1>4. ASSUME \E size \in 0..(WordBits * MaxWords) : Create(size) PROVE Kept
  BY <1>1, <1>4, WholeSteps
<1>5. ASSUME Copy \/ Clear \/ Fill PROVE Kept
  BY <1>1, <1>5, WholeSteps
<1>6. ASSUME Trim PROVE Kept
  BY <1>1, <1>6, TrimStep
<1>7. ASSUME NEW s \in 0..(WordBits * MaxWords), ShiftRight(s) PROVE Kept
  BY <1>1, <1>3, <1>7, ShiftRightStep
<1>8. ASSUME NEW o \in Operands, InplaceIntersection(o) \/ InplaceDifference(o) PROVE Kept
  BY <1>1, <1>8, InplaceSteps
<1>9. ASSUME NEW spare \in Spares, NEW s \in 0..(WordBits * MaxWords), ShiftLeft(s, spare) PROVE Kept
  BY <1>1, <1>2, <1>3, <1>9, ShiftLeftStep
<1>10. ASSUME NEW spare \in Spares, NEW ok \in BOOLEAN,
              \/ \E n \in 0..MaxWords : Grow(n, spare, ok) \/ Resize(n, spare, ok)
              \/ \E i \in Positions : Set(i, spare, ok)
              \/ \E i \in Positions, flag \in BOOLEAN : SetToValue(i, flag, spare, ok)
       PROVE  Kept
  <2>1. spare \in Word
    BY <1>2
  <2> QED
    BY <1>1, <1>10, <2>1, PointSteps
<1>11. ASSUME NEW spare \in Spares, NEW ok \in BOOLEAN, NEW o \in Operands,
              InplaceUnion(o, spare, ok) \/ InplaceSymmetricDifference(o, spare, ok)
       PROVE  Kept
  <2>1. spare \in Word
    BY <1>2
  <2> QED
    BY <1>1, <1>11, <2>1, InplaceSteps
<1> QED
  BY <1>4, <1>5, <1>6, <1>7, <1>8, <1>9, <1>10, <1>11 DEF Next

-----------------------------------------------------------------------------

\* After any sequence of calls, of any length and on bitsets of any size, and
\* whatever realloc leaves in the words it adds, the words in use hold exactly
\* the values that the calls promise (bitset.c), as long as no call has left
\* the buffer.
THEOREM BitsetHoldsMembers ==
  ASSUME BitsetAssumption
  PROVE  Spec => []HoldsMembers
<1>1. Init => IInv
  BY StartHolds
<1>2. ASSUME IInv, [Next]_vars PROVE IInv'
  <2>1. CASE Next
    <3>1. memory = "sound"
      BY <2>1 DEF Next
    <3> QED
      BY <1>2, <2>1, <3>1, StepKeeps DEF Kept
  <2>2. CASE UNCHANGED vars
    BY <1>2, <2>2 DEF vars, IInv, Holding
  <2> QED
    BY <1>2, <2>1, <2>2
<1>3. IInv => HoldsMembers
  BY DEF IInv, Holding, HoldsMembers
<1> QED
  BY <1>1, <1>2, <1>3, PTL DEF Spec

\* No call reads or writes a word outside the buffer, when nobody shifts an
\* empty bitset to the left or beyond the last word to the right, or trims to
\* nothing where realloc frees (bitset_shift_left, bitset_shift_right,
\* bitset_trim).
THEOREM BitsetMemorySafe ==
  ASSUME BitsetAssumption, Unusual = {}
  PROVE  Spec => []MemorySafe
<1> DEFINE Sound == IInv /\ memory = "sound"
<1>1. Init => Sound
  BY StartHolds
<1>2. ASSUME Sound, [Next]_vars PROVE Sound'
  <2>1. CASE Next
    BY <1>2, <2>1, StepKeeps DEF Kept
  <2>2. CASE UNCHANGED vars
    BY <1>2, <2>2 DEF vars, IInv, Holding
  <2> QED
    BY <1>2, <2>1, <2>2
<1>3. Sound => MemorySafe
  BY DEF MemorySafe
<1> QED
  BY <1>1, <1>2, <1>3, PTL DEF Spec
=============================================================================
