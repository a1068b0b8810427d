------------------------- MODULE BitmapRangesProofs -------------------------
(***************************************************************************)
(* Any sequence of calls on one bitmap with ranges, shifts and from_range, *)
(* for all numbers of keys and of low halves: the bitmap holds the values  *)
(* that roaring.h documents, and the queries on ranges tell of them.       *)
(***************************************************************************)
EXTENDS BitmapRanges, RoaringArrayProofs

\* The bitmap is the sorted array of the chunks of S.
Keeps(r, S) == S \in SUBSET Uint32 /\ Holds(r, ChunksOf(S))

-----------------------------------------------------------------------------
(* The arguments of the calls.                                             *)

\* There is at least one value.
LEMMA UniverseType ==
  Universe \in Nat \ {0}
<1>1. KeyCount * ChunkSize \in Nat
  BY Sizes
<1>2. 0 \in Keys /\ 0 \in Lows
  BY Sizes
<1>3. 0 * ChunkSize + 0 \in Uint32
  BY <1>2, ValueOf
<1>4. Universe \in Nat
  BY <1>1 DEF Universe
<1>5. 0 * ChunkSize + 0 \in Int
  BY <1>3, <1>4 DEF Uint32
<1>6. Uint32 # {}
  BY <1>3
<1> QED
  BY <1>4, <1>6 DEF Uint32

\* A value that fits the width is not changed by it.
LEMMA NoWrap ==
  ASSUME NEW x \in Uint32
  PROVE  U32(x) = x
<1>1. Universe \in Nat \ {0} /\ x \in 0..(Universe - 1)
  BY UniverseType DEF Uint32
<1> QED
  BY <1>1 DEF U32

\* A range that is not empty, as the closed calls get it.
LEMMA ClosedRange ==
  ASSUME NEW min \in 0..Universe, NEW max \in 0..Universe, ~EmptyRange(min, max)
  PROVE  /\ U32(min) \in Uint32 /\ U32(max - 1) \in Uint32 /\ U32(min) <= U32(max - 1)
         /\ Range32(min, max) = U32(min)..U32(max - 1)
<1>1. Universe \in Nat \ {0}
  BY UniverseType
<1>2. min < max
  BY <1>1 DEF EmptyRange
<1>3. min \in Uint32 /\ max - 1 \in Uint32
  BY <1>1, <1>2 DEF Uint32
<1>4. U32(min) = min /\ U32(max - 1) = max - 1
  BY <1>3, NoWrap
<1>5. Range32(min, max) = min..(max - 1)
  BY <1>1, <1>2 DEF Range32
<1> QED
  BY <1>1, <1>2, <1>3, <1>4, <1>5

\* A range without numbers has no values.
LEMMA NoRange ==
  ASSUME NEW min \in 0..Universe, NEW max \in 0..Universe, EmptyRange(min, max)
  PROVE  Range32(min, max) = {}
<1>1. Universe \in Nat \ {0}
  BY UniverseType
<1>2. min >= max
  BY <1>1 DEF EmptyRange
<1> QED
  BY <1>1, <1>2 DEF Range32

\* The values of a range are values of the width.
LEMMA RangeType ==
  ASSUME NEW min, NEW max
  PROVE  Range32(min, max) \subseteq Uint32
  BY DEF Range32, Uint32

-----------------------------------------------------------------------------
(* The calls.                                                              *)

\* roaring_bitmap_add and roaring_bitmap_remove.
LEMMA KeepsValue ==
  ASSUME NEW r, NEW S, Keeps(r, S), NEW x \in Uint32
  PROVE  Keeps(roaring_bitmap_add(r, x), S \cup {x}) /\ Keeps(roaring_bitmap_remove(r, x), S \ {x})
<1> DEFINE C == ChunksOf(S)
           key == High(x)
           low == Low(x)
<1>1. key \in Keys /\ low \in Lows
  BY HalvesOf
<1>2. Holds(r, C)
  BY DEF Keeps
<1>3. /\ With(C, key, C[key] \cup {low}) = ChunksOf(S \cup {x})
      /\ With(C, key, C[key] \ {low}) = ChunksOf(S \ {x})
  BY OneMember
<1> HIDE DEF C
<1>4. Holds(roaring_bitmap_add(r, x), With(C, key, C[key] \cup {low}))
  BY <1>1, <1>2, AddedTo
<1>5. Holds(roaring_bitmap_remove(r, x), With(C, key, C[key] \ {low}))
  BY <1>1, <1>2, RemovedFrom
<1>6. S \cup {x} \in SUBSET Uint32 /\ S \ {x} \in SUBSET Uint32
  BY DEF Keeps
<1> HIDE DEF key, low
<1>7. Holds(roaring_bitmap_add(r, x), ChunksOf(S \cup {x}))
  BY <1>3, <1>4
<1>8. Holds(roaring_bitmap_remove(r, x), ChunksOf(S \ {x}))
  BY <1>3, <1>5
<1> QED
  BY <1>6, <1>7, <1>8 DEF Keeps

\* roaring_bitmap_add_range.
LEMMA KeepsAddedRange ==
  ASSUME NEW r, NEW S, Keeps(r, S), NEW min \in 0..Universe, NEW max \in 0..Universe
  PROVE  Keeps(roaring_bitmap_add_range(r, min, max), S \cup Range32(min, max))
<1> DEFINE a == U32(min)
           b == U32(max - 1)
           T == S \cup Range32(min, max)
<1>1. T \in SUBSET Uint32
  BY RangeType DEF Keeps
<1>2. CASE EmptyRange(min, max)
  <2>1. T = S
    BY <1>2, NoRange
  <2> QED
    BY <1>2, <2>1 DEF roaring_bitmap_add_range
<1>3. CASE ~EmptyRange(min, max)
  <2>1. a \in Uint32 /\ b \in Uint32 /\ a <= b /\ T = S \cup a..b
    BY <1>3, ClosedRange
  <2>2. roaring_bitmap_add_range(r, min, max) = roaring_bitmap_add_range_closed(r, a, b)
    BY <1>3 DEF roaring_bitmap_add_range
  <2> HIDE DEF a, b, T
  <2>3. Holds(r, ChunksOf(S))
    BY DEF Keeps
  <2>4. Holds(roaring_bitmap_add_range_closed(r, a, b), Added(ChunksOf(S), a, b))
    BY <2>1, <2>3, AddRangeCorrect
  <2>5. Added(ChunksOf(S), a, b) = ChunksOf(S \cup a..b)
    BY <2>1, AddedMembers
  <2>6. Keeps(roaring_bitmap_add_range(r, min, max), T)
    BY <1>1, <2>1, <2>2, <2>4, <2>5 DEF Keeps
  <2> QED
    BY <2>6 DEF T
<1> QED
  BY <1>2, <1>3

\* roaring_bitmap_remove_range.
LEMMA KeepsRemovedRange ==
  ASSUME NEW r, NEW S, Keeps(r, S), NEW min \in 0..Universe, NEW max \in 0..Universe
  PROVE  Keeps(roaring_bitmap_remove_range(r, min, max), S \ Range32(min, max))
<1> DEFINE a == U32(min)
           b == U32(max - 1)
           T == S \ Range32(min, max)
<1>1. T \in SUBSET Uint32
  BY DEF Keeps
<1>2. CASE EmptyRange(min, max)
  <2>1. T = S
    BY <1>2, NoRange
  <2> QED
    BY <1>2, <2>1 DEF roaring_bitmap_remove_range
<1>3. CASE ~EmptyRange(min, max)
  <2>1. a \in Uint32 /\ b \in Uint32 /\ a <= b /\ T = S \ (a..b)
    BY <1>3, ClosedRange
  <2>2. roaring_bitmap_remove_range(r, min, max) = roaring_bitmap_remove_range_closed(r, a, b)
    BY <1>3 DEF roaring_bitmap_remove_range
  <2> HIDE DEF a, b, T
  <2>3. Holds(r, ChunksOf(S))
    BY DEF Keeps
  <2>4. Holds(roaring_bitmap_remove_range_closed(r, a, b), Lessened(ChunksOf(S), a, b))
    BY <2>1, <2>3, RemoveRangeCorrect
  <2>5. Lessened(ChunksOf(S), a, b) = ChunksOf(S \ (a..b))
    BY <2>1, LessenedMembers
  <2>6. Keeps(roaring_bitmap_remove_range(r, min, max), T)
    BY <1>1, <2>1, <2>2, <2>4, <2>5 DEF Keeps
  <2> QED
    BY <2>6 DEF T
<1> QED
  BY <1>2, <1>3

\* roaring_bitmap_flip and roaring_bitmap_flip_inplace.
LEMMA KeepsFlipped ==
  ASSUME NEW r, NEW S, Keeps(r, S), NEW min \in 0..Universe, NEW max \in 0..Universe
  PROVE  /\ Keeps(roaring_bitmap_flip(r, min, max), SymDiff(S, Range32(min, max)))
         /\ Keeps(roaring_bitmap_flip_inplace(r, min, max), SymDiff(S, Range32(min, max)))
<1> DEFINE a == U32(min)
           b == U32(max - 1)
           T == SymDiff(S, Range32(min, max))
<1>1. T \in SUBSET Uint32
  BY RangeType DEF Keeps, SymDiff
<1>2. CASE EmptyRange(min, max)
  <2>1. T = S
    BY <1>2, NoRange DEF SymDiff
  <2> QED
    BY <1>2, <2>1 DEF roaring_bitmap_flip, roaring_bitmap_flip_inplace
<1>3. CASE ~EmptyRange(min, max)
  <2>1. a \in Uint32 /\ b \in Uint32 /\ a <= b /\ T = SymDiff(S, a..b)
    BY <1>3, ClosedRange
  <2>2. /\ roaring_bitmap_flip(r, min, max) = roaring_bitmap_flip_closed(r, a, b)
        /\ roaring_bitmap_flip_inplace(r, min, max) = roaring_bitmap_flip_inplace_closed(r, a, b)
    BY <1>3 DEF roaring_bitmap_flip, roaring_bitmap_flip_inplace
  <2> HIDE DEF a, b, T
  <2>3. Holds(r, ChunksOf(S))
    BY DEF Keeps
  <2>4. Holds(roaring_bitmap_flip_closed(r, a, b), Flipped(ChunksOf(S), a, b, High(b) + 1))
    BY <2>1, <2>3, FlipCorrect
  <2>5. Holds(roaring_bitmap_flip_inplace_closed(r, a, b), Flipped(ChunksOf(S), a, b, High(b) + 1))
    BY <2>1, <2>3, FlipInPlaceCorrect
  <2>6. Flipped(ChunksOf(S), a, b, High(b) + 1) = ChunksOf(SymDiff(S, a..b))
    BY <2>1, FlippedMembers
  <2>7. Keeps(roaring_bitmap_flip(r, min, max), T)
    BY <1>1, <2>1, <2>2, <2>4, <2>6 DEF Keeps
  <2>8. Keeps(roaring_bitmap_flip_inplace(r, min, max), T)
    BY <1>1, <2>1, <2>2, <2>5, <2>6 DEF Keeps
  <2> QED
    BY <2>7, <2>8 DEF T
<1> QED
  BY <1>2, <1>3

\* roaring_bitmap_add_offset.
LEMMA KeepsShifted ==
  ASSUME NEW r, NEW S, Keeps(r, S), NEW offset \in Int
  PROVE  Keeps(roaring_bitmap_add_offset(r, offset), {x + offset : x \in S} \cap (0 .. Universe - 1))
<1>1. S \in SUBSET Uint32 /\ Holds(r, ChunksOf(S))
  BY DEF Keeps
<1>2. Holds(roaring_bitmap_add_offset(r, offset), ChunksOf({x + offset : x \in S} \cap Uint32))
  BY <1>1, OffsetCorrect
<1> QED
  BY <1>2 DEF Keeps, Uint32

\* The values of from_range.
LEMMA SteppedRange ==
  ASSUME NEW min \in 0..Universe, NEW max \in 0..Universe, NEW step
  PROVE  /\ Capped(max) = max
         /\ Steps(min, max, step) = Stepped(min, max, step)
         /\ Steps(min, max, step) \in SUBSET Uint32
<1>1. Universe \in Nat
  BY UniverseType
<1>2. Capped(max) = max
  BY <1>1 DEF Capped
<1>3. Steps(min, max, step) = Stepped(min, max, step)
  BY DEF Steps, Range32, Stepped, InSteps, Uint32
<1>4. Stepped(min, max, step) \in SUBSET Uint32
  BY DEF Stepped
<1> QED
  BY <1>2, <1>3, <1>4

\* roaring_bitmap_from_range, chunk by chunk.
LEMMA KeepsStepped ==
  ASSUME NEW min \in 0..Universe, NEW max \in 0..Universe, min < max, NEW step \in Nat \ {0}
  PROVE  Keeps(from_range_chunks(min, Capped(max), step), Steps(min, max, step))
<1>1. Universe \in Nat
  BY UniverseType
<1>2. min \in Nat /\ max \in Nat /\ max <= Universe
  BY <1>1
<1>3. /\ Capped(max) = max
      /\ Steps(min, max, step) = Stepped(min, max, step)
      /\ Steps(min, max, step) \in SUBSET Uint32
  BY SteppedRange
<1>4. Holds(from_range_chunks(min, max, step), ChunksOf(Stepped(min, max, step)))
  BY <1>2, FromRangeCorrect
<1> QED
  BY <1>3, <1>4 DEF Keeps

-----------------------------------------------------------------------------
(* The loop of from_range over 32-bit values.                              *)

\* The values before the next one of the loop.
Before(S, value) == {x \in S : x < value}

\* Inside the loop: the values that it is to leave are the steps from some
\* first value, it has added the ones before the next, and the next one is
\* small enough for value + step not to leave the 32-bit values.
Looping(r, S, l) ==
  /\ l \in [value : Nat, max : Nat, step : Nat \ {0}]
  /\ l.max + l.step <= Universe
  /\ \E min \in 0..l.value : (l.value - min) % l.step = 0 /\ S = Stepped(min, l.max, l.step)
  /\ Holds(r, ChunksOf(Before(S, l.value)))

\* The inductive invariant.
IInv ==
  /\ members \in SUBSET Uint32
  /\ loop = NoLoop => Keeps(ra, members)
  /\ loop # NoLoop => Looping(ra, members, loop)

\* The start of the loop.
LEMMA LoopStarts ==
  ASSUME NEW min \in Nat, NEW max \in Nat, NEW step \in Nat \ {0}, max + step <= Universe,
         NEW S, S = Stepped(min, max, step),
         NEW l, l = [value |-> min, max |-> max, step |-> step]
  PROVE  Looping(<<>>, S, l)
<1>1. Before(S, min) = {}
  BY DEF Before, Stepped, InSteps, Uint32
<1>2. Holds(<<>>, ChunksOf(Before(S, min)))
  BY <1>1, NoValues
<1>3. min \in 0..min /\ (min - min) % step = 0
  <2>1. min - min = 0 /\ 0 % step = 0
    OBVIOUS
  <2> QED
    BY <2>1
<1> QED
  BY <1>2, <1>3 DEF Looping

\* A turn of the loop.
LEMMA LoopTurns ==
  ASSUME NEW r, NEW S, NEW l, Looping(r, S, l), l.value < l.max
  PROVE  Looping(roaring_bitmap_add(r, l.value), S, [l EXCEPT !.value = U32(@ + l.step)])
<1> DEFINE value == l.value
           max == l.max
           step == l.step
           next == value + step
           T == Before(S, value)
           U == Before(S, next)
<1>1. /\ value \in Nat /\ max \in Nat /\ step \in Nat \ {0} /\ max + step <= Universe /\ value < max
      /\ l = [value |-> value, max |-> max, step |-> step]
  BY DEF Looping
<1>2. PICK min \in 0..value : (value - min) % step = 0 /\ S = Stepped(min, max, step)
  BY DEF Looping
<1>3. Holds(r, ChunksOf(T))
  BY DEF Looping
<1> HIDE DEF value, max, step
<1>4. Universe \in Nat /\ value \in Uint32 /\ next \in Uint32 /\ min \in Nat
  <2>1. Universe \in Nat
    BY UniverseType
  <2> QED
    BY <1>1, <1>2, <2>1 DEF Uint32
<1>5. U32(next) = next
  BY <1>4, NoWrap
<1>6. \A x \in S : x \in Nat /\ min <= x /\ (x - min) % step = 0
  <2>1. \A x \in Uint32 : x \in Nat
    BY <1>4 DEF Uint32
  <2> QED
    BY <1>2, <2>1 DEF Stepped, InSteps
<1>7. value \in S
  BY <1>1, <1>2, <1>4 DEF Stepped, InSteps
<1>8. U = T \cup {value}
  <2>1. ASSUME NEW x \in S, x < next, ~(x < value) PROVE x = value
    <3>1. SUFFICES ASSUME x # value PROVE FALSE
      OBVIOUS
    <3>2. x \in Nat /\ value < x /\ min <= value /\ (x - min) % step = 0
      BY <1>1, <1>2, <1>4, <1>6, <2>1, <3>1
    <3>3. x >= value + step
      BY <1>1, <1>2, <1>4, <3>2, NoneBetween
    <3> QED
      BY <1>1, <2>1, <3>2, <3>3
  <2>2. \A x \in S : x < value => x < next
    BY <1>1, <1>6
  <2>3. value < next
    BY <1>1
  <2> HIDE DEF next
  <2> QED
    BY <1>7, <2>1, <2>2, <2>3 DEF Before
<1>9. T \in SUBSET Uint32
  BY <1>2 DEF Before, Stepped
<1> HIDE DEF T, U
<1>10. Keeps(roaring_bitmap_add(r, value), T \cup {value})
  <2>1. Keeps(r, T)
    BY <1>3, <1>9 DEF Keeps
  <2> QED
    BY <1>4, <2>1, KeepsValue
<1>11. Holds(roaring_bitmap_add(r, value), ChunksOf(U))
  BY <1>8, <1>10 DEF Keeps
<1>12. (next - min) % step = 0 /\ min \in 0..next /\ next \in Nat
  <2> DEFINE a == value - min
  <2>1. a \in Nat /\ a % step = 0 /\ a + step = next - min
    BY <1>1, <1>2, <1>4
  <2> HIDE DEF a
  <2>2. (a + step) % step = step % step /\ step \in Nat
    BY <1>1, <2>1, SameRemainder
  <2>3. step % step = 0
    BY <1>1
  <2>4. (next - min) % step = 0
    BY <2>1, <2>2, <2>3
  <2>5. min \in 0..next /\ next \in Nat
    BY <1>1, <1>2, <1>4
  <2> QED
    BY <2>4, <2>5
<1> DEFINE m == [value |-> next, max |-> max, step |-> step]
<1>13. [l EXCEPT !.value = U32(@ + l.step)] = m
  BY <1>1, <1>5 DEF value, step
<1> HIDE DEF next
<1>14. Looping(roaring_bitmap_add(r, value), S, m)
  BY <1>1, <1>2, <1>11, <1>12 DEF Looping, U
<1> QED
  BY <1>13, <1>14 DEF value

\* The end of the loop.
LEMMA LoopEnds ==
  ASSUME NEW r, NEW S, NEW l, Looping(r, S, l), l.value >= l.max
  PROVE  Keeps(r, S)
<1>1. PICK min \in 0..l.value : S = Stepped(min, l.max, l.step)
  BY DEF Looping
<1>2. S \in SUBSET Uint32
  BY <1>1 DEF Stepped
<1>3. Before(S, l.value) = S
  <2>1. l.value \in Nat /\ l.max \in Nat /\ Universe \in Nat
    BY UniverseType DEF Looping
  <2>2. \A x \in S : x < l.max /\ x \in Nat
    BY <1>1, <2>1 DEF Stepped, InSteps, Uint32
  <2>3. \A x \in S : x < l.value
    BY <2>1, <2>2
  <2> QED
    BY <2>3 DEF Before
<1> QED
  BY <1>2, <1>3 DEF Looping, Keeps

-----------------------------------------------------------------------------
(* Queries on ranges.                                                      *)

\* What the entry e counts for a range that ends at max.
UpTo(e, max) ==
  IF e.key = High(max) THEN container_rank(e.container, Low(max)) ELSE Cardinality(e.container)

\* The values of the chunks lo .. hi up to max.
InSpan(S, lo, hi, max) == {x \in S : High(x) \in lo..hi /\ x <= max}

\* Sets of values are finite.
LEMMA ValuesFinite ==
  ASSUME NEW S \in SUBSET Uint32
  PROVE  IsFiniteSet(S)
<1>1. Universe \in Nat \ {0}
  BY UniverseType
<1>2. IsFiniteSet(0..(Universe - 1))
  BY <1>1, FS_Interval
<1> QED
  BY <1>2, FS_Subset DEF Uint32

\* Sets of low halves are finite, and have a size.
LEMMA LowsFinite ==
  ASSUME NEW T \in SUBSET Lows
  PROVE  IsFiniteSet(T) /\ Cardinality(T) \in Nat
<1>1. IsFiniteSet(0..(ChunkSize - 1))
  BY Sizes, FS_Interval
<1>2. IsFiniteSet(T)
  BY <1>1, Sizes, FS_Subset
<1> QED
  BY <1>2, FS_CardinalityType

\* Values of one chunk are as many as their low halves.
LEMMA LowHalves ==
  ASSUME NEW S \in SUBSET Uint32, NEW key \in Keys, NEW T \in SUBSET ChunksOf(S)[key]
  PROVE  Cardinality({x \in S : High(x) = key /\ Low(x) \in T}) = Cardinality(T)
<1> DEFINE U == {x \in S : High(x) = key /\ Low(x) \in T}
           f == [x \in U |-> Low(x)]
<1>1. T \in SUBSET Lows /\ \A v \in T : key * ChunkSize + v \in S
  BY ChunksOfType
<1>2. IsFiniteSet(T)
  BY <1>1, LowsFinite
<1>3. f \in [U -> T]
  OBVIOUS
<1>4. ASSUME NEW x \in U, NEW y \in U, f[x] = f[y] PROVE x = y
  <2>1. x \in Uint32 /\ y \in Uint32 /\ High(x) = High(y) /\ Low(x) = Low(y)
    BY <1>4
  <2>2. x = High(x) * ChunkSize + Low(x) /\ y = High(y) * ChunkSize + Low(y)
    BY <2>1, HalvesOf
  <2> QED
    BY <2>1, <2>2
<1>5. ASSUME NEW v \in T PROVE \E x \in U : f[x] = v
  <2> DEFINE x == key * ChunkSize + v
  <2>1. x \in S /\ High(x) = key /\ Low(x) = v
    BY <1>1, ValueOf
  <2> HIDE DEF x
  <2>2. x \in U /\ f[x] = v
    BY <2>1
  <2> QED
    BY <2>2
<1> HIDE DEF f, U
<1>6. f \in Injection(U, T)
  BY <1>3, <1>4 DEF Injection, IsInjective
<1>7. f \in Surjection(U, T)
  BY <1>3, <1>5 DEF Surjection
<1>8. Cardinality(U) = Cardinality(T)
  BY <1>2, <1>6, <1>7, FS_Injection
<1> QED
  BY <1>8 DEF U

\* Two sets of values without a common one.
LEMMA DisjointValues ==
  ASSUME NEW P \in SUBSET Uint32, NEW Q \in SUBSET Uint32, P \cap Q = {}
  PROVE  /\ Cardinality(P) \in Nat /\ Cardinality(Q) \in Nat
         /\ Cardinality(P \cup Q) = Cardinality(P) + Cardinality(Q)
<1>1. IsFiniteSet(P) /\ IsFiniteSet(Q)
  BY ValuesFinite
<1>2. Cardinality(P) \in Nat /\ Cardinality(Q) \in Nat
  BY <1>1, FS_CardinalityType
<1>3. Cardinality(P \cup Q) = Cardinality(P) + Cardinality(Q) - Cardinality(P \cap Q)
  BY <1>1, FS_Union
<1>4. Cardinality(P \cap Q) = 0
  BY FS_EmptySet
<1> QED
  BY <1>2, <1>3, <1>4

\* The values of a chunk up to max are what its entry counts.
LEMMA EntryCounts ==
  ASSUME NEW S \in SUBSET Uint32, NEW key \in Keys, NEW max \in Uint32, key <= High(max),
         NEW e, e.key = key, e.container = ChunksOf(S)[key]
  PROVE  Cardinality({x \in S : High(x) = key /\ x <= max}) = UpTo(e, max)
<1> DEFINE c == ChunksOf(S)[key]
           T == IF key = High(max) THEN {v \in c : v <= Low(max)} ELSE c
           U == {x \in S : High(x) = key /\ Low(x) \in T}
<1>1. \A v \in Lows : v \in c <=> key * ChunkSize + v \in S
  BY ChunksOfType
<1>2. High(max) \in Keys /\ \A h \in Keys : h \in Int
  BY HalvesOf, Sizes
<1>3. ASSUME NEW x \in S, High(x) = key PROVE x <= max <=> Low(x) \in T
  <2>1. x \in Uint32 /\ Low(x) \in Lows /\ x = key * ChunkSize + Low(x)
    BY <1>3, HalvesOf
  <2>2. Low(x) \in c
    BY <1>1, <2>1
  <2>3. x <= max <=> key < High(max) \/ (key = High(max) /\ Low(x) <= Low(max))
    BY <1>3, <2>1, HalvesOrder
  <2> HIDE DEF c
  <2> QED
    BY <1>2, <2>2, <2>3
<1>4. T \in SUBSET c
  OBVIOUS
<1>5. Cardinality(U) = Cardinality(T)
  <2> HIDE DEF T
  <2> QED
    BY <1>4, LowHalves
<1>6. UpTo(e, max) = Cardinality(T)
  BY DEF UpTo, container_rank
<1>7. {x \in S : High(x) = key /\ x <= max} = U
  <2> HIDE DEF T
  <2> QED
    BY <1>3
<1> QED
  BY <1>5, <1>6, <1>7

\* The next entry, behind the chunks up to low.
LEMMA SpanGrows ==
  ASSUME NEW S \in SUBSET Uint32, NEW lo \in Int, NEW low \in Int, NEW key \in Keys,
         lo <= low + 1, low < key, NEW max \in Uint32, key <= High(max),
         NEW e, e.key = key, e.container = ChunksOf(S)[key],
         \A h \in Keys : low < h /\ h < key => ChunksOf(S)[h] = {}
  PROVE  Cardinality(InSpan(S, lo, key, max)) = Cardinality(InSpan(S, lo, low, max)) + UpTo(e, max)
<1> DEFINE P == InSpan(S, lo, low, max)
           Q == {x \in S : High(x) = key /\ x <= max}
<1>1. Cardinality(Q) = UpTo(e, max)
  BY EntryCounts
<1>2. P \in SUBSET Uint32 /\ Q \in SUBSET Uint32
  BY DEF InSpan
<1>3. \A h \in Keys : h \in Int
  BY Sizes
<1>4. \A x \in S : High(x) \in Keys /\ ~(low < High(x) /\ High(x) < key)
  <2>1. SUFFICES ASSUME NEW x \in S
                 PROVE  High(x) \in Keys /\ ~(low < High(x) /\ High(x) < key)
    OBVIOUS
  <2>2. High(x) \in Keys /\ Low(x) \in Lows /\ x = High(x) * ChunkSize + Low(x)
    BY HalvesOf
  <2>3. Low(x) \in ChunksOf(S)[High(x)]
    BY <2>2, ChunksOfType
  <2> QED
    BY <2>2, <2>3
<1>5. P \cap Q = {}
  BY <1>3 DEF InSpan
<1>6. InSpan(S, lo, key, max) = P \cup Q
  <2>1. \A x \in S : High(x) \in lo..key <=> High(x) \in lo..low \/ High(x) = key
    BY <1>3, <1>4
  <2> QED
    BY <2>1 DEF InSpan
<1> HIDE DEF P, Q
<1> QED
  BY <1>1, <1>2, <1>5, <1>6, DisjointValues DEF P

\* An entry counts a number.
LEMMA UpToType ==
  ASSUME NEW e, e.container \in SUBSET Lows, NEW max
  PROVE  UpTo(e, max) \in Nat
<1>1. {v \in e.container : v <= Low(max)} \in SUBSET Lows
  OBVIOUS
<1> QED
  BY <1>1, LowsFinite DEF UpTo, container_rank

\* The sum over the entries at + 1 .. top of the array r.
Summed(r, at, top, max) ==
  FoldLeft(LAMBDA card, e : card + UpTo(e, max), 0, SubSeq(r, at + 1, top))

\* The key of the entry before which the sum has got.
LastKey(r, lo, i, at) == IF i = at THEN lo - 1 ELSE r[i].key

\* The sum over some entries counts the values of their chunks.
LEMMA SummedCorrect ==
  ASSUME NEW S \in SUBSET Uint32, NEW r, Holds(r, ChunksOf(S)), NEW lo \in Keys,
         NEW max \in Uint32, NEW at \in 0..Len(r), NEW top \in at..Len(r),
         \A i \in 1..at : r[i].key < lo,
         \A i \in (at + 1)..Len(r) : r[i].key >= lo,
         \A i \in 1..top : r[i].key <= High(max)
  PROVE  Summed(r, at, top, max) = Cardinality(InSpan(S, lo, LastKey(r, lo, top, at), max))
<1> DEFINE C == ChunksOf(S)
           n == top - at
           q == SubSeq(r, at + 1, top)
           A == Nat
           turn(card, i) == card + UpTo(q[i], max)
           G == [p \in (1..n) \X A |-> turn(p[2], p[1])]
           Step(it) == [x \in SUBSET DOMAIN q |-> IF x = {} THEN 0 ELSE turn(it[x \ {Max(x)}], Max(x))]
           it == CHOOSE f : f = Step(f)
           L(i) == LastKey(r, lo, at + i, at)
           J == [i \in 0..n |-> {Cardinality(InSpan(S, lo, L(i), max))}]
<1>1. /\ n \in Nat /\ r \in Seq(Rows) /\ Len(r) \in Nat /\ at \in Nat /\ top \in Nat
      /\ Covers(r, 1, Len(r), C, 0, KeyCount - 1) /\ Keys = 0..(KeyCount - 1)
      /\ lo \in Int /\ KeyCount \in Nat
  BY Sizes DEF Holds
<1>2. DOMAIN q = 1..n /\ \A i \in 1..n : q[i] = r[at + i]
  BY <1>1
<1>3. Summed(r, at, top, max) = it[1..n]
  <2>1. Summed(r, at, top, max) = it[DOMAIN q]
    BY DEF Summed, FoldLeft, MapThenFoldSet
  <2> QED
    BY <1>2, <2>1
<1>4. \A i \in 1..n : at + i \in 1..Len(r) /\ at + i \in 1..top /\ at + i \in (at + 1)..Len(r)
  BY <1>1
<1>5. ASSUME NEW i \in 1..n
      PROVE  /\ q[i].key \in Keys /\ q[i].container = C[q[i].key] /\ q[i].container \in SUBSET Lows
             /\ q[i].key = r[at + i].key /\ q[i].key <= High(max) /\ q[i].key >= lo
  <2>1. q[i] = r[at + i]
    BY <1>2
  <2>2. r[at + i].key \in Keys /\ r[at + i].container = C[r[at + i].key]
    BY <1>1, <1>4 DEF Covers
  <2>3. C[r[at + i].key] \in SUBSET Lows
    BY <2>2, ChunksOfType DEF Chunks
  <2>4. r[at + i].key <= High(max) /\ r[at + i].key >= lo
    BY <1>4
  <2> HIDE DEF q, C
  <2> QED
    BY <2>1, <2>2, <2>3, <2>4
<1> HIDE DEF n, q
<1>6. \A b \in A, i \in 1..n : turn(b, i) \in A
  <2>1. SUFFICES ASSUME NEW b \in A, NEW i \in 1..n PROVE turn(b, i) \in A
    OBVIOUS
  <2>2. UpTo(q[i], max) \in Nat
    BY <1>5, UpToType
  <2> QED
    BY <2>2
<1>8. G \in [(1..n) \X A -> A]
  <2> HIDE DEF turn, A
  <2> QED
    BY <1>6
<1>9. PICK f \in [SUBSET (1..n) -> A] : Folds(f, n, 0, G)
  <2>1. 0 \in A
    OBVIOUS
  <2> HIDE DEF G, A
  <2> QED
    BY <1>1, <1>8, <2>1, FoldExists
<1> HIDE DEF A
<1>10. f = Step(f)
  <2>1. ASSUME NEW x \in SUBSET (1..n), x # {}
        PROVE  f[x] = turn(f[x \ {Max(x)}], Max(x))
    <3>1. Max(x) \in 1..n /\ x \ {Max(x)} \in SUBSET (1..n)
      BY <1>1, <2>1, LastIndex
    <3>2. f[x \ {Max(x)}] \in A
      BY <3>1
    <3> HIDE DEF turn
    <3> QED
      BY <1>9, <2>1, <3>1, <3>2 DEF Folds
  <2> HIDE DEF turn
  <2> QED
    BY <1>2, <1>9, <2>1 DEF Folds
<1>11. it = Step(it)
  BY <1>10
<1> HIDE DEF it, J, turn, L
<1>12. it[{}] = 0 /\ \A i \in 1..n : it[1..i] = turn(it[1..(i - 1)], i)
  <2>1. \A x \in SUBSET (1..n) : it[x] = IF x = {} THEN 0 ELSE turn(it[x \ {Max(x)}], Max(x))
    BY <1>2, <1>11
  <2> QED
    BY <1>1, <2>1, Segment
<1>13. it[{}] \in J[0]
  <2>1. L(0) = lo - 1
    BY <1>1 DEF L, LastKey
  <2>2. InSpan(S, lo, lo - 1, max) = {}
    BY <1>1 DEF InSpan
  <2>3. Cardinality(InSpan(S, lo, L(0), max)) = 0
    BY <2>1, <2>2, FS_EmptySet
  <2>4. 0 \in 0..n
    BY <1>1
  <2> QED
    BY <1>12, <2>3, <2>4 DEF J
<1>14. ASSUME NEW i \in 1..n, it[1..(i - 1)] \in J[i - 1] PROVE it[1..i] \in J[i]
  <2> DEFINE low == L(i - 1)
             key == q[i].key
  <2>1. i - 1 \in 0..n /\ i \in 0..n /\ i \in Int
    BY <1>1
  <2>2. it[1..(i - 1)] = Cardinality(InSpan(S, lo, low, max))
    BY <1>14, <2>1 DEF J
  <2>3. key \in Keys /\ key <= High(max) /\ key >= lo /\ key \in Int
    BY <1>1, <1>5
  <2>4. L(i) = key
    <3>1. at + i # at
      BY <1>1, <2>1
    <3> QED
      BY <1>5, <3>1 DEF L, LastKey
  <2>5. low \in Int /\ low < key /\ lo <= low + 1
    <3>1. CASE i = 1
      <4>1. low = lo - 1
        BY <1>1, <3>1 DEF L, LastKey
      <4> QED
        BY <1>1, <2>3, <4>1
    <3>2. CASE i # 1
      <4>1. i - 1 \in 1..n /\ at + (i - 1) # at /\ at + (i - 1) < at + i
        BY <1>1, <2>1, <3>2
      <4>2. low = r[at + (i - 1)].key
        BY <4>1 DEF L, LastKey
      <4>3. r[at + (i - 1)].key < r[at + i].key
        BY <1>1, <1>4, <4>1 DEF Covers
      <4>4. q[i - 1].key = low /\ low \in Keys /\ low >= lo
        BY <1>5, <4>1, <4>2
      <4>5. low \in Int /\ low < key
        BY <1>1, <1>5, <4>2, <4>3, <4>4
      <4> QED
        BY <1>1, <4>4, <4>5
    <3> QED
      BY <3>1, <3>2
  <2>6. ASSUME NEW h \in Keys, low < h, h < key PROVE C[h] = {}
    <3>1. SUFFICES ASSUME C[h] # {} PROVE FALSE
      OBVIOUS
    <3>2. PICK j \in 1..Len(r) : r[j].key = h
      BY <1>1, <3>1 DEF Covers
    <3>3. j < at + i
      <4>1. SUFFICES ASSUME at + i <= j PROVE FALSE
        BY <1>1, <2>1
      <4>2. at + i \in 1..Len(r) /\ key = r[at + i].key
        BY <1>4, <1>5
      <4>3. at + i = j \/ r[at + i].key < r[j].key
        BY <1>1, <2>1, <4>1, <4>2 DEF Covers
      <4> QED
        BY <1>1, <2>3, <2>6, <3>2, <4>2, <4>3
    <3>4. CASE j <= at
      <4>1. r[j].key < lo
        BY <1>1, <3>4
      <4> QED
        BY <1>1, <2>5, <2>6, <3>2, <4>1
    <3>5. CASE ~(j <= at)
      <4>1. i # 1 /\ j <= at + (i - 1)
        BY <1>1, <2>1, <3>3, <3>5
      <4>2. i - 1 \in 1..n /\ at + (i - 1) # at
        BY <1>1, <2>1, <4>1
      <4>3. low = r[at + (i - 1)].key
        BY <4>2 DEF L, LastKey
      <4>4. at + (i - 1) \in 1..Len(r)
        BY <1>4, <4>2
      <4>5. j = at + (i - 1) \/ r[j].key < r[at + (i - 1)].key
        BY <1>1, <4>1, <4>4 DEF Covers
      <4> QED
        BY <1>1, <2>5, <2>6, <3>2, <4>3, <4>5
    <3> QED
      BY <3>4, <3>5
  <2> DEFINE e == q[i]
  <2>7. e.key = key /\ e.container = ChunksOf(S)[key]
    BY <1>5
  <2> HIDE DEF low, key, e
  <2>8. Cardinality(InSpan(S, lo, key, max)) = Cardinality(InSpan(S, lo, low, max)) + UpTo(e, max)
    BY <1>1, <2>3, <2>5, <2>6, <2>7, SpanGrows DEF C
  <2>9. it[1..i] = it[1..(i - 1)] + UpTo(e, max)
    BY <1>12 DEF turn, e
  <2>10. it[1..i] = Cardinality(InSpan(S, lo, L(i), max))
    BY <2>2, <2>4, <2>8, <2>9
  <2> QED
    BY <2>1, <2>10 DEF J
<1>15. it[1..n] \in J[n]
  BY <1>1, <1>13, <1>14, FoldKeeps
<1>16. it[1..n] = Cardinality(InSpan(S, lo, L(n), max))
  BY <1>1, <1>15 DEF J
<1>17. L(n) = LastKey(r, lo, top, at)
  <2>1. at + n = top
    BY <1>1 DEF n
  <2> QED
    BY <2>1 DEF L
<1> QED
  BY <1>3, <1>16, <1>17

\* What a search finds, and where it parts the array.
LEMMA FoundAt ==
  ASSUME NEW r, NEW C, Holds(r, C), NEW key \in Keys
  PROVE  LET i == ra_get_index(r, key)
             at == IF i >= 0 THEN i ELSE -i - 1
         IN  /\ i \in Int /\ at \in 0..Len(r)
             /\ i >= 0 <=> C[key] # {}
             /\ i >= 0 => /\ i + 1 \in 1..Len(r)
                          /\ r[i + 1].key = key /\ r[i + 1].container = C[key]
             /\ \A j \in 1..at : r[j].key < key
             /\ \A j \in (at + 1)..Len(r) : r[j].key >= key
<1> DEFINE i == ra_get_index(r, key)
           at == IF i >= 0 THEN i ELSE -i - 1
           n == Len(r)
           top == KeyCount - 1
<1>1. /\ i \in Int /\ at \in 0..n
      /\ i >= 0 <=> C[key] # {}
      /\ i >= 0 => at + 1 \in 1..n /\ r[at + 1].key = key /\ r[at + 1].container = C[key]
      /\ Covers(r, 1, at, C, 0, key - 1)
      /\ Covers(r, IF i >= 0 THEN at + 2 ELSE at + 1, n, C, key + 1, top)
  BY Searched
<1>2. key \in Int /\ top \in Int /\ n \in Nat
  BY Sizes DEF Holds
<1>3. i >= 0 => at = i
  OBVIOUS
<1> HIDE DEF i, at, n, top
<1>4. \A j \in 1..at : r[j].key < key
  BY <1>1, <1>2 DEF Covers
<1>5. ASSUME NEW j \in (at + 1)..n PROVE r[j].key >= key
  <2>1. CASE i >= 0
    <3>1. j = at + 1 \/ j \in (at + 2)..n
      BY <1>1, <1>2
    <3>2. j \in (at + 2)..n => r[j].key \in (key + 1)..top
      BY <1>1, <2>1 DEF Covers
    <3> QED
      BY <1>1, <1>2, <2>1, <3>1, <3>2
  <2>2. CASE ~(i >= 0)
    <3>1. r[j].key \in (key + 1)..top
      BY <1>1, <2>2 DEF Covers
    <3> QED
      BY <1>2, <3>1
  <2> QED
    BY <2>1, <2>2
<1> QED
  BY <1>1, <1>3, <1>4, <1>5 DEF i, at, n

\* The entries that are not above a key.
LEMMA NotAbove ==
  ASSUME NEW r, NEW C, Holds(r, C), NEW key \in Keys
  PROVE  LET top == count_less(r, Len(r), key + 1)
         IN  /\ top \in 0..Len(r)
             /\ \A j \in 1..top : r[j].key <= key
             /\ \A j \in (top + 1)..Len(r) : r[j].key > key
<1> DEFINE top == count_less(r, Len(r), key + 1)
           n == Len(r)
           hi == KeyCount - 1
           next == key + 1
<1>1. n \in Nat /\ key \in Int /\ next \in Int /\ hi \in Int /\ Covers(r, 1, n, C, 0, hi)
  BY Sizes DEF Holds
<1>2. \A j \in 1..n : r[j].key \in Int
  BY <1>1 DEF Covers
<1> HIDE DEF n, hi, next
<1>3. /\ count_less(r, n, next) \in 0..n
      /\ \A j \in 1..count_less(r, n, next) : r[j].key < next
      /\ \A j \in (count_less(r, n, next) + 1)..n : r[j].key >= next
  BY <1>1, CountLess
<1>4. top = count_less(r, n, next)
  BY DEF n, next
<1> HIDE DEF top
<1>5. /\ \A j \in 1..top : j \in 1..n /\ r[j].key < key + 1
      /\ \A j \in (top + 1)..n : j \in 1..n /\ r[j].key >= key + 1
  BY <1>1, <1>3, <1>4 DEF next
<1>6. /\ \A j \in 1..top : r[j].key <= key
      /\ \A j \in (top + 1)..n : r[j].key > key
  BY <1>1, <1>2, <1>5
<1> QED
  BY <1>3, <1>4, <1>6 DEF n, top

\* The sum over the entries lo .. hi counts all values of their chunks.
LEMMA SpanReached ==
  ASSUME NEW S \in SUBSET Uint32, NEW r, Holds(r, ChunksOf(S)), NEW lo \in Keys, NEW hi \in Keys,
         NEW max, NEW at \in 0..Len(r), NEW top \in at..Len(r),
         \A i \in 1..at : r[i].key < lo,
         \A i \in 1..top : r[i].key <= hi,
         \A i \in (top + 1)..Len(r) : r[i].key > hi
  PROVE  InSpan(S, lo, LastKey(r, lo, top, at), max) = InSpan(S, lo, hi, max)
<1> DEFINE C == ChunksOf(S)
           last == LastKey(r, lo, top, at)
<1>1. /\ Len(r) \in Nat /\ at \in Nat /\ top \in Nat
      /\ Covers(r, 1, Len(r), C, 0, KeyCount - 1) /\ \A h \in Keys : h \in Int
      /\ \A i \in 1..Len(r) : r[i].key \in Int
  BY Sizes DEF Holds, Covers
<1>2. last \in Int /\ (top # at => last <= hi)
  <2>1. CASE top = at
    BY <1>1, <2>1 DEF LastKey
  <2>2. CASE top # at
    <3>1. last = r[top].key /\ top \in 1..top /\ top \in 1..Len(r)
      BY <1>1, <2>2 DEF LastKey
    <3> QED
      BY <1>1, <3>1
  <2> QED
    BY <2>1, <2>2
<1>3. ASSUME NEW x \in S, High(x) \in lo..hi PROVE High(x) <= last
  <2> DEFINE h == High(x)
  <2>1. h \in Keys /\ h \in Int /\ C[h] # {}
    <3>1. h \in Keys /\ Low(x) \in Lows /\ x = h * ChunkSize + Low(x)
      BY HalvesOf
    <3> QED
      BY <1>1, <3>1, ChunksOfType
  <2>2. PICK j \in 1..Len(r) : r[j].key = h
    BY <1>1, <2>1, Sizes DEF Covers
  <2>3. j <= top
    BY <1>1, <1>3, <2>1, <2>2
  <2>4. j > at
    BY <1>1, <1>3, <2>1, <2>2
  <2>5. top # at /\ last = r[top].key /\ top \in 1..Len(r)
    BY <1>1, <2>3, <2>4 DEF LastKey
  <2>6. j = top \/ r[j].key < r[top].key
    BY <1>1, <2>3, <2>5 DEF Covers
  <2> HIDE DEF h, last
  <2>7. h <= last
    BY <1>1, <2>1, <2>2, <2>5, <2>6
  <2> QED
    BY <2>7 DEF h
<1>4. ASSUME NEW x \in S, High(x) \in lo..last PROVE High(x) <= hi
  BY <1>1, <1>2, <1>4 DEF LastKey
<1>5. \A x \in S : High(x) \in Int
  BY <1>1, HalvesOf
<1> HIDE DEF last
<1>6. \A x \in S : High(x) \in lo..last <=> High(x) \in lo..hi
  BY <1>1, <1>2, <1>3, <1>4, <1>5
<1>7. InSpan(S, lo, last, max) = InSpan(S, lo, hi, max)
  BY <1>6 DEF InSpan
<1> QED
  BY <1>7 DEF last

\* The values of a range are those of its chunks up to its end, without the
\* ones of the first chunk that are below its start.
LEMMA SpanLessSkipped ==
  ASSUME NEW S \in SUBSET Uint32, NEW start \in Uint32, NEW end \in Uint32, start <= end
  PROVE  LET key == High(start)
             below == {v \in ChunksOf(S)[key] : v < Low(start)}
         IN  /\ Cardinality(below) \in Nat
             /\ Cardinality((start..end) \cap S)
                  = Cardinality(InSpan(S, key, High(end), end)) - Cardinality(below)
<1> DEFINE key == High(start)
           low == Low(start)
           below == {v \in ChunksOf(S)[key] : v < low}
           P == (start..end) \cap S
           Q == {x \in S : High(x) = key /\ Low(x) \in below}
           hi == High(end)
<1>1. /\ key \in Keys /\ hi \in Keys /\ low \in Lows /\ key <= hi
      /\ \A h \in Keys : h \in Int
      /\ \A v \in Lows : v \in Int
      /\ start \in Int /\ end \in Int /\ \A x \in S : x \in Int /\ x \in Uint32
  BY HalvesOf, RangeKeys, Sizes, UniverseType DEF Uint32
<1>2. \A v \in Lows : v \in ChunksOf(S)[key] <=> key * ChunkSize + v \in S
  BY <1>1, ChunksOfType
<1>3. Cardinality(Q) = Cardinality(below)
  <2>1. below \in SUBSET ChunksOf(S)[key]
    OBVIOUS
  <2> HIDE DEF below, key
  <2> QED
    BY <1>1, <2>1, LowHalves
<1>4. ASSUME NEW x \in S
      PROVE  /\ High(x) \in Keys /\ Low(x) \in Lows /\ x = High(x) * ChunkSize + Low(x)
             /\ start <= x <=> key < High(x) \/ (key = High(x) /\ low <= Low(x))
             /\ x <= end => High(x) <= hi
             /\ High(x) = key /\ Low(x) < low => x <= end
  <2>1. High(x) \in Keys /\ Low(x) \in Lows /\ x = High(x) * ChunkSize + Low(x)
    BY HalvesOf
  <2>2. start <= x <=> key < High(x) \/ (key = High(x) /\ low <= Low(x))
    BY HalvesOrder
  <2>3. x <= end <=> High(x) < hi \/ (High(x) = hi /\ Low(x) <= Low(end))
    BY HalvesOrder
  <2>4. High(x) \in Int /\ Low(x) \in Int /\ key \in Int /\ hi \in Int /\ low \in Int
    BY <1>1, <2>1
  <2>5. High(x) = key /\ Low(x) < low => x <= end
    <3>1. High(x) = key /\ Low(x) < low => ~(start <= x)
      BY <2>2, <2>4
    <3> QED
      BY <1>1, <3>1
  <2> HIDE DEF key, low, hi
  <2> QED
    BY <2>1, <2>2, <2>3, <2>4, <2>5
<1>5. ASSUME NEW x \in S PROVE x \in Q <=> High(x) = key /\ Low(x) < low
  <2>1. High(x) = key => Low(x) \in ChunksOf(S)[key]
    BY <1>2, <1>4
  <2> QED
    BY <2>1
<1> HIDE DEF key, low, hi, below
<1>6. P \cap Q = {} /\ P \in SUBSET Uint32 /\ Q \in SUBSET Uint32
  <2>1. P \subseteq S /\ Q \subseteq S /\ \A x \in P : start <= x
    BY <1>1
  <2>2. ASSUME NEW x \in S, x \in P, x \in Q PROVE FALSE
    <3>1. key < High(x) \/ (key = High(x) /\ low <= Low(x))
      BY <1>4, <2>1, <2>2
    <3>2. High(x) = key /\ Low(x) < low
      BY <1>5, <2>2
    <3>3. High(x) \in Int /\ Low(x) \in Int /\ low \in Int
      BY <1>1, <1>4
    <3> HIDE DEF P, Q
    <3> QED
      BY <3>1, <3>2, <3>3
  <2> HIDE DEF P, Q
  <2> QED
    BY <2>1, <2>2
<1>7. InSpan(S, key, hi, end) = P \cup Q
  <2>1. \A x \in S : High(x) \in Int /\ Low(x) \in Int /\ key \in Int /\ hi \in Int /\ low \in Int /\ x \in Int
    BY <1>1, <1>4
  <2>2. ASSUME NEW x \in S
        PROVE  (High(x) \in key..hi /\ x <= end) <=> x \in P \/ x \in Q
    <3>1. x \in P <=> start <= x /\ x <= end
      BY <1>1
    <3> HIDE DEF P, Q
    <3> QED
      BY <1>1, <1>4, <1>5, <2>1, <3>1
  <2>3. P \subseteq S /\ Q \subseteq S
    OBVIOUS
  <2> HIDE DEF P, Q
  <2> QED
    BY <2>2, <2>3 DEF InSpan
<1> HIDE DEF P, Q
<1>8. Cardinality(P) \in Nat /\ Cardinality(Q) \in Nat /\ Cardinality(P \cup Q) = Cardinality(P) + Cardinality(Q)
  BY <1>6, DisjointValues
<1>9. Cardinality(below) \in Nat /\ Cardinality(P) = Cardinality(InSpan(S, key, hi, end)) - Cardinality(below)
  BY <1>3, <1>7, <1>8
<1> QED
  BY <1>9 DEF P, key, hi, below, low

\* roaring_bitmap_range_cardinality_closed.
LEMMA RangeCounted ==
  ASSUME NEW S \in SUBSET Uint32, NEW r, Holds(r, ChunksOf(S)),
         NEW start \in Uint32, NEW end \in Uint32, start <= end
  PROVE  roaring_bitmap_range_cardinality_closed(r, start, end) = Cardinality((start..end) \cap S)
<1> DEFINE lo == High(start)
           hi == High(end)
           i == ra_get_index(r, lo)
           at == IF i >= 0 THEN i ELSE -i - 1
           top == count_less(r, Len(r), hi + 1)
           below == {v \in ChunksOf(S)[lo] : v < Low(start)}
           skipped == IF i >= 0 /\ Low(start) # 0
                      THEN container_rank(r[i + 1].container, Low(start) - 1) ELSE 0
<1>1. lo \in Keys /\ hi \in Keys /\ lo <= hi /\ Low(start) \in Lows /\ \A h \in Keys : h \in Int
  BY HalvesOf, RangeKeys, Sizes
<1>2. /\ i \in Int /\ at \in 0..Len(r)
      /\ i >= 0 <=> ChunksOf(S)[lo] # {}
      /\ i >= 0 => /\ i + 1 \in 1..Len(r)
                   /\ r[i + 1].key = lo /\ r[i + 1].container = ChunksOf(S)[lo]
      /\ \A j \in 1..at : r[j].key < lo
      /\ \A j \in (at + 1)..Len(r) : r[j].key >= lo
  BY <1>1, FoundAt
<1>3. /\ top \in 0..Len(r)
      /\ \A j \in 1..top : r[j].key <= hi
      /\ \A j \in (top + 1)..Len(r) : r[j].key > hi
  BY <1>1, NotAbove
<1>4. roaring_bitmap_range_cardinality_closed(r, start, end) = Summed(r, at, top, end) - skipped
  <2>1. start \in Int /\ end \in Int /\ ~(start > end)
    BY UniverseType DEF Uint32
  <2> QED
    BY <2>1 DEF roaring_bitmap_range_cardinality_closed, Summed, UpTo
<1>5. ChunksOf(S)[lo] \in SUBSET Lows /\ Len(r) \in Nat
  BY <1>1, ChunksOfType DEF Holds
<1> HIDE DEF at, top
<1>6. skipped = Cardinality(below)
  <2>1. \A v \in Lows : v \in Nat
    BY Sizes
  <2>2. CASE i >= 0 /\ Low(start) # 0
    <3>1. \A v \in ChunksOf(S)[lo] : v <= Low(start) - 1 <=> v < Low(start)
      BY <1>1, <1>5, <2>1
    <3>2. skipped = Cardinality({v \in ChunksOf(S)[lo] : v <= Low(start) - 1})
      BY <1>2, <2>2 DEF container_rank
    <3>3. {v \in ChunksOf(S)[lo] : v <= Low(start) - 1} = below
      BY <3>1
    <3> QED
      BY <3>2, <3>3
  <2>3. CASE ~(i >= 0 /\ Low(start) # 0)
    <3>1. below = {}
      BY <1>1, <1>2, <1>5, <2>1, <2>3
    <3>2. skipped = 0
      BY <2>3
    <3> QED
      BY <3>1, <3>2, FS_EmptySet
  <2> QED
    BY <2>2, <2>3
<1> HIDE DEF i, lo, hi, skipped, below
<1>7. top >= at
  <2>1. SUFFICES ASSUME top < at PROVE FALSE
    BY <1>2, <1>3, <1>5
  <2>2. at \in 1..at /\ at \in (top + 1)..Len(r)
    BY <1>2, <1>3, <1>5, <2>1
  <2>3. r[at].key < lo /\ r[at].key > hi
    BY <1>2, <1>3, <2>2
  <2>4. r[at].key \in Int
    <3>1. at \in 1..Len(r)
      BY <1>2, <1>5, <2>2
    <3> QED
      BY <3>1 DEF Holds, Covers
  <2> QED
    BY <1>1, <2>3, <2>4
<1>8. at \in 0..Len(r) /\ top \in at..Len(r)
  BY <1>2, <1>3, <1>5, <1>7
<1>9. Summed(r, at, top, end) = Cardinality(InSpan(S, lo, LastKey(r, lo, top, at), end))
  BY <1>1, <1>2, <1>3, <1>8, SummedCorrect DEF hi
<1>10. InSpan(S, lo, LastKey(r, lo, top, at), end) = InSpan(S, lo, hi, end)
  BY <1>1, <1>2, <1>3, <1>8, SpanReached
<1>11. Cardinality((start..end) \cap S) = Cardinality(InSpan(S, lo, hi, end)) - Cardinality(below)
  BY SpanLessSkipped DEF lo, hi, below
<1> QED
  BY <1>4, <1>6, <1>9, <1>10, <1>11

\* The entries from place p to place q stand for the keys from lo to hi, one each.
OneEach(r, p, q, lo, hi) == q - p = hi - lo /\ \A j \in 0..(hi - lo) : r[p + j].key = lo + j

\* Places of two entries at a distance that leaves no key between them out.
LEMMA NoneMissing ==
  ASSUME NEW r, NEW p \in Int, NEW q \in Int, NEW lo \in Int, NEW hi \in Int, lo <= hi,
         \A j \in p..q : r[j].key \in Int,
         \A i, j \in p..q : i < j => r[i].key < r[j].key,
         r[p].key = lo, r[q].key = hi, q - p = hi - lo
  PROVE  OneEach(r, p, q, lo, hi)
<1> DEFINE n == hi - lo
<1>1. n \in Nat /\ q = p + n /\ hi = lo + n
  OBVIOUS
<1> DEFINE T == {j \in 0..n : r[p + j].key >= lo + j}
           U == {j \in 0..n : r[q - j].key <= hi - j}
<1>2. \A j \in 0..n : p + j \in p..q /\ q - j \in p..q
  BY <1>1
<1> HIDE DEF n
<1>3. 0 \in T /\ 0 \in U
  <2>1. p + 0 = p /\ q - 0 = q /\ lo + 0 = lo /\ hi - 0 = hi /\ 0 \in 0..n
    BY <1>1
  <2>2. lo >= lo /\ hi <= hi
    OBVIOUS
  <2> QED
    BY <2>1, <2>2
<1>4. ASSUME NEW j \in 1..n, j - 1 \in T PROVE j \in T
  <2>1. p + (j - 1) \in p..q /\ p + j \in p..q /\ p + (j - 1) < p + j /\ j \in 0..n
    BY <1>1
  <2>2. r[p + (j - 1)].key < r[p + j].key
    BY <2>1
  <2>3. r[p + (j - 1)].key >= lo + (j - 1)
    BY <1>4
  <2>4. r[p + (j - 1)].key \in Int /\ r[p + j].key \in Int
    BY <2>1
  <2>5. r[p + j].key >= lo + j
    BY <2>2, <2>3, <2>4
  <2> QED
    BY <2>1, <2>5
<1>5. ASSUME NEW j \in 1..n, j - 1 \in U PROVE j \in U
  <2>1. q - (j - 1) \in p..q /\ q - j \in p..q /\ q - j < q - (j - 1) /\ j \in 0..n
    BY <1>1
  <2>2. r[q - j].key < r[q - (j - 1)].key
    BY <2>1
  <2>3. r[q - (j - 1)].key <= hi - (j - 1)
    BY <1>5
  <2>4. r[q - (j - 1)].key \in Int /\ r[q - j].key \in Int
    BY <2>1
  <2>5. r[q - j].key <= hi - j
    BY <2>2, <2>3, <2>4
  <2> QED
    BY <2>1, <2>5
<1>6. ASSUME NEW m \in 0..n PROVE m \in T /\ m \in U
  <2>1. m \in Nat /\ \A j \in 1..m : j \in 1..n
    BY <1>1
  <2> HIDE DEF T, U
  <2>2. m \in T
    BY <1>3, <1>4, <2>1, BoundedInduction
  <2>3. m \in U
    BY <1>3, <1>5, <2>1, BoundedInduction
  <2> QED
    BY <2>2, <2>3
<1>7. ASSUME NEW j \in 0..n PROVE r[p + j].key = lo + j
  <2>1. n - j \in 0..n /\ q - (n - j) = p + j /\ hi - (n - j) = lo + j /\ p + j \in p..q
    BY <1>1
  <2>2. r[p + j].key >= lo + j
    BY <1>6
  <2>3. r[q - (n - j)].key <= hi - (n - j)
    BY <1>6, <2>1
  <2>4. r[p + j].key <= lo + j
    BY <2>1, <2>3
  <2>5. r[p + j].key \in Int /\ lo + j \in Int
    BY <2>1
  <2> QED
    BY <2>2, <2>4, <2>5
<1> QED
  BY <1>7 DEF OneEach, n

\* No chunk from lo to hi is empty.
NoGap(C, lo, hi) == \A h \in lo..hi : C[h] # {}

\* Without a gap, two keys are as far apart in the array as they are in value.
LEMMA AllThere ==
  ASSUME NEW r, NEW C, Holds(r, C), NEW lo \in Keys, NEW hi \in Keys, lo <= hi,
         NoGap(C, lo, hi),
         NEW p \in 1..Len(r), r[p].key = lo, NEW q \in 1..Len(r), r[q].key = hi
  PROVE  q - p = hi - lo
<1> DEFINE n == hi - lo
           T == {j \in 0..n : p + j \in 1..Len(r) /\ r[p + j].key = lo + j}
<1>1. /\ Len(r) \in Nat /\ p \in Int /\ q \in Int /\ lo \in Int /\ hi \in Int /\ n \in Nat
      /\ lo + n = hi
  BY Sizes DEF Holds
<1>2. /\ \A i \in 1..Len(r) : r[i].key \in Int
      /\ \A i, j \in 1..Len(r) : i < j => r[i].key < r[j].key
  BY DEF Holds, Covers
<1>8. ASSUME NEW h \in lo..hi PROVE \E i \in 1..Len(r) : r[i].key = h
  <2>1. C[h] # {}
    BY DEF NoGap
  <2>2. KeyCount \in Nat /\ lo \in 0..(KeyCount - 1) /\ hi \in 0..(KeyCount - 1)
    BY Sizes
  <2>3. h \in 0..(KeyCount - 1)
    BY <2>2
  <2> QED
    BY <2>1, <2>3 DEF Holds, Covers
<1> HIDE DEF n
<1>3. 0 \in T
  <2>1. p + 0 = p /\ lo + 0 = lo /\ 0 \in 0..n
    BY <1>1
  <2> QED
    BY <2>1
<1>4. ASSUME NEW j \in 1..n, j - 1 \in T PROVE j \in T
  <2> DEFINE m == p + j
             k == lo + j
  <2>0. m \in Int /\ m - 1 = p + (j - 1) /\ k \in Int /\ k - 1 = lo + (j - 1)
    BY <1>1
  <2>1. m - 1 \in 1..Len(r) /\ r[m - 1].key = k - 1
    BY <1>4, <2>0
  <2>2. k \in lo..hi /\ j \in 0..n
    BY <1>1
  <2> HIDE DEF m, k
  <2>3. PICK i \in 1..Len(r) : r[i].key = k
    BY <1>8, <2>2
  <2>4. ASSUME i <= m - 1 PROVE FALSE
    <3>1. i = m - 1 \/ i < m - 1
      BY <2>0, <2>4
    <3>2. i < m - 1 => k < k - 1
      BY <1>2, <2>1, <2>3
    <3> QED
      BY <2>0, <2>1, <2>3, <3>1, <3>2
  <2>5. ASSUME i > m PROVE FALSE
    <3>1. m \in 1..Len(r) /\ m - 1 < m /\ m < i
      BY <2>0, <2>1, <2>5
    <3>2. r[m - 1].key < r[m].key /\ r[m].key < r[i].key
      BY <1>2, <2>1, <3>1
    <3>3. k - 1 < r[m].key /\ r[m].key < k /\ r[m].key \in Int
      BY <1>2, <2>1, <2>3, <3>1, <3>2
    <3> QED
      BY <2>0, <3>3
  <2>6. i = m
    BY <2>0, <2>4, <2>5
  <2>7. p + j \in 1..Len(r) /\ r[p + j].key = lo + j
    BY <2>3, <2>6 DEF m, k
  <2> QED
    BY <2>2, <2>7
<1>5. n \in T
  <2> HIDE DEF T
  <2> QED
    BY <1>1, <1>3, <1>4, BoundedInduction
<1> DEFINE e == p + n
<1>6. e \in 1..Len(r) /\ r[e].key = hi
  BY <1>1, <1>5
<1> HIDE DEF e
<1>7. e = q
  <2>1. e < q => hi < hi
    BY <1>2, <1>6
  <2>2. q < e => hi < hi
    BY <1>2, <1>6
  <2> QED
    BY <1>1, <1>6, <2>1, <2>2
<1> QED
  BY <1>1, <1>7 DEF e, n

\* A full chunk.
LEMMA FullChunk ==
  ASSUME NEW T \in SUBSET Lows
  PROVE  Cardinality(T) = ChunkSize <=> Lows \subseteq T
<1>1. IsFiniteSet(Lows) /\ Cardinality(Lows) = ChunkSize
  <2>1. IsFiniteSet(0..(ChunkSize - 1)) /\ Cardinality(0..(ChunkSize - 1)) = ChunkSize
    BY Sizes, FS_Interval
  <2> QED
    BY <2>1, Sizes
<1>2. Cardinality(T) = Cardinality(Lows) => T = Lows
  BY <1>1, FS_Subset
<1>3. Lows \subseteq T => T = Lows
  OBVIOUS
<1> QED
  BY <1>1, <1>2, <1>3

\* A range is contained when its part of every chunk is.
LEMMA ContainedByParts ==
  ASSUME NEW S \in SUBSET Uint32, NEW start \in Uint32, NEW end \in Uint32, start <= end
  PROVE  start..end \subseteq S
           <=> \A h \in High(start)..High(end) : PartOf(start, end, h) \subseteq ChunksOf(S)[h]
<1> DEFINE C == ChunksOf(S)
           lo == High(start)
           hi == High(end)
<1>1. /\ lo..hi \subseteq Keys
      /\ \A h \in lo..hi : PartOf(start, end, h) \in SUBSET Lows
  BY RangeKeys
<1>2. \A h \in Keys, v \in Lows : v \in C[h] <=> h * ChunkSize + v \in S
  BY ChunksOfType
<1>3. start \in Int /\ end \in Int /\ \A x \in start..end : x \in Uint32
  BY UniverseType DEF Uint32
<1>4. ASSUME start..end \subseteq S, NEW h \in lo..hi, NEW v \in PartOf(start, end, h) PROVE v \in C[h]
  <2> DEFINE x == h * ChunkSize + v
  <2>1. h \in Keys /\ v \in Lows
    BY <1>1
  <2>2. start <= x /\ x <= end
    BY <1>4, <2>1, PartMembers
  <2>3. x \in Int
    BY <2>1, ValueOf DEF Uint32
  <2> HIDE DEF x
  <2>4. x \in S
    BY <1>3, <1>4, <2>2, <2>3
  <2> QED
    BY <1>2, <2>1, <2>4 DEF x
<1>5. ASSUME \A h \in lo..hi : PartOf(start, end, h) \subseteq C[h], NEW x \in start..end PROVE x \in S
  <2>1. x \in Uint32 /\ High(x) \in Keys /\ Low(x) \in Lows /\ x = High(x) * ChunkSize + Low(x)
    BY <1>3, HalvesOf
  <2>2. start <= x /\ x <= end
    BY <1>3
  <2>3. High(x) \in lo..hi /\ Low(x) \in PartOf(start, end, High(x))
    BY <2>1, <2>2, PartMembers
  <2>4. Low(x) \in C[High(x)]
    BY <1>5, <2>3
  <2> QED
    BY <1>2, <2>1, <2>4
<1> HIDE DEF C, lo, hi
<1>6. start..end \subseteq S <=> \A h \in lo..hi : PartOf(start, end, h) \subseteq C[h]
  BY <1>4, <1>5
<1> QED
  BY <1>6 DEF C, lo, hi

\* The entries that contains_range looks at, for a range of more than one value.
Spanned(r, start, end) ==
  LET is == ra_get_index(r, High(start))
      ie == ra_get_index(r, High(end))
      span == High(end) - High(start)
  IN  /\ is >= 0 /\ ie >= 0 /\ ie - is = span
      /\ IF span = 0 THEN Low(start)..Low(end) \subseteq r[is + 1].container
         ELSE /\ Low(start)..LowMax \subseteq r[is + 1].container
              /\ 0..Low(end) \subseteq r[ie + 1].container
              /\ \A i \in is + 1 .. ie - 1 : Cardinality(r[i + 1].container) = ChunkSize

\* The rows of a range hold it exactly when each of its keys has its part.
LEMMA SpannedCorrect ==
  ASSUME NEW r, NEW C, Holds(r, C), NEW start \in Uint32, NEW end \in Uint32, start <= end
  PROVE  /\ Spanned(r, start, end)
              <=> \A h \in High(start)..High(end) : PartOf(start, end, h) \subseteq C[h]
         /\ Spanned(r, start, end) => Len(r) >= High(end) - High(start) + 1
<1> DEFINE lo == High(start)
           hi == High(end)
           is == ra_get_index(r, lo)
           ie == ra_get_index(r, hi)
           span == hi - lo
           sl == Low(start)
           el == Low(end)
           Part(h) == PartOf(start, end, h)
           In == \A h \in lo..hi : Part(h) \subseteq C[h]
<1>1. /\ lo \in Keys /\ hi \in Keys /\ lo <= hi /\ lo..hi \subseteq Keys
      /\ \A h \in lo..hi : Part(h) # {}
      /\ \A h \in Keys : h \in Int
      /\ sl \in Lows /\ el \in Lows
  BY HalvesOf, RangeKeys, Sizes
<1>2. /\ is \in Int /\ ie \in Int
      /\ is >= 0 <=> C[lo] # {}
      /\ ie >= 0 <=> C[hi] # {}
      /\ is >= 0 => is + 1 \in 1..Len(r) /\ r[is + 1].key = lo /\ r[is + 1].container = C[lo]
      /\ ie >= 0 => ie + 1 \in 1..Len(r) /\ r[ie + 1].key = hi /\ r[ie + 1].container = C[hi]
  BY <1>1, FoundAt
<1>3. \A h \in lo..hi : Part(h) = (IF h = lo THEN sl ELSE 0)..(IF h = hi THEN el ELSE LowMax)
  BY DEF PartOf
<1>4. \A h \in Keys : C[h] \in SUBSET Lows
  BY DEF Holds, Chunks
<1>5. /\ Len(r) \in Nat
      /\ \A i \in 1..Len(r) : r[i].key \in Keys /\ r[i].container = C[r[i].key]
      /\ \A i, j \in 1..Len(r) : i < j => r[i].key < r[j].key
  BY Sizes DEF Holds, Covers
<1>6. Lows = 0..LowMax
  BY Sizes
<1>7. Spanned(r, start, end)
        <=> /\ is >= 0 /\ ie >= 0 /\ ie - is = span
            /\ IF span = 0 THEN sl..el \subseteq r[is + 1].container
               ELSE /\ sl..LowMax \subseteq r[is + 1].container
                    /\ 0..el \subseteq r[ie + 1].container
                    /\ \A i \in is + 1 .. ie - 1 : Cardinality(r[i + 1].container) = ChunkSize
  BY DEF Spanned
<1> HIDE DEF is, ie, lo, hi, sl, el, Part
<1>8. ASSUME Spanned(r, start, end) PROVE In /\ Len(r) >= span + 1
  <2>1. is >= 0 /\ ie >= 0 /\ ie - is = span
    BY <1>7, <1>8
  <2>2. is + 1 \in 1..Len(r) /\ ie + 1 \in 1..Len(r)
    BY <1>2, <2>1
  <2>3. Len(r) >= span + 1
    BY <1>1, <1>2, <1>5, <2>1, <2>2
  <2> DEFINE p == is + 1
             q == ie + 1
  <2>4. OneEach(r, p, q, lo, hi)
    <3>1. \A j \in p..q : j \in 1..Len(r)
      BY <1>2, <1>5, <2>2
    <3>2. q - p = hi - lo /\ p \in Int /\ q \in Int
      BY <1>1, <1>2, <2>1
    <3>3. r[p].key = lo /\ r[q].key = hi
      BY <1>2, <2>1
    <3>4. \A j \in p..q : r[j].key \in Int
      BY <1>1, <1>5, <3>1
    <3>5. \A i, j \in p..q : i < j => r[i].key < r[j].key
      BY <1>5, <3>1
    <3> HIDE DEF p, q
    <3> QED
      BY <1>1, <3>2, <3>3, <3>4, <3>5, NoneMissing
  <2>5. ASSUME NEW h \in lo..hi PROVE Part(h) \subseteq C[h]
    <3>1. CASE h = lo
      <4>1. r[is + 1].container = C[h]
        BY <1>2, <2>1, <3>1
      <4>2. span = 0 <=> h = hi
        BY <1>1, <3>1
      <4> QED
        BY <1>3, <1>7, <1>8, <3>1, <4>1, <4>2
    <3>2. CASE h = hi /\ h # lo
      <4>1. r[ie + 1].container = C[h]
        BY <1>2, <2>1, <3>2
      <4>2. span # 0
        BY <1>1, <3>2
      <4> QED
        BY <1>3, <1>7, <1>8, <3>2, <4>1, <4>2
    <3>3. CASE h # lo /\ h # hi
      <4>1. h - lo \in 0..(hi - lo) /\ is + (h - lo) \in is + 1 .. ie - 1 /\ span # 0
        BY <1>1, <1>2, <2>1, <3>3
      <4>2. r[p + (h - lo)].key = lo + (h - lo)
        BY <2>4, <4>1 DEF OneEach
      <4>0. h \in Int /\ lo \in Int /\ is \in Int /\ ie \in Int
        BY <1>1, <1>2
      <4>3. lo + (h - lo) = h /\ p + (h - lo) = (is + (h - lo)) + 1
        BY <4>0
      <4>6. (is + (h - lo)) + 1 \in 1..Len(r)
        BY <1>5, <2>1, <2>2, <4>0, <4>1
      <4>4. r[(is + (h - lo)) + 1].container = C[h]
        BY <1>5, <4>2, <4>3, <4>6
      <4>5. Cardinality(C[h]) = ChunkSize
        BY <1>7, <1>8, <4>1, <4>4
      <4>7. Lows \subseteq C[h]
        BY <1>1, <1>4, <4>5, FullChunk
      <4> QED
        BY <1>3, <1>6, <3>3, <4>7
    <3> QED
      BY <3>1, <3>2, <3>3
  <2> QED
    BY <2>3, <2>5
<1>9. ASSUME In PROVE Spanned(r, start, end)
  <2>1. \A h \in lo..hi : C[h] # {}
    BY <1>1, <1>9
  <2>2. is >= 0 /\ ie >= 0 /\ lo \in lo..hi /\ hi \in lo..hi
    BY <1>1, <1>2, <2>1
  <2> DEFINE p == is + 1
             q == ie + 1
  <2>3. p \in 1..Len(r) /\ r[p].key = lo /\ q \in 1..Len(r) /\ r[q].key = hi
    BY <1>2, <2>2
  <2>4. q - p = hi - lo
    <3>1. lo \in Keys /\ hi \in Keys /\ lo <= hi /\ NoGap(C, lo, hi)
      BY <1>1, <2>1 DEF NoGap
    <3> HIDE DEF p, q
    <3> QED
      BY <2>3, <3>1, AllThere
  <2>5. ie - is = span
    BY <1>1, <1>2, <2>4
  <2>6. OneEach(r, p, q, lo, hi)
    <3>1. \A j \in p..q : j \in 1..Len(r)
      BY <1>2, <1>5, <2>3
    <3>2. p \in Int /\ q \in Int
      BY <1>2
    <3>3. \A j \in p..q : r[j].key \in Int
      BY <1>1, <1>5, <3>1
    <3>4. \A i, j \in p..q : i < j => r[i].key < r[j].key
      BY <1>5, <3>1
    <3> HIDE DEF p, q
    <3> QED
      BY <1>1, <2>3, <2>4, <3>2, <3>3, <3>4, NoneMissing
  <2>7. ASSUME NEW i \in is + 1 .. ie - 1 PROVE Cardinality(r[i + 1].container) = ChunkSize
    <3> DEFINE h == lo + (i - is)
    <3>1. /\ i - is \in 0..(hi - lo) /\ p + (i - is) = i + 1 /\ i + 1 \in 1..Len(r)
          /\ h \in lo..hi /\ h # lo /\ h # hi
      BY <1>1, <1>2, <1>5, <2>3, <2>5
    <3>2. r[i + 1].key = h
      BY <2>6, <3>1 DEF OneEach
    <3> HIDE DEF h
    <3>3. r[i + 1].container = C[h]
      BY <1>5, <3>1, <3>2
    <3>4. Lows \subseteq C[h]
      BY <1>3, <1>6, <1>9, <3>1
    <3> QED
      BY <1>1, <1>4, <3>1, <3>3, <3>4, FullChunk
  <2>8. r[is + 1].container = C[lo] /\ r[ie + 1].container = C[hi]
    BY <1>2, <2>2
  <2>9. span = 0 <=> lo = hi
    BY <1>1
  <2>10. Part(lo) \subseteq C[lo] /\ Part(hi) \subseteq C[hi]
    BY <1>9, <2>2
  <2>11. CASE lo = hi
    <3>1. sl..el \subseteq r[is + 1].container
      BY <1>3, <2>2, <2>8, <2>10, <2>11
    <3> QED
      BY <1>7, <2>2, <2>5, <2>9, <2>11, <3>1
  <2>12. CASE lo # hi
    <3>1. sl..LowMax \subseteq r[is + 1].container /\ 0..el \subseteq r[ie + 1].container
      BY <1>3, <2>2, <2>8, <2>10, <2>12
    <3> QED
      BY <1>7, <2>2, <2>5, <2>7, <2>9, <2>12, <3>1
  <2> QED
    BY <2>11, <2>12
<1>10. Spanned(r, start, end) <=> In
  BY <1>8, <1>9
<1> QED
  BY <1>8, <1>10 DEF lo, hi, Part

\* roaring_bitmap_contains_range_closed.
LEMMA RangeContained ==
  ASSUME NEW S \in SUBSET Uint32, NEW r, Holds(r, ChunksOf(S)),
         NEW start \in Uint32, NEW end \in Uint32, start <= end
  PROVE  roaring_bitmap_contains_range_closed(r, start, end) <=> start..end \subseteq S
<1> DEFINE C == ChunksOf(S)
           is == ra_get_index(r, High(start))
<1>1. start \in Int /\ end \in Int /\ ~(start > end)
  BY UniverseType DEF Uint32
<1>2. CASE start = end
  <2>1. roaring_bitmap_contains_range_closed(r, start, end) <=> is >= 0 /\ Low(start) \in r[is + 1].container
    BY <1>1, <1>2 DEF roaring_bitmap_contains_range_closed
  <2>2. High(start) \in Keys /\ Low(start) \in Lows /\ start = High(start) * ChunkSize + Low(start)
    BY HalvesOf
  <2>3. Low(start) \in C[High(start)] <=> start \in S
    BY <2>2, ChunksOfType
  <2>4. (is >= 0 <=> C[High(start)] # {}) /\ (is >= 0 => r[is + 1].container = C[High(start)])
    BY <2>2, FoundAt
  <2> HIDE DEF is, C
  <2>5. start..end = {start}
    BY <1>1, <1>2
  <2> QED
    BY <2>1, <2>3, <2>4, <2>5
<1>3. CASE start # end
  <2>1. roaring_bitmap_contains_range_closed(r, start, end)
          <=> Len(r) >= High(end) - High(start) + 1 /\ Spanned(r, start, end)
    BY <1>1, <1>3 DEF roaring_bitmap_contains_range_closed, Spanned
  <2>2. /\ Spanned(r, start, end)
             <=> \A h \in High(start)..High(end) : PartOf(start, end, h) \subseteq C[h]
        /\ Spanned(r, start, end) => Len(r) >= High(end) - High(start) + 1
    BY SpannedCorrect
  <2> QED
    BY <2>1, <2>2, ContainedByParts
<1> QED
  BY <1>2, <1>3

-----------------------------------------------------------------------------
(* The invariant.                                                          *)

\* The invariant holds at first.
LEMMA InvInit ==
  Init => IInv
  BY NoValues DEF Init, IInv, Keeps, NoLoop

\* A call that is not the start of the loop.
LEMMA InvCall ==
  ASSUME NEW r, NEW S, Keeps(r, S), Call(r, S)
  PROVE  IInv'
  BY DEF Call, IInv, Keeps

\* Every step keeps the invariant.
LEMMA InvNext ==
  ASSUME IInv, [Next]_vars
  PROVE  IInv'
<1>1. CASE UNCHANGED vars
  BY <1>1 DEF vars, IInv
<1>2. CASE loop = NoLoop /\ Next
  <2>0. loop = NoLoop /\ Keeps(ra, members) /\ members \in SUBSET Uint32
    BY <1>2 DEF IInv
  <2>1. ASSUME NEW x \in 0 .. Universe - 1, AddValue(x) PROVE IInv'
    <3>1. x \in Uint32
      BY DEF Uint32
    <3>2. Keeps(roaring_bitmap_add(ra, x), members \cup {x})
      BY <2>0, <3>1, KeepsValue
    <3> QED
      BY <2>1, <3>2, InvCall DEF AddValue
  <2>2. ASSUME NEW x \in 0 .. Universe - 1, RemoveValue(x) PROVE IInv'
    <3>1. x \in Uint32
      BY DEF Uint32
    <3>2. Keeps(roaring_bitmap_remove(ra, x), members \ {x})
      BY <2>0, <3>1, KeepsValue
    <3> QED
      BY <2>2, <3>2, InvCall DEF RemoveValue
  <2>3. ASSUME NEW min \in 0..Universe, NEW max \in 0..Universe, AddRange(min, max) PROVE IInv'
    <3>1. Keeps(roaring_bitmap_add_range(ra, min, max), members \cup Range32(min, max))
      BY <2>0, KeepsAddedRange
    <3> QED
      BY <2>3, <3>1, InvCall DEF AddRange
  <2>4. ASSUME NEW min \in 0..Universe, NEW max \in 0..Universe, RemoveRange(min, max) PROVE IInv'
    <3>1. Keeps(roaring_bitmap_remove_range(ra, min, max), members \ Range32(min, max))
      BY <2>0, KeepsRemovedRange
    <3> QED
      BY <2>4, <3>1, InvCall DEF RemoveRange
  <2>5. ASSUME NEW min \in 0..Universe, NEW max \in 0..Universe, Flip(min, max) PROVE IInv'
    <3>1. Keeps(roaring_bitmap_flip(ra, min, max), SymDiff(members, Range32(min, max)))
      BY <2>0, KeepsFlipped
    <3> QED
      BY <2>5, <3>1, InvCall DEF Flip
  <2>6. ASSUME NEW min \in 0..Universe, NEW max \in 0..Universe, FlipInplace(min, max) PROVE IInv'
    <3>1. Keeps(roaring_bitmap_flip_inplace(ra, min, max), SymDiff(members, Range32(min, max)))
      BY <2>0, KeepsFlipped
    <3> QED
      BY <2>6, <3>1, InvCall DEF FlipInplace
  <2>7. ASSUME NEW min \in 0..Universe, NEW max \in 0..Universe, NEW step \in 1 .. ChunkSize - 1,
               FromRange(min, max, step)
        PROVE  IInv'
    <3>1. Capped(max) = max
      BY SteppedRange
    <3>2. min < max
      BY <2>7, <3>1, UniverseType DEF FromRange
    <3>3. step \in Nat \ {0}
      BY Sizes
    <3>4. Keeps(from_range_chunks(min, Capped(max), step), Steps(min, max, step))
      BY <3>2, <3>3, KeepsStepped
    <3> QED
      BY <2>7, <3>4, InvCall DEF FromRange
  <2>8. ASSUME NEW offset \in (1 - Universe) .. (Universe - 1), AddOffset(offset) PROVE IInv'
    <3>1. offset \in Int
      OBVIOUS
    <3>2. Keeps(roaring_bitmap_add_offset(ra, offset), {x + offset : x \in members} \cap (0 .. Universe - 1))
      BY <2>0, <3>1, KeepsShifted
    <3> QED
      BY <2>8, <3>2, InvCall DEF AddOffset
  <2>9. ASSUME NEW min \in 0..Universe, NEW max \in 0..Universe, NEW step \in ChunkSize .. Universe - 1,
               max + step <= Universe, FromRangeLoop(min, max, step)
        PROVE  IInv'
    <3>1. /\ Capped(max) = max /\ members' = Stepped(min, max, step) /\ members' \in SUBSET Uint32
          /\ ra' = <<>>
          /\ loop' = [value |-> min, max |-> max, step |-> step]
      BY <2>9, SteppedRange DEF FromRangeLoop
    <3>2. min \in Nat /\ max \in Nat /\ step \in Nat \ {0}
      BY UniverseType, Sizes
    <3>3. Looping(ra', members', loop')
      BY <2>9, <3>1, <3>2, LoopStarts
    <3>4. loop' # NoLoop
      BY <3>1, <3>2 DEF NoLoop
    <3> QED
      BY <3>1, <3>3, <3>4 DEF IInv
  <2>10. ~Turn
    BY <2>0 DEF Turn, FromRangeTurn, FromRangeReturn
  <2> QED
    BY <1>2, <2>1, <2>2, <2>3, <2>4, <2>5, <2>6, <2>7, <2>8, <2>9, <2>10 DEF Next, RangeCalls
<1>3. CASE loop # NoLoop /\ Next
  <2>0. Looping(ra, members, loop) /\ members \in SUBSET Uint32
    BY <1>3 DEF IInv
  <2>1. Turn
    BY <1>3 DEF Next, RangeCalls, AddValue, RemoveValue, AddRange, RemoveRange, Flip, FlipInplace,
                FromRange, AddOffset, Call, FromRangeLoop
  <2>2. CASE FromRangeTurn
    <3> DEFINE r == roaring_bitmap_add(ra, loop.value)
               l == [loop EXCEPT !.value = U32(@ + loop.step)]
    <3>1. ra' = r /\ loop' = l /\ members' = members
      BY <2>2 DEF FromRangeTurn
    <3>2. Looping(r, members, l)
      BY <2>0, <2>2, LoopTurns DEF FromRangeTurn
    <3> HIDE DEF r, l
    <3>3. l # NoLoop
      BY <3>2 DEF Looping, NoLoop
    <3> QED
      BY <2>0, <3>1, <3>2, <3>3 DEF IInv
  <2>3. CASE FromRangeReturn
    <3>1. Keeps(ra, members)
      BY <2>0, <2>3, LoopEnds DEF FromRangeReturn
    <3> QED
      BY <2>0, <2>3, <3>1 DEF FromRangeReturn, IInv
  <2> QED
    BY <2>1, <2>2, <2>3 DEF Turn
<1> QED
  BY <1>1, <1>2, <1>3

\* Entries in the order that the searches rely on.
LEMMA HeldSorted ==
  ASSUME NEW C, Holds(ra, C)
  PROVE  KeysSorted
<1>1. Keys = 0..(KeyCount - 1) /\ ra \in Seq(Rows) /\ Len(ra) \in Nat /\ C \in Chunks
  BY Sizes DEF Holds
<1>2. /\ \A i \in 1 .. Len(ra) : /\ ra[i].key \in Keys /\ ra[i].container = C[ra[i].key]
                                 /\ ra[i].container # {}
      /\ \A i, j \in 1 .. Len(ra) : i < j => ra[i].key < ra[j].key
  BY <1>1 DEF Holds, Covers
<1>3. \A i \in 2 .. Len(ra) : ra[i - 1].key < ra[i].key
  <2>1. \A i \in 2 .. Len(ra) : i - 1 \in 1 .. Len(ra) /\ i \in 1 .. Len(ra) /\ i - 1 < i
    BY <1>1
  <2> QED
    BY <1>2, <2>1
<1>4. \A i \in 1 .. Len(ra) : ra[i].container \in (SUBSET Lows) \ {{}}
  BY <1>1, <1>2 DEF Chunks
<1> QED
  BY <1>2, <1>3, <1>4 DEF KeysSorted

\* The invariant says which values there are.
LEMMA InvHolds ==
  ASSUME IInv
  PROVE  HoldsMembers
<1>1. CASE loop = NoLoop
  <2>1. members \in SUBSET Uint32 /\ Holds(ra, ChunksOf(members))
    BY <1>1 DEF IInv, Keeps
  <2>2. KeysSorted
    BY <2>1, HeldSorted
  <2>3. MembersOf(ra) = members
    BY <2>1, HeldMembers
  <2> QED
    BY <2>2, <2>3 DEF HoldsMembers
<1>2. CASE loop # NoLoop
  <2>1. Holds(ra, ChunksOf(Before(members, loop.value)))
    BY <1>2 DEF IInv, Looping
  <2> QED
    BY <1>2, <2>1, HeldSorted DEF HoldsMembers
<1> QED
  BY <1>1, <1>2

\* After every call the bitmap holds the values that roaring.h says it holds, in
\* ascending chunks none of which is empty: for all numbers of chunks and of
\* values in a chunk, and for any sequence of roaring_bitmap_add, remove,
\* add_range, remove_range, flip, flip_inplace, add_offset and from_range.
THEOREM RangesHoldMembers == Spec => []HoldsMembers
<1>1. Init => IInv
  BY InvInit
<1>2. IInv /\ [Next]_vars => IInv'
  BY InvNext
<1>3. IInv => HoldsMembers
  BY InvHolds
<1> QED
  BY <1>1, <1>2, <1>3, PTL DEF Spec

\* The invariant makes the range queries right.
LEMMA InvQueries ==
  ASSUME IInv
  PROVE  RangeQueriesAgree
<1>1. SUFFICES ASSUME loop = NoLoop, NEW start \in 0..Universe, NEW end \in 0..Universe
               PROVE  LET range == Range32(start, end)
                      IN  /\ roaring_bitmap_range_cardinality(ra, start, end)
                               = Cardinality(range \cap members)
                          /\ roaring_bitmap_contains_range(ra, start, end) <=> range \subseteq members
  BY DEF RangeQueriesAgree
<1>2. members \in SUBSET Uint32 /\ Holds(ra, ChunksOf(members))
  BY <1>1 DEF IInv, Keeps
<1>3. CASE EmptyRange(start, end)
  <2>1. Range32(start, end) = {}
    BY <1>3, NoRange
  <2>2. Cardinality({} \cap members) = 0
    BY FS_EmptySet
  <2> QED
    BY <1>3, <2>1, <2>2 DEF roaring_bitmap_range_cardinality, roaring_bitmap_contains_range
<1>4. CASE ~EmptyRange(start, end)
  <2> DEFINE a == U32(start)
             b == U32(end - 1)
  <2>1. a \in Uint32 /\ b \in Uint32 /\ a <= b /\ Range32(start, end) = a..b
    BY <1>4, ClosedRange
  <2>2. /\ roaring_bitmap_range_cardinality(ra, start, end) = roaring_bitmap_range_cardinality_closed(ra, a, b)
        /\ roaring_bitmap_contains_range(ra, start, end) = roaring_bitmap_contains_range_closed(ra, a, b)
    BY <1>4 DEF roaring_bitmap_range_cardinality, roaring_bitmap_contains_range
  <2> HIDE DEF a, b
  <2>3. roaring_bitmap_range_cardinality_closed(ra, a, b) = Cardinality((a..b) \cap members)
    BY <1>2, <2>1, RangeCounted
  <2>4. roaring_bitmap_contains_range_closed(ra, a, b) <=> a..b \subseteq members
    BY <1>2, <2>1, RangeContained
  <2> QED
    BY <2>1, <2>2, <2>3, <2>4
<1> QED
  BY <1>3, <1>4

\* roaring_bitmap_range_cardinality and roaring_bitmap_contains_range give, of
\* every range within the 32-bit values and in any state that the calls reach,
\* the number of values in it and whether it is full.
THEOREM RangeQueriesCorrect == Spec => []RangeQueriesAgree
<1>1. Init => IInv
  BY InvInit
<1>2. IInv /\ [Next]_vars => IInv'
  BY InvNext
<1>3. IInv => RangeQueriesAgree
  BY InvQueries
<1> QED
  BY <1>1, <1>2, <1>3, PTL DEF Spec
=============================================================================
