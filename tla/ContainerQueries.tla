-------------------------- MODULE ContainerQueries --------------------------
(***************************************************************************)
(* The queries on one container and on two (containers.h, bitset.c,        *)
(* array.h, mixed_intersection.c).  A bitset is scanned word by word; word *)
(* w holds the values w * WordBits .. w * WordBits + WordBits - 1.         *)
(***************************************************************************)
EXTENDS Container

CONSTANTS WordBits,   \* 64
          block_gap         \* 16: array_container_contains compares blocks of this size

\* bitset_container_maximum does not look at word 0: a bitset has more values
\* than an array, and so has one beyond the first word.
ASSUME WordsAssumption ==
  /\ WordBits \in Nat \ {0}
  /\ ChunkSize % WordBits = 0
  /\ WordBits <= DEFAULT_MAX_SIZE
  /\ block_gap \in Nat \ {0}

BITSET_CONTAINER_SIZE_IN_WORDS == ChunkSize \div WordBits

UINT16_MAX == ChunkSize - 1

NoValue == -1

array(c, i) == Values2Seq(c.set)[i + 1]
runs(c, i) == c.runs[i + 1]
n_runs(c) == Len(c.runs)

Word(set, w) == { v \in set : v \div WordBits = w }

\* The next words, up or down, until one is not zero: {} is a word of zeroes.
RECURSIVE NextWord(_, _)
NextWord(set, w) ==
  IF w + 1 >= BITSET_CONTAINER_SIZE_IN_WORDS THEN {}
  ELSE IF Word(set, w + 1) # {} THEN Word(set, w + 1) ELSE NextWord(set, w + 1)

RECURSIVE PrevWord(_, _)
PrevWord(set, w) ==
  IF w = 0 THEN {}
  ELSE IF Word(set, w - 1) # {} THEN Word(set, w - 1) ELSE PrevWord(set, w - 1)

\* The first bit at or after pos, the last at or before it.
BitFrom(set, pos) ==
  LET word == { v \in Word(set, pos \div WordBits) : v >= pos }
      found == IF word # {} THEN word ELSE NextWord(set, pos \div WordBits)
  IN  IF found = {} THEN NoValue ELSE Min(found)

BitDownFrom(set, pos) ==
  LET word == { v \in Word(set, pos \div WordBits) : v <= pos }
      found == IF word # {} THEN word ELSE PrevWord(set, pos \div WordBits)
  IN  IF found = {} THEN NoValue ELSE Max(found)

-----------------------------------------------------------------------------
(* Bitset containers.                                                      *)

\* hamming: the number of bits of a word.
hamming(word) == Cardinality(word)

bitset_container_get(c, pos) == pos \in Word(c.set, pos \div WordBits)

\* pos_end may be ChunkSize, one word past the last.
bitset_container_get_range(c, pos_start, pos_end) ==
  LET start == pos_start \div WordBits
      end == pos_end \div WordBits
      first == { v \in Word(Values, start) : v >= pos_start }
      last == { v \in Word(Values, end) : v < pos_end }
  IN  IF start = end
      THEN Word(c.set, end) \cap first \cap last = first \cap last
      ELSE /\ Word(c.set, start) \cap first = first
           /\ end < BITSET_CONTAINER_SIZE_IN_WORDS => Word(c.set, end) \cap last = last
           /\ \A i \in start + 1 .. end - 1 : Word(c.set, i) = Word(Values, i)

\* A word that rank only reaches the end of is walked through bit by bit too.
bitset_container_select(c, start_rank, rank) ==
  LET RECURSIVE select(_, _)
      select(i, start) ==
        LET size == hamming(Word(c.set, i))
        IN  IF rank \in start .. start + size - 1
            THEN Values2Seq(Word(c.set, i))[rank - start + 1]
            ELSE select(i + 1, start + size)
  IN  IF rank >= start_rank + c.card
      THEN [found |-> FALSE, start |-> start_rank + c.card]
      ELSE [found |-> TRUE, element |-> select(0, start_rank)]

bitset_container_minimum(c) ==
  IF BitFrom(c.set, 0) = NoValue THEN UINT16_MAX ELSE BitFrom(c.set, 0)

\* The loop ends before word 0.
bitset_container_maximum(c) ==
  LET words == { w \in 1 .. BITSET_CONTAINER_SIZE_IN_WORDS - 1 : Word(c.set, w) # {} }
  IN  IF words = {} THEN 0 ELSE Max(Word(c.set, Max(words)))

bitset_container_rank(c, x) ==
  LET k == x \div WordBits
  IN  MapThenSumSet(LAMBDA i : hamming(Word(c.set, i)), 0 .. k - 1)
        + hamming({ v \in Word(c.set, k) : v <= x })

\* Mutant: every value counts the words from the first one again.
bitset_container_rank_many_Recounts(c, start_rank, xs) ==
  LET RECURSIVE rank(_, _)
      rank(rest, sum) ==
        IF rest = <<>> THEN <<>>
        ELSE LET k == Head(rest) \div WordBits
                 counted == MapThenSumSet(LAMBDA j : hamming(Word(c.set, j)), 0 .. k - 1)
             IN  <<start_rank + sum + counted
                     + hamming({ v \in Word(c.set, k) : v % WordBits <= Head(rest) % WordBits })>>
                   \o rank(Tail(rest), sum + counted)
  IN  rank(xs, 0)

\* The words that were counted for one value are not counted again for the next.
bitset_container_rank_many(c, start_rank, xs) ==
  LET RECURSIVE rank(_, _, _)
      rank(rest, i, sum) ==
        IF rest = <<>> THEN <<>>
        ELSE LET k == Max({i, Head(rest) \div WordBits})
                 counted == MapThenSumSet(LAMBDA j : hamming(Word(c.set, j)), i .. k - 1)
             IN  <<start_rank + sum + counted
                     + hamming({ v \in Word(c.set, k) : v % WordBits <= Head(rest) % WordBits })>>
                   \o rank(Tail(rest), k, sum + counted)
  IN  rank(xs, 0, 0)

bitset_container_get_index(c, x) ==
  IF bitset_container_get(c, x) THEN bitset_container_rank(c, x) - 1 ELSE -1

bitset_container_index_equalorlarger(c, x) == BitFrom(c.set, x)

\* Runs are counted where they end: inside a word, or between two words.
bitset_container_number_of_runs(c) ==
  LET ends(w) == { v \in Word(Values, w) \ c.set : v % WordBits # 0 /\ v - 1 \in c.set }
      top(w) == IF w * WordBits + WordBits - 1 \in c.set THEN 1 ELSE 0
      carry(w) == IF (w + 1) * WordBits \in c.set THEN 0 ELSE top(w)
      lastword == BITSET_CONTAINER_SIZE_IN_WORDS - 1
  IN  MapThenSumSet(LAMBDA w : Cardinality(ends(w)) + carry(w), 0 .. lastword - 1)
        + Cardinality(ends(lastword)) + top(lastword)

bitset_container_validate(c) ==
  c.card = Cardinality(c.set) /\ c.card > DEFAULT_MAX_SIZE

\* Each half is built from two neighbouring words; NULL when nothing is in it.
bitset_container_offset(c, offset) ==
  LET shifted == { v + offset : v \in c.set }
      lo == BitsetOf({ v \in shifted : v < ChunkSize })
      hi == BitsetOf({ v - ChunkSize : v \in { u \in shifted : u >= ChunkSize } })
  IN  [lo |-> IF lo.card # 0 THEN lo ELSE NULL,
       hi |-> IF lo.card # c.card /\ hi.card # 0 THEN hi ELSE NULL]
-----------------------------------------------------------------------------
(* Array containers.                                                       *)

\* binarySearch: the index of key, or -(insertion point) - 1.
binarySearch(a, key) ==
  LET RECURSIVE search(_, _)
      search(low, high) ==
        IF low > high THEN -(low + 1)
        ELSE LET middle == (low + high) \div 2
             IN  IF a[middle + 1] < key THEN search(middle + 1, high)
                 ELSE IF a[middle + 1] > key THEN search(low, middle - 1)
                 ELSE middle
  IN  search(0, Len(a) - 1)

\* The block of block_gap values that pos would be in: a search that compares the
\* last values of three blocks at a time, then of one.
FindBlock(a, pos, num_blocks) ==
  LET below(block) == IF a[(block + 1) * block_gap] < pos THEN 1 ELSE 0
      RECURSIVE quad(_, _)
      quad(base, n) ==
        IF n > 3
        THEN LET quarter == n \div 4
             IN  quad(base + (below(base + quarter) + below(base + 2 * quarter)
                                + below(base + 3 * quarter)) * quarter, n - 3 * quarter)
        ELSE [base |-> base, n |-> n]
      RECURSIVE halve(_, _)
      halve(base, n) ==
        IF n > 1
        THEN LET half == n \div 2
             IN  halve(base + below(base + half) * half, n - half)
        ELSE base
      quads == quad(0, num_blocks)
      block == halve(quads.base, quads.n)
  IN  block + below(block)

array_container_contains(c, pos) ==
  LET a == Values2Seq(c.set)
      num_blocks == c.card \div block_gap
      lo == FindBlock(a, pos, num_blocks)
      scan(from, to) == \E j \in from .. to - 1 : a[j + 1] = pos
  IN  IF c.card < block_gap THEN scan(0, c.card)
      ELSE IF lo < num_blocks THEN scan(lo * block_gap, lo * block_gap + block_gap)
      ELSE scan(num_blocks * block_gap, c.card)

array_container_contains_range(c, range_start, range_end) ==
  LET range_count == range_end - range_start
      start == binarySearch(Values2Seq(c.set), U16(range_start))
  IN  \/ range_count <= 0
      \/ /\ range_count <= c.card
         /\ start >= 0
         /\ c.card >= start + range_count
         /\ array(c, start + range_count - 1) = U16(range_end - 1)

array_container_rank(c, x) ==
  LET idx == binarySearch(Values2Seq(c.set), x)
  IN  IF idx >= 0 THEN idx + 1 ELSE -idx - 1

\* After a value that is present the search starts at pos, which is taken
\* relative to the last start and so may go back.
array_container_rank_many(c, start_rank, xs) ==
  LET RECURSIVE rank(_, _)
      rank(rest, pos) ==
        IF rest = <<>> THEN <<>>
        ELSE LET idx == binarySearch(SubSeq(Values2Seq(c.set), pos + 1, c.card), Head(rest))
             IN  IF idx >= 0
                 THEN <<start_rank + pos + idx + 1>> \o rank(Tail(rest), idx + 1)
                 ELSE <<start_rank + pos - idx - 1>> \o rank(Tail(rest), pos)
  IN  rank(xs, 0)

array_container_get_index(c, x) ==
  LET idx == binarySearch(Values2Seq(c.set), x) IN IF idx >= 0 THEN idx ELSE -1

array_container_index_equalorlarger(c, x) ==
  LET idx == binarySearch(Values2Seq(c.set), x)
      candidate == -idx - 1
  IN  IF idx >= 0 THEN idx ELSE IF candidate < c.card THEN candidate ELSE -1

array_container_select(c, start_rank, rank) ==
  IF start_rank + c.card <= rank THEN [found |-> FALSE, start |-> start_rank + c.card]
  ELSE [found |-> TRUE, element |-> array(c, rank - start_rank)]

array_container_minimum(c) == IF c.card = 0 THEN 0 ELSE array(c, 0)
array_container_maximum(c) == IF c.card = 0 THEN 0 ELSE array(c, c.card - 1)

array_container_number_of_runs(c) ==
  Cardinality({ i \in 0 .. c.card - 1 : i = 0 \/ array(c, i) # array(c, i - 1) + 1 })

array_container_validate(c) ==
  /\ c.card = Cardinality(c.set)
  /\ c.card <= DEFAULT_MAX_SIZE
  /\ c.card > 0

array_container_offset(c, offset) ==
  LET lo_cap == Cardinality({ v \in c.set : v < ChunkSize - offset })
      half(first, n) == { U16(array(c, first + i) + offset) : i \in 0 .. n - 1 }
      hi_cap == c.card - lo_cap
  IN  [lo |-> IF lo_cap # 0 THEN Array(half(0, lo_cap), lo_cap) ELSE NULL,
       hi |-> IF hi_cap # 0 THEN Array(half(lo_cap, hi_cap), hi_cap) ELSE NULL]
-----------------------------------------------------------------------------
(* Run containers.                                                         *)

run_container_minimum(rs) == IF rs = <<>> THEN 0 ELSE Head(rs).value
run_container_maximum(rs) == IF rs = <<>> THEN 0 ELSE RunMax(Last(rs))

run_container_rank_many(rs, start_rank, xs) ==
  LET RECURSIVE rank(_, _, _)
      rank(rest, i, sum) ==
        IF rest = <<>> THEN <<>>
        ELSE IF i > Len(rs) THEN <<start_rank + sum>> \o rank(Tail(rest), i, sum)
        ELSE IF Head(rest) > RunMax(rs[i]) THEN rank(rest, i + 1, sum + rs[i].length + 1)
        ELSE IF Head(rest) < rs[i].value THEN <<start_rank + sum>> \o rank(Tail(rest), i, sum)
        ELSE <<start_rank + sum + Head(rest) - rs[i].value + 1>> \o rank(Tail(rest), i, sum)
  IN  rank(xs, 1, 0)
-----------------------------------------------------------------------------
(* The dispatch on the type.                                               *)

container_contains(c, val) ==
  CASE IsBitset(c) -> bitset_container_get(c, val)
    [] IsArray(c) -> array_container_contains(c, val)
    [] IsRun(c) -> run_container_contains(c.runs, val)

container_contains_range(c, range_start, range_end) ==
  CASE IsBitset(c) -> bitset_container_get_range(c, range_start, range_end)
    [] IsArray(c) -> array_container_contains_range(c, range_start, range_end)
    [] IsRun(c) -> run_container_contains_range(c.runs, range_start, range_end)

container_select(c, start_rank, rank) ==
  CASE IsBitset(c) -> bitset_container_select(c, start_rank, rank)
    [] IsArray(c) -> array_container_select(c, start_rank, rank)
    [] IsRun(c) ->
         LET card == run_container_cardinality(c.runs)
         IN  IF rank - start_rank >= card
             THEN [found |-> FALSE, start |-> start_rank + card]
             ELSE [found |-> TRUE, element |-> run_container_select(c.runs, rank - start_rank)]

container_maximum(c) ==
  CASE IsBitset(c) -> bitset_container_maximum(c)
    [] IsArray(c) -> array_container_maximum(c)
    [] IsRun(c) -> run_container_maximum(c.runs)

container_minimum(c) ==
  CASE IsBitset(c) -> bitset_container_minimum(c)
    [] IsArray(c) -> array_container_minimum(c)
    [] IsRun(c) -> run_container_minimum(c.runs)

container_rank(c, x) ==
  CASE IsBitset(c) -> bitset_container_rank(c, x)
    [] IsArray(c) -> array_container_rank(c, x)
    [] IsRun(c) -> run_container_rank(c.runs, x)

container_rank_many(c, start_rank, xs) ==
  CASE IsBitset(c) -> bitset_container_rank_many(c, start_rank, xs)
    [] IsArray(c) -> array_container_rank_many(c, start_rank, xs)
    [] IsRun(c) -> run_container_rank_many(c.runs, start_rank, xs)

container_get_index(c, x) ==
  CASE IsBitset(c) -> bitset_container_get_index(c, x)
    [] IsArray(c) -> array_container_get_index(c, x)
    [] IsRun(c) -> run_container_get_index(c.runs, x)

container_add_offset(c, offset) ==
  CASE IsBitset(c) -> bitset_container_offset(c, offset)
    [] IsArray(c) -> array_container_offset(c, offset)
    [] IsRun(c) -> LET split == run_container_offset(c.runs, offset)
                   IN  [lo |-> Run(split.lo), hi |-> Run(split.hi)]

container_internal_validate(c) ==
  CASE IsBitset(c) -> bitset_container_validate(c)
    [] IsArray(c) -> array_container_validate(c)
    [] IsRun(c) -> run_container_validate(c.runs)
-----------------------------------------------------------------------------
(* Two containers: how many values they share, and whether they share any. *)

\* The loop over an array and runs: how many of the values are in the runs.
RECURSIVE CountInRuns(_, _)
CountInRuns(a, rs) ==
  IF a = <<>> \/ rs = <<>> THEN 0
  ELSE IF RunMax(Head(rs)) < Head(a) THEN CountInRuns(a, Tail(rs))
  ELSE IF Head(rs).value > Head(a)
       THEN CountInRuns(SubSeq(a, advanceUntil(a, 1, Head(rs).value), Len(a)), rs)
  ELSE 1 + CountInRuns(Tail(a), rs)

array_run_container_intersection_cardinality(a, r) ==
  IF run_container_is_full(r.runs) THEN a.card
  ELSE CountInRuns(Values2Seq(a.set), r.runs)

run_bitset_container_intersection_cardinality(r, b) ==
  IF run_container_is_full(r.runs) THEN b.card
  ELSE FoldLeft(LAMBDA n, run : n + hamming(b.set \cap (run.value .. RunMax(run))),
                0, r.runs)

container_and_cardinality(c1, c2) ==
  CASE IsRun(c1) /\ IsRun(c2) -> run_container_intersection_cardinality(c1.runs, c2.runs)
    [] IsBitset(c1) /\ IsRun(c2) -> run_bitset_container_intersection_cardinality(c2, c1)
    [] IsRun(c1) /\ IsBitset(c2) -> run_bitset_container_intersection_cardinality(c1, c2)
    [] IsArray(c1) /\ IsRun(c2) -> array_run_container_intersection_cardinality(c1, c2)
    [] IsRun(c1) /\ IsArray(c2) -> array_run_container_intersection_cardinality(c2, c1)
    [] OTHER -> Cardinality(c1.set \cap c2.set)

array_run_container_intersect(a, r) ==
  IF run_container_is_full(r.runs) THEN a.card # 0
  ELSE CountInRuns(Values2Seq(a.set), r.runs) > 0

run_bitset_container_intersect(r, b) ==
  IF run_container_is_full(r.runs) THEN b.card # 0
  ELSE \E run \in ToSet(r.runs) : b.set \cap (run.value .. RunMax(run)) # {}

container_intersect(c1, c2) ==
  CASE IsRun(c1) /\ IsRun(c2) -> run_container_intersect(c1.runs, c2.runs)
    [] IsBitset(c1) /\ IsRun(c2) -> run_bitset_container_intersect(c2, c1)
    [] IsRun(c1) /\ IsBitset(c2) -> run_bitset_container_intersect(c1, c2)
    [] IsArray(c1) /\ IsRun(c2) -> array_run_container_intersect(c1, c2)
    [] IsRun(c1) /\ IsArray(c2) -> array_run_container_intersect(c2, c1)
    [] OTHER -> c1.set \cap c2.set # {}

\* The operations in place end in the same containers as the ones that are not,
\* except that container_andnot stops early at a full run container.
container_iand(c1, c2) == container_and(c1, c2)

container_ixor(c1, c2) == container_xor(c1, c2)

container_iandnot(c1, c2) ==
  LET rest == Elements(c1) \ Elements(c2)
  IN  CASE IsArray(c1) -> ArrayOf(rest)
        [] IsBitset(c1) /\ IsArray(c2) -> BitsetOrArray(ClearList(c1, c2.set))
        [] IsRun(c1) /\ IsRun(c2) -> convert_run_to_efficient_container(
                                       run_container_andnot(c1.runs, c2.runs))
        [] IsRun(c1) /\ IsBitset(c2) -> run_bitset_container_andnot(c1, c2)
        [] IsRun(c1) /\ IsArray(c2) -> run_array_container_andnot(c1, c2)
        [] OTHER -> BitsetOrArray(BitsetOf(rest))
=============================================================================
