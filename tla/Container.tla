----------------------------- MODULE Container -----------------------------
(***************************************************************************)
(* The containers of a chunk and the functions that dispatch on their      *)
(* types (containers.h, convert.c, mixed_*.c): which algorithm a pair of   *)
(* types gets, when a result changes type, and the cardinality field that  *)
(* the lazy operations leave unknown.  The words of a bitset and the       *)
(* sorted values of an array are the set of integers they stand for; runs  *)
(* are the sequences of RunContainer.                                      *)
(***************************************************************************)
EXTENDS RunContainer, FiniteSetsExt

CONSTANTS DEFAULT_MAX_SIZE,        \* 4096: capacity of an array container
          BITSET_SIZE_IN_BYTES,    \* 8192: BITSET_CONTAINER_SIZE_IN_WORDS * 8
          ARRAY_LAZY_LOWERBOUND,   \* 1024: lazily built arrays are no larger
          arbitrary_threshold      \* 32: below it, xor and andnot keep runs

\* The negation of an array is a bitset (2 * 4096 < 65536), and the arrays are
\* the ones that are no larger than a bitset, two bytes a value, as in the code.
ASSUME ContainerAssumption ==
  /\ DEFAULT_MAX_SIZE \in Nat /\ 2 * DEFAULT_MAX_SIZE < ChunkSize
  /\ BITSET_SIZE_IN_BYTES \in {2 * DEFAULT_MAX_SIZE, 2 * DEFAULT_MAX_SIZE + 1}
  /\ ARRAY_LAZY_LOWERBOUND \in 0 .. DEFAULT_MAX_SIZE
  /\ arbitrary_threshold \in Nat

BITSET_UNKNOWN_CARDINALITY == -1

Bitset(set, card) == [type |-> "bitset", set |-> set, card |-> card]
Array(set, card)  == [type |-> "array", set |-> set, card |-> card]
Run(runs)         == [type |-> "run", runs |-> runs]

IsBitset(c) == c.type = "bitset"
IsArray(c)  == c.type = "array"
IsRun(c)    == c.type = "run"
IsFullRun(c) == IsRun(c) /\ run_container_is_full(c.runs)

FullRun == Run(<<Interval(0, ChunkSize)>>)

Elements(c) == IF IsRun(c) THEN RunSet(c.runs) ELSE c.set

container_get_cardinality(c) ==
  IF IsRun(c) THEN run_container_cardinality(c.runs) ELSE c.card

container_is_full(c) ==
  IF IsRun(c) THEN run_container_is_full(c.runs) ELSE c.card = ChunkSize

\* A bitset whose cardinality is unknown is searched for a bit.
container_nonzero_cardinality(c) ==
  IF IsBitset(c) /\ c.card = BITSET_UNKNOWN_CARDINALITY THEN c.set # {}
  ELSE container_get_cardinality(c) # 0

\* What an operation on two bitsets without a cardinality leaves.
Lazy(set) == Bitset(set, BITSET_UNKNOWN_CARDINALITY)

\* bitset_set_list_withcard, bitset_clear_list and bitset_flip_list_withcard
\* update the cardinality they are given by the bits that they change.
SetList(b, list) == Bitset(b.set \cup list, b.card + Cardinality(list \ b.set))
ClearList(b, list) == Bitset(b.set \ list, b.card - Cardinality(b.set \cap list))
FlipList(b, list) ==
  Bitset(SymDiff(b.set, list),
         b.card + Cardinality(list \ b.set) - Cardinality(b.set \cap list))

bitset_container_compute_cardinality(b) == Bitset(b.set, Cardinality(b.set))

\* Exact containers of a set.
ArrayOf(set) == Array(set, Cardinality(set))
BitsetOf(set) == Bitset(set, Cardinality(set))

\* array_container_from_bitset trusts the cardinality field.
array_container_from_bitset(b) == Array(b.set, b.card)

\* How most operations end: a bitset that is small enough becomes an array.
BitsetOrArray(b) ==
  IF b.card <= DEFAULT_MAX_SIZE THEN array_container_from_bitset(b) ELSE b

\* The values in increasing order: the memory of an array container.
Values2Seq(set) ==
  [i \in 1 .. Cardinality(set) |->
     CHOOSE v \in set : Cardinality({ u \in set : u < v }) = i - 1]
Singles(set) ==
  LET values == Values2Seq(set) IN [i \in DOMAIN values |-> Rle(values[i], 0)]

\* run_container_from_array, and the conversions of convert_run_optimize.
RunsOf(set) ==
  FoldLeft(LAMBDA runs, v :
             IF runs # <<>> /\ v = RunEnd(Last(runs))
             THEN [runs EXCEPT ![Len(runs)].length = @ + 1]
             ELSE Append(runs, Rle(v, 0)),
           <<>>, Values2Seq(set))
-----------------------------------------------------------------------------
(* Conversions.                                                            *)

array_container_serialized_size_in_bytes(card) == 2 * card
bitset_container_serialized_size_in_bytes == BITSET_SIZE_IN_BYTES

convert_run_to_efficient_container(runs) ==
  LET card == run_container_cardinality(runs)
      size_as_run == run_container_serialized_size_in_bytes(Len(runs))
  IN  IF /\ size_as_run <= bitset_container_serialized_size_in_bytes
         /\ size_as_run <= array_container_serialized_size_in_bytes(card)
      THEN Run(runs)
      ELSE IF card <= DEFAULT_MAX_SIZE THEN Array(RunSet(runs), card)
      ELSE Bitset(RunSet(runs), card)

convert_to_bitset_or_array_container(runs) ==
  LET card == run_container_cardinality(runs)
  IN  IF card <= DEFAULT_MAX_SIZE THEN Array(RunSet(runs), card)
      ELSE Bitset(RunSet(runs), card)

convert_run_optimize(c) ==
  LET runs == RunsOf(c.set)
      size_as_run == run_container_serialized_size_in_bytes(Len(runs))
  IN  IF IsRun(c) THEN convert_run_to_efficient_container(c.runs)
      ELSE IF IsArray(c)
           THEN IF size_as_run >= array_container_serialized_size_in_bytes(c.card)
                THEN c ELSE Run(runs)
      ELSE IF bitset_container_serialized_size_in_bytes <= size_as_run
           THEN c ELSE Run(runs)

container_to_bitset(c) ==
  CASE IsBitset(c) -> c
    [] IsArray(c) -> BitsetOf(c.set)
    [] IsRun(c) -> Bitset(RunSet(c.runs), run_container_cardinality(c.runs))

container_repair_after_lazy(c) ==
  CASE IsBitset(c) -> BitsetOrArray(bitset_container_compute_cardinality(c))
    [] IsArray(c) -> c
    [] IsRun(c) -> convert_run_to_efficient_container(c.runs)

container_range_of_ones(start, end) ==
  IF end - start + 1 <= 2 THEN ArrayOf(start .. end - 1)
  ELSE Run(<<Interval(start, end)>>)

container_from_range(min, max, step) ==
  LET set == { v \in min .. max - 1 : (v - min) % step = 0 }
      size == (max - min + step - 1) \div step
  IN  IF step = 1 THEN container_range_of_ones(min, max)
      ELSE IF size <= DEFAULT_MAX_SIZE THEN Array(set, size)
      ELSE Bitset(set, size)
-----------------------------------------------------------------------------
(* Single values and ranges.  NULL is a container that was freed.          *)

NULL == Run(<<>>)

container_add(c, val) ==
  CASE IsBitset(c) -> SetList(c, {val})
    [] IsArray(c) -> IF val \in c.set THEN c
                     ELSE IF c.card < DEFAULT_MAX_SIZE
                          THEN Array(c.set \cup {val}, c.card + 1)
                     ELSE SetList(BitsetOf(c.set), {val})
    [] IsRun(c) -> Run(run_container_add(c.runs, val))

container_remove(c, val) ==
  CASE IsBitset(c) -> IF val \in c.set THEN BitsetOrArray(ClearList(c, {val}))
                      ELSE c
    [] IsArray(c) -> ArrayOf(c.set \ {val})
    [] IsRun(c) -> Run(run_container_remove(c.runs, val))

\* container_from_run_range: the union of the runs and a range, as a bitset.
container_from_run_range(runs, min, max) ==
  LET set == RunSet(runs)
      card == run_container_cardinality(runs) + (max - min + 1)
                - Cardinality(set \cap (min .. max))
  IN  BitsetOrArray(Bitset(set \cup (min .. max), card))

container_add_range(c, min, max) ==
  LET less == Cardinality({ v \in Elements(c) : v < min })
      greater == Cardinality({ v \in Elements(c) : v > max })
      union == IF IsBitset(c)
               THEN c.card + (max - min + 1) - Cardinality(c.set \cap (min .. max))
               ELSE less + (max - min + 1) + greater
      nruns_greater == rle16_count_greater(c.runs, Len(c.runs), max)
      nruns_less == rle16_count_less(c.runs, Len(c.runs) - nruns_greater, min)
  IN  IF IsRun(c)
      THEN IF (nruns_less + 1 + nruns_greater) * 4
                <= bitset_container_serialized_size_in_bytes
           THEN Run(run_container_add_range_nruns(c.runs, min, max, nruns_less,
                                                  nruns_greater))
           ELSE container_from_run_range(c.runs, min, max)
      ELSE IF union = ChunkSize THEN FullRun
      ELSE IF IsArray(c) /\ union <= DEFAULT_MAX_SIZE
           THEN Array(c.set \cup (min .. max), union)
      ELSE Bitset(c.set \cup (min .. max), union)

container_remove_range(c, min, max) ==
  LET rest == Elements(c) \ (min .. max)
      cleared == ClearList(c, min .. max)
  IN  CASE IsBitset(c) -> IF cleared.card = 0 THEN NULL ELSE BitsetOrArray(cleared)
        [] IsArray(c) -> IF rest = {} THEN NULL ELSE ArrayOf(rest)
        [] IsRun(c) ->
             IF min <= Head(c.runs).value /\ max >= RunMax(Last(c.runs)) THEN NULL
             ELSE convert_run_to_efficient_container(
                    run_container_remove_range(c.runs, min, max))
-----------------------------------------------------------------------------
(* Binary operations.                                                      *)

run_bitset_container_intersection(r, b) ==
  LET both == RunSet(r.runs) \cap b.set
  IN  IF run_container_is_full(r.runs) THEN b
      ELSE IF run_container_cardinality(r.runs) <= DEFAULT_MAX_SIZE
           THEN ArrayOf(both)
      ELSE BitsetOrArray(BitsetOf(both))

container_and(c1, c2) ==
  LET both == Elements(c1) \cap Elements(c2)
  IN  CASE IsBitset(c1) /\ IsBitset(c2) -> BitsetOrArray(BitsetOf(both))
        [] IsRun(c1) /\ IsRun(c2) -> convert_run_to_efficient_container(
                                       run_container_intersection(c1.runs, c2.runs))
        [] IsRun(c1) /\ IsBitset(c2) -> run_bitset_container_intersection(c1, c2)
        [] IsBitset(c1) /\ IsRun(c2) -> run_bitset_container_intersection(c2, c1)
        [] OTHER -> ArrayOf(both)

array_array_container_union(a1, a2) ==
  IF a1.card + a2.card <= DEFAULT_MAX_SIZE THEN ArrayOf(a1.set \cup a2.set)
  ELSE BitsetOrArray(SetList(Bitset(a1.set, a1.card), a2.set))

array_array_container_lazy_union(a1, a2) ==
  IF a1.card + a2.card <= ARRAY_LAZY_LOWERBOUND THEN ArrayOf(a1.set \cup a2.set)
  ELSE Lazy(a1.set \cup a2.set)

array_run_container_union(a, r) ==
  IF run_container_is_full(r.runs) THEN r.runs
  ELSE AppendAll(MergeRuns(r.runs, Singles(a.set)))

container_or(c1, c2) ==
  LET union == Elements(c1) \cup Elements(c2)
  IN  CASE IsBitset(c1) /\ IsBitset(c2) -> BitsetOf(union)
        [] IsArray(c1) /\ IsArray(c2) -> array_array_container_union(c1, c2)
        [] IsRun(c1) /\ IsRun(c2) -> convert_run_to_efficient_container(
                                       run_container_union(c1.runs, c2.runs))
        [] IsBitset(c1) /\ IsArray(c2) -> SetList(c1, c2.set)
        [] IsArray(c1) /\ IsBitset(c2) -> SetList(c2, c1.set)
        [] IsBitset(c1) /\ IsRun(c2) -> IF IsFullRun(c2) THEN c2 ELSE BitsetOf(union)
        [] IsRun(c1) /\ IsBitset(c2) -> IF IsFullRun(c1) THEN c1 ELSE BitsetOf(union)
        [] IsArray(c1) /\ IsRun(c2) -> convert_run_to_efficient_container(
                                         array_run_container_union(c1, c2))
        [] IsRun(c1) /\ IsArray(c2) -> convert_run_to_efficient_container(
                                         array_run_container_union(c2, c1))

\* In place: the union of two bitsets becomes a run when it is full.
FullBitsetAsRun(c) == IF c.card = ChunkSize THEN FullRun ELSE c
container_ior(c1, c2) ==
  IF IsBitset(c1) /\ IsBitset(c2) THEN FullBitsetAsRun(BitsetOf(c1.set \cup c2.set))
  ELSE container_or(c1, c2)

container_lazy_or(c1, c2) ==
  LET union == Elements(c1) \cup Elements(c2)
  IN  CASE IsArray(c1) /\ IsArray(c2) -> array_array_container_lazy_union(c1, c2)
        [] IsRun(c1) /\ IsRun(c2) -> container_or(c1, c2)
        [] IsFullRun(c1) /\ IsBitset(c2) -> c1
        [] IsBitset(c1) /\ IsFullRun(c2) -> c2
        [] IsArray(c1) /\ IsRun(c2) -> Run(array_run_container_union(c1, c2))
        [] IsRun(c1) /\ IsArray(c2) -> Run(array_run_container_union(c2, c1))
        [] OTHER -> Lazy(union)

\* In place: two bitsets get their cardinality, to notice a full one.
container_lazy_ior(c1, c2) ==
  IF IsBitset(c1) /\ IsBitset(c2) THEN container_ior(c1, c2)
  ELSE container_lazy_or(c1, c2)

array_array_container_xor(a1, a2) ==
  IF a1.card + a2.card <= DEFAULT_MAX_SIZE THEN ArrayOf(SymDiff(a1.set, a2.set))
  ELSE BitsetOrArray(FlipList(Bitset(a1.set, a1.card), a2.set))

array_array_container_lazy_xor(a1, a2) ==
  IF a1.card + a2.card <= ARRAY_LAZY_LOWERBOUND
  THEN ArrayOf(SymDiff(a1.set, a2.set))
  ELSE Lazy(SymDiff(a1.set, a2.set))

array_run_container_lazy_xor(a, r) ==
  Live(SmartAppendAll(Fresh, MergeRuns(r.runs, Singles(a.set))))

array_run_container_xor(a, r) ==
  LET card == run_container_cardinality(r.runs)
      set == RunSet(r.runs)
  IN  IF a.card < arbitrary_threshold
      THEN convert_run_to_efficient_container(array_run_container_lazy_xor(a, r))
      ELSE IF card <= DEFAULT_MAX_SIZE
           THEN array_array_container_xor(ArrayOf(set), a)
      ELSE BitsetOrArray(FlipList(Bitset(set, card), a.set))

container_xor(c1, c2) ==
  LET diff == SymDiff(Elements(c1), Elements(c2))
  IN  CASE IsArray(c1) /\ IsArray(c2) -> array_array_container_xor(c1, c2)
        [] IsRun(c1) /\ IsRun(c2) -> convert_run_to_efficient_container(
                                       run_container_xor(c1.runs, c2.runs))
        [] IsBitset(c1) /\ IsArray(c2) -> BitsetOrArray(FlipList(c1, c2.set))
        [] IsArray(c1) /\ IsBitset(c2) -> BitsetOrArray(FlipList(c2, c1.set))
        [] IsArray(c1) /\ IsRun(c2) -> array_run_container_xor(c1, c2)
        [] IsRun(c1) /\ IsArray(c2) -> array_run_container_xor(c2, c1)
        [] OTHER -> BitsetOrArray(BitsetOf(diff))

container_lazy_xor(c1, c2) ==
  CASE IsArray(c1) /\ IsArray(c2) -> array_array_container_lazy_xor(c1, c2)
    [] IsRun(c1) /\ IsRun(c2) -> container_xor(c1, c2)
    [] IsArray(c1) /\ IsRun(c2) -> Run(array_run_container_lazy_xor(c1, c2))
    [] IsRun(c1) /\ IsArray(c2) -> Run(array_run_container_lazy_xor(c2, c1))
    [] OTHER -> Lazy(SymDiff(Elements(c1), Elements(c2)))

\* Mutant: the unknown cardinality of a bitset is taken for a count.
container_lazy_ixor_OnUnknown(c1, c2) ==
  IF IsBitset(c1) /\ IsBitset(c2) THEN Lazy(SymDiff(c1.set, c2.set))
  ELSE container_xor(c1, c2)

\* In place: a bitset of unknown cardinality gets it before container_ixor.
container_lazy_ixor(c1, c2) ==
  IF IsBitset(c1) /\ IsBitset(c2) THEN Lazy(SymDiff(c1.set, c2.set))
  ELSE container_xor(IF IsBitset(c1) /\ c1.card = BITSET_UNKNOWN_CARDINALITY
                     THEN bitset_container_compute_cardinality(c1) ELSE c1, c2)

run_bitset_container_andnot(r, b) ==
  LET rest == RunSet(r.runs) \ b.set
  IN  IF run_container_cardinality(r.runs) <= DEFAULT_MAX_SIZE THEN ArrayOf(rest)
      ELSE BitsetOrArray(BitsetOf(rest))

run_array_container_andnot(r, a) ==
  LET card == run_container_cardinality(r.runs)
      set == RunSet(r.runs)
  IN  IF card <= arbitrary_threshold
      THEN convert_run_to_efficient_container(
             SubtractRuns(r.runs, Head(r.runs).value, Singles(a.set)))
      ELSE IF card <= DEFAULT_MAX_SIZE THEN ArrayOf(set \ a.set)
      ELSE BitsetOrArray(ClearList(Bitset(set, card), a.set))

container_andnot(c1, c2) ==
  LET rest == Elements(c1) \ Elements(c2)
  IN  CASE IsFullRun(c2) -> Array({}, 0)
        [] IsArray(c1) -> ArrayOf(rest)
        [] IsBitset(c1) /\ IsArray(c2) -> BitsetOrArray(ClearList(c1, c2.set))
        [] IsRun(c1) /\ IsRun(c2) -> convert_run_to_efficient_container(
                                       run_container_andnot(c1.runs, c2.runs))
        [] IsRun(c1) /\ IsBitset(c2) -> run_bitset_container_andnot(c1, c2)
        [] IsRun(c1) /\ IsArray(c2) -> run_array_container_andnot(c1, c2)
        [] OTHER -> BitsetOrArray(BitsetOf(rest))
-----------------------------------------------------------------------------
(* Negation of the values start .. end - 1.                                *)

array_container_negation_range(a, start, end) ==
  LET range == start .. end - 1
      current == Cardinality(a.set \cap range)
      new == a.card + (end - start - current) - current
  IN  IF new > DEFAULT_MAX_SIZE THEN Bitset(SymDiff(a.set, range), new)
      ELSE Array(SymDiff(a.set, range), new)

run_container_negation_range(runs, start, end) ==
  LET before == SelectSeq(runs, LAMBDA r : r.value < start)
      after == SelectSeq(runs, LAMBDA r : r.value >= start)
      ans == run_container_smart_append_exclusive(
               [buf |-> before, n |-> Len(before)], start, U16(end - start - 1))
  IN  Live(SmartAppendAll(ans, after))

container_not_range(c, start, end) ==
  CASE IsBitset(c) ->
         BitsetOrArray(BitsetOf(SymDiff(c.set, start .. end - 1)))
    [] IsArray(c) -> array_container_negation_range(c, start, end)
    [] IsRun(c) -> convert_run_to_efficient_container(
                     run_container_negation_range(c.runs, start, end))

container_not(c) ==
  IF IsArray(c) THEN ClearList(BitsetOf(Values), c.set)
  ELSE container_not_range(c, 0, ChunkSize)

\* Mutant: room for one more run is never asked for.
NegationFits_Always(runs, capacity, start, end) == capacity >= Len(runs)

\* run_container_negation_range_inplace is done in the memory of the runs unless
\* capacity may not suffice: it is used up, and both ends of the range add a run.
NegationFits(runs, capacity, start, end) ==
  LET in(v) == v \in Values /\ run_container_contains(runs, v)
  IN  \/ capacity > Len(runs)
      \/ in(start - 1) # in(start)
      \/ in(end - 1) # in(end)

\* The loop reads one run ahead of the appends that overwrite the runs.
run_container_negation_range_inplace(runs, start, end) ==
  LET kept == Len(SelectSeq(runs, LAMBDA r : r.value < start))
      RECURSIVE append(_, _, _)
      append(d, k, buffered) ==
        IF k > Len(runs) THEN d
        ELSE LET next == IF k < Len(runs) THEN d.buf[k + 1] ELSE buffered
             IN  append(run_container_smart_append_exclusive(
                          d, buffered.value, buffered.length), k + 1, next)
      first == run_container_smart_append_exclusive(
                 [buf |-> runs, n |-> kept], start, U16(end - start - 1))
  IN  append(first, kept + 1, IF kept < Len(runs) THEN runs[kept + 1] ELSE Rle(0, 0))

container_inot_range(c, capacity, start, end) ==
  IF IsRun(c) /\ NegationFits(c.runs, capacity, start, end)
  THEN convert_run_to_efficient_container(
         Live(run_container_negation_range_inplace(c.runs, start, end)))
  ELSE container_not_range(c, start, end)

container_inot(c, capacity) ==
  IF IsArray(c) THEN container_not(c)
  ELSE container_inot_range(c, capacity, 0, ChunkSize)
-----------------------------------------------------------------------------
(* Comparisons of containers of different types.                           *)

\* advanceUntil: the first index after pos whose value is not below min.
advanceUntil(array, pos, min) ==
  Min({ i \in pos + 1 .. Len(array) : array[i] >= min } \cup {Len(array) + 1})

run_container_is_subset_array(r, a) ==
  LET array == Values2Seq(a.set)
      RECURSIVE included(_, _)
      included(runs, pos) ==
        runs = <<>> \/
          LET start == advanceUntil(array, pos, Head(runs).value)
              stop == advanceUntil(array, pos, RunMax(Head(runs)))
          IN  /\ stop <= Len(array)
              /\ stop - start = Head(runs).length
              /\ array[start] = Head(runs).value
              /\ array[stop] = RunMax(Head(runs))
              /\ included(Tail(runs), stop)
  IN  run_container_cardinality(r.runs) <= a.card /\ included(r.runs, 0)

\* The two loops over a set and the runs: array_container_is_subset_run and
\* bitset_container_is_subset_run.
RECURSIVE ValuesInRuns(_, _)
ValuesInRuns(values, runs) ==
  IF values = <<>> \/ runs = <<>> THEN values = <<>>
  ELSE IF Head(values) < Head(runs).value THEN FALSE
  ELSE IF Head(values) > RunMax(Head(runs)) THEN ValuesInRuns(values, Tail(runs))
  ELSE ValuesInRuns(Tail(values), runs)

\* A bitset has more values than an array: the code does not look at them.
container_is_subset(c1, c2) ==
  CASE IsBitset(c1) /\ IsArray(c2) -> FALSE
    [] IsRun(c1) /\ IsRun(c2) -> run_container_is_subset(c1.runs, c2.runs)
    [] IsRun(c1) /\ IsArray(c2) -> run_container_is_subset_array(c1, c2)
    [] ~IsRun(c1) /\ IsRun(c2) -> /\ c1.card <= run_container_cardinality(c2.runs)
                                 /\ ValuesInRuns(Values2Seq(c1.set), c2.runs)
    [] OTHER -> /\ container_get_cardinality(c1) <= c2.card
                /\ Elements(c1) \subseteq c2.set

\* Compares only the two ends of each run with the values at their positions.
run_container_equals_array(r, a) ==
  LET array == Values2Seq(a.set)
      RECURSIVE same(_, _)
      same(runs, pos) ==
        runs = <<>> \/ /\ array[pos] = Head(runs).value
                       /\ array[pos + Head(runs).length] = RunMax(Head(runs))
                       /\ same(Tail(runs), pos + Head(runs).length + 1)
  IN  run_container_cardinality(r.runs) = a.card /\ same(r.runs, 1)

container_equals(c1, c2) ==
  CASE IsRun(c1) /\ IsArray(c2) -> run_container_equals_array(c1, c2)
    [] IsArray(c1) /\ IsRun(c2) -> run_container_equals_array(c2, c1)
    [] IsRun(c1) /\ IsRun(c2) -> c1.runs = c2.runs
    [] OTHER -> /\ container_get_cardinality(c1) = container_get_cardinality(c2)
                /\ Elements(c1) = Elements(c2)
=============================================================================
