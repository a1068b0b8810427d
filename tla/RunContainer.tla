---------------------------- MODULE RunContainer ----------------------------
(***************************************************************************)
(* The run container of CRoaring: a sorted sequence of runs, a run {v, l}  *)
(* standing for the l + 1 integers v .. v + l of a chunk.  Pure operators, *)
(* one per function of run.h / run.c; a container is the sequence of its   *)
(* live runs.  Indices are the C ones (0-based), so run i of the code is   *)
(* runs[i + 1] here; a negative search result is -(insertion point) - 1.   *)
(***************************************************************************)
EXTENDS Integers, Sequences, SequencesExt

CONSTANT ChunkSize      \* number of integers in a chunk: 2^16 in the code

ASSUME ChunkSizeAssumption == ChunkSize \in Nat \ {0}

Values == 0 .. ChunkSize - 1

U16(x) == x % ChunkSize

Rle(v, l) == [value |-> U16(v), length |-> U16(l)]

RunMax(r) == r.value + r.length
RunEnd(r) == r.value + r.length + 1

\* The run of the integers start .. end - 1.
Interval(start, end) == Rle(start, end - start - 1)

RunSet(runs) == UNION { r.value .. RunMax(r) : r \in ToSet(runs) }

run_container_cardinality(runs) ==
  FoldLeft(LAMBDA sum, r : sum + r.length, Len(runs), runs)

run_container_is_full(runs) ==
  /\ Len(runs) = 1
  /\ runs[1] = [value |-> 0, length |-> ChunkSize - 1]

run_container_serialized_size_in_bytes(n_runs) == 2 + 4 * n_runs

\* Nonempty, inside the chunk, sorted, disjoint and never adjacent.
run_container_validate(runs) ==
  /\ Len(runs) > 0
  /\ \A i \in DOMAIN runs : RunEnd(runs[i]) <= ChunkSize
  /\ \A i \in 2 .. Len(runs) : runs[i].value > RunEnd(runs[i - 1])
-----------------------------------------------------------------------------
(* Binary searches.                                                        *)

\* compare(r): -1 to go right of run r, 1 to go left of it, 0 to stop at it;
\* found(m) and missed(low) are the results.
BinarySearchRuns(runs, len, compare(_), found(_), missed(_)) ==
  LET RECURSIVE search(_, _)
      search(low, high) ==
        IF low > high THEN missed(low)
        ELSE LET mid == (low + high) \div 2
                 cmp == compare(runs[mid + 1])
             IN  IF cmp < 0 THEN search(mid + 1, high)
                 ELSE IF cmp > 0 THEN search(low, mid - 1)
                 ELSE found(mid)
  IN search(0, len - 1)

interleavedBinarySearch(runs, ikey) ==
  BinarySearchRuns(runs, Len(runs), LAMBDA r : r.value - ikey,
                   LAMBDA m : m, LAMBDA low : -(low + 1))

rle16_find_run(runs, ikey) ==
  BinarySearchRuns(runs, Len(runs),
                   LAMBDA r : IF ikey > RunMax(r) THEN -1
                              ELSE IF ikey < r.value THEN 1 ELSE 0,
                   LAMBDA m : m, LAMBDA low : -(low + 1))

\* Number of leading runs that end before key and do not touch it.
rle16_count_less(runs, len, key) ==
  BinarySearchRuns(runs, len,
                   LAMBDA r : IF RunMax(r) + 1 < key THEN -1
                              ELSE IF key < r.value THEN 1 ELSE 0,
                   LAMBDA m : m, LAMBDA low : low)

\* Number of trailing runs that start after key and do not touch it.
rle16_count_greater(runs, len, key) ==
  BinarySearchRuns(runs, len,
                   LAMBDA r : IF RunMax(r) < key THEN -1
                              ELSE IF key + 1 < r.value THEN 1 ELSE 0,
                   LAMBDA m : len - (m + 1), LAMBDA low : len - low)

\* Index of the run that precedes key when no run starts at it, or -1.
PrecedingRun(runs, key) == -interleavedBinarySearch(runs, key) - 2

run_container_contains(runs, pos) ==
  \/ interleavedBinarySearch(runs, pos) >= 0
  \/ LET index == PrecedingRun(runs, pos)
     IN  index # -1 /\ pos - runs[index + 1].value <= runs[index + 1].length

run_container_index_equalorlarger(runs, x) ==
  LET found == interleavedBinarySearch(runs, x)
      index == PrecedingRun(runs, x)
  IN  IF found >= 0 THEN found
      ELSE IF index # -1 /\ x - runs[index + 1].value <= runs[index + 1].length
           THEN index
      ELSE IF index + 1 < Len(runs) THEN index + 1
      ELSE -1

\* The code adds up, run by run, a count that is one short per run left before
\* pos_end, and accepts a total one short of the range.
run_container_contains_range(runs, pos_start, pos_end) ==
  LET found == interleavedBinarySearch(runs, U16(pos_start))
      index == IF found < 0 THEN -found - 2 ELSE found
      RECURSIVE count(_)
      count(i) ==
        IF i > Len(runs) \/ runs[i].value >= pos_end THEN 0
        ELSE IF RunMax(runs[i]) >= pos_end THEN pos_end - runs[i].value
        ELSE LET min == RunMax(runs[i]) - pos_start
             IN  (IF min < runs[i].length THEN min ELSE runs[i].length)
                 + count(i + 1)
  IN  IF found < 0 /\ (index = -1
                       \/ pos_start - runs[index + 1].value
                            > runs[index + 1].length)
      THEN FALSE
      ELSE count(index + 1) >= pos_end - pos_start - 1
-----------------------------------------------------------------------------
(* Point and range updates.                                                *)

\* makeRoomAtIndex followed by the two stores that fill the new slot.
InsertRun(runs, index, r) == InsertAt(runs, index + 1, r)

recoverRoomAtIndex(runs, index) == RemoveAt(runs, index + 1)

run_container_add(runs, pos) ==
  LET found  == interleavedBinarySearch(runs, pos)
      index  == PrecedingRun(runs, pos)
      prev   == runs[index + 1]
      next   == runs[index + 2]
      offset == pos - prev.value
      touchesNext == index + 1 < Len(runs) /\ next.value = pos + 1
  IN  IF found >= 0 THEN runs
      ELSE IF index >= 0 /\ offset <= prev.length THEN runs
      ELSE IF index >= 0 /\ offset = prev.length + 1
           THEN IF touchesNext
                THEN recoverRoomAtIndex(
                       [runs EXCEPT ![index + 1].length =
                                      U16(RunMax(next) - prev.value)],
                       index + 1)
                ELSE [runs EXCEPT ![index + 1].length = U16(@ + 1)]
      ELSE IF touchesNext
           THEN [runs EXCEPT ![index + 2] = Rle(pos, next.length + 1)]
      ELSE InsertRun(runs, index + 1, Rle(pos, 0))

run_container_remove(runs, pos) ==
  LET found  == interleavedBinarySearch(runs, pos)
      index  == PrecedingRun(runs, pos)
      prev   == runs[index + 1]
      offset == pos - prev.value
  IN  IF found >= 0
      THEN IF runs[found + 1].length = 0
           THEN recoverRoomAtIndex(runs, found)
           ELSE [runs EXCEPT ![found + 1] = Rle(@.value + 1, @.length - 1)]
      ELSE IF index >= 0 /\ offset < prev.length
           THEN InsertRun([runs EXCEPT ![index + 1].length = U16(offset - 1)],
                          index + 1, Rle(pos + 1, prev.length - offset - 1))
      ELSE IF index >= 0 /\ offset = prev.length
           THEN [runs EXCEPT ![index + 1].length = U16(@ - 1)]
      ELSE runs

run_container_add_range_nruns(runs, min, max, nruns_less, nruns_greater) ==
  LET nruns_common == Len(runs) - nruns_less - nruns_greater
      common_min == runs[nruns_less + 1].value
      common_max == RunMax(runs[nruns_less + nruns_common])
      result_min == IF common_min < min THEN common_min ELSE min
      result_max == IF common_max > max THEN common_max ELSE max
  IN  IF nruns_common = 0
      THEN InsertRun(runs, nruns_less, Rle(min, max - min))
      ELSE SubSeq(runs, 1, nruns_less)
             \o <<Rle(result_min, result_max - result_min)>>
             \o SubSeq(runs, Len(runs) - nruns_greater + 1, Len(runs))

\* The removal once the runs of both ends are known, as rle16_find_run gives them.
RemoveBetween(runs, min, max, f, l) ==
  LET splits    == /\ f >= 0
                   /\ min > runs[f + 1].value
                   /\ max < RunMax(runs[f + 1])
      trimLeft  == f >= 0 /\ min > runs[f + 1].value
      left      == IF trimLeft
                   THEN [runs EXCEPT ![f + 1].length = U16(min - 1 - runs[f + 1].value)]
                   ELSE runs
      first     == IF f < 0 THEN -f - 1 ELSE IF trimLeft THEN f + 1 ELSE f
      trimRight == l >= 0 /\ RunMax(left[l + 1]) > max
      right     == IF trimRight
                   THEN [left EXCEPT ![l + 1] =
                           Rle(max + 1, RunMax(left[l + 1]) - (max + 1))]
                   ELSE left
      last      == IF l < 0 THEN -l - 2 ELSE IF trimRight THEN l - 1 ELSE l
  IN  IF splits
      THEN InsertRun([runs EXCEPT ![f + 1].length = U16(min - 1 - runs[f + 1].value)],
                     f + 1, Rle(max + 1, RunMax(runs[f + 1]) - (max + 1)))
      ELSE IF first <= last
           THEN SubSeq(right, 1, first) \o SubSeq(right, last + 2, Len(right))
           ELSE right

run_container_remove_range(runs, min, max) ==
  RemoveBetween(runs, min, max, rle16_find_run(runs, U16(min)), rle16_find_run(runs, U16(max)))
-----------------------------------------------------------------------------
(* Appending to a destination.  A destination is [buf, n]: the runs stored *)
(* in its memory and how many of them are live; a fresh one is <<>>, and   *)
(* an in-place operation keeps writing into the memory it reads from.      *)

Fresh == [buf |-> <<>>, n |-> 0]

Live(d) == SubSeq(d.buf, 1, d.n)

PutRun(d, r) ==
  [buf |-> IF d.n < Len(d.buf) THEN ReplaceAt(d.buf, d.n + 1, r)
                               ELSE Append(d.buf, r),
   n   |-> d.n + 1]

SetLastRun(d, r) == [d EXCEPT !.buf[d.n] = r]

\* run_container_append and, with a run of length 0, run_container_append_value
\* (and their _first variants on an empty destination).
run_container_append(d, vl) ==
  LET prev == d.buf[d.n]
  IN  IF d.n = 0 \/ vl.value > RunMax(prev) + 1 THEN PutRun(d, vl)
      ELSE IF RunEnd(vl) > RunMax(prev)
           THEN SetLastRun(d, Rle(prev.value, RunEnd(vl) - 1 - prev.value))
      ELSE d

run_container_smart_append_exclusive(d, start, length) ==
  LET last    == d.buf[d.n]
      old_end == RunEnd(last)
      new_end == start + length + 1
      cut     == SetLastRun(d, Interval(last.value, start))
  IN  IF d.n = 0 \/ start > old_end THEN PutRun(d, Rle(start, length))
      ELSE IF start = old_end
           THEN SetLastRun(d, Rle(last.value, last.length + length + 1))
      ELSE IF start = last.value
           THEN IF new_end < old_end THEN SetLastRun(d, Interval(new_end, old_end))
                ELSE IF new_end > old_end THEN SetLastRun(d, Interval(old_end, new_end))
                ELSE [d EXCEPT !.n = @ - 1]
      ELSE IF new_end < old_end THEN PutRun(cut, Interval(new_end, old_end))
      ELSE IF new_end > old_end THEN PutRun(cut, Interval(old_end, new_end))
      ELSE cut

SmartAppendAll(d, runs) ==
  FoldLeft(LAMBDA e, r : run_container_smart_append_exclusive(e, r.value, r.length),
           d, runs)

\* The order in which the two-pointer loops consume their inputs: by first
\* value, the left input first on a tie.
RECURSIVE MergeRuns(_, _)
MergeRuns(a, b) ==
  IF a = <<>> THEN b
  ELSE IF b = <<>> THEN a
  ELSE IF Head(a).value <= Head(b).value
       THEN <<Head(a)>> \o MergeRuns(Tail(a), b)
  ELSE <<Head(b)>> \o MergeRuns(a, Tail(b))

AppendAll(runs) == Live(FoldLeft(run_container_append, Fresh, runs))
-----------------------------------------------------------------------------
(* Binary operations.                                                      *)

run_container_union(a, b) ==
  IF run_container_is_full(a) THEN a
  ELSE IF run_container_is_full(b) THEN b
  ELSE AppendAll(MergeRuns(a, b))

run_container_xor(a, b) == Live(SmartAppendAll(Fresh, MergeRuns(a, b)))

RECURSIVE IntersectRuns(_, _)
IntersectRuns(a, b) ==
  IF a = <<>> \/ b = <<>> THEN <<>>
  ELSE LET x == Head(a)
           y == Head(b)
           lateststart == IF x.value > y.value THEN x.value ELSE y.value
           earliestend == IF RunEnd(x) < RunEnd(y) THEN RunEnd(x) ELSE RunEnd(y)
       IN  IF RunEnd(x) <= y.value THEN IntersectRuns(Tail(a), b)
           ELSE IF RunEnd(y) <= x.value THEN IntersectRuns(a, Tail(b))
           ELSE <<Interval(lateststart, earliestend)>>
                  \o IntersectRuns(IF RunEnd(x) <= RunEnd(y) THEN Tail(a) ELSE a,
                                   IF RunEnd(y) <= RunEnd(x) THEN Tail(b) ELSE b)

run_container_intersection(a, b) ==
  IF run_container_is_full(a) THEN b
  ELSE IF run_container_is_full(b) THEN a
  ELSE IntersectRuns(a, b)

run_container_intersection_cardinality(a, b) ==
  IF run_container_is_full(a) THEN run_container_cardinality(b)
  ELSE IF run_container_is_full(b) THEN run_container_cardinality(a)
  ELSE run_container_cardinality(IntersectRuns(a, b))

RECURSIVE RunsOverlap(_, _)
RunsOverlap(a, b) ==
  /\ a # <<>> /\ b # <<>>
  /\ IF RunEnd(Head(a)) <= Head(b).value THEN RunsOverlap(Tail(a), b)
     ELSE IF RunEnd(Head(b)) <= Head(a).value THEN RunsOverlap(a, Tail(b))
     ELSE TRUE

run_container_intersect(a, b) ==
  IF run_container_is_full(a) THEN b # <<>>
  ELSE IF run_container_is_full(b) THEN a # <<>>
  ELSE RunsOverlap(a, b)

\* start is the first value of Head(a) that is still to be output.
RECURSIVE SubtractRuns(_, _, _)
SubtractRuns(a, start, b) ==
  LET end  == RunEnd(Head(a))
      y    == Head(b)
      rest == IF Tail(a) = <<>> THEN <<>>
              ELSE SubtractRuns(Tail(a), Head(Tail(a)).value, b)
  IN  IF b = <<>> THEN <<Interval(start, end)>> \o Tail(a)
      ELSE IF end <= y.value THEN <<Interval(start, end)>> \o rest
      ELSE IF RunEnd(y) <= start THEN SubtractRuns(a, start, Tail(b))
      ELSE (IF start < y.value THEN <<Interval(start, y.value)>> ELSE <<>>)
             \o (IF RunEnd(y) < end THEN SubtractRuns(a, RunEnd(y), b) ELSE rest)

run_container_andnot(a, b) ==
  IF a = <<>> THEN <<>> ELSE SubtractRuns(a, Head(a).value, b)

RECURSIVE RunsIncluded(_, _)
RunsIncluded(a, b) ==
  IF a = <<>> \/ b = <<>> THEN a = <<>>
  ELSE LET x == Head(a)
           y == Head(b)
       IN  IF x.value < y.value THEN FALSE
           ELSE IF RunMax(x) < RunMax(y) THEN RunsIncluded(Tail(a), b)
           ELSE IF RunMax(x) = RunMax(y) THEN RunsIncluded(Tail(a), Tail(b))
           ELSE RunsIncluded(a, Tail(b))

run_container_is_subset(a, b) == RunsIncluded(a, b)
-----------------------------------------------------------------------------
(* Rank, selection and shifting.                                           *)

\* Number of values <= x.
run_container_rank(runs, x) ==
  LET RECURSIVE rank(_, _)
      rank(rest, sum) ==
        IF rest = <<>> THEN sum
        ELSE LET r == Head(rest)
             IN  IF x > RunMax(r) THEN rank(Tail(rest), sum + r.length + 1)
                 ELSE IF x < r.value THEN sum
                 ELSE sum + (x - r.value) + 1
  IN rank(runs, 0)

run_container_get_index(runs, x) ==
  IF run_container_contains(runs, x) THEN run_container_rank(runs, x) - 1 ELSE -1

\* The element of rank `rank' (from 0), or -1 when the container is too small.
run_container_select(runs, rank) ==
  LET RECURSIVE select(_, _)
      select(rest, start_rank) ==
        IF rest = <<>> THEN -1
        ELSE IF rank <= start_rank + Head(rest).length
             THEN Head(rest).value + rank - start_rank
        ELSE select(Tail(rest), start_rank + Head(rest).length + 1)
  IN select(runs, 0)

\* Adds offset to every value: lo keeps what stays in the chunk, hi what
\* overflows into the next one; the run at pivot is split when it crosses the border.
OffsetAt(runs, offset, pivot) ==
  LET split == pivot >= 0 /\ runs[pivot + 1].value < ChunkSize - offset
      lo_cap == IF pivot < 0 THEN Len(runs) ELSE pivot + (IF split THEN 1 ELSE 0)
      shift(s) == [i \in DOMAIN s |-> Rle(s[i].value + offset, s[i].length)]
      lo == shift(SubSeq(runs, 1, lo_cap))
      hi == IF pivot < 0 THEN <<>> ELSE shift(SubSeq(runs, pivot + 1, Len(runs)))
      border == ChunkSize - U16(runs[pivot + 1].value + offset)
  IN  [lo |-> IF split THEN Front(lo) \o <<Rle(Last(lo).value, border - 1)>> ELSE lo,
       hi |-> IF split THEN <<Rle(0, Head(hi).length - border)>> \o Tail(hi) ELSE hi]

run_container_offset(runs, offset) ==
  OffsetAt(runs, offset, run_container_index_equalorlarger(runs, U16(ChunkSize - offset)))
=============================================================================
