----------------------------- MODULE Iterator32 -----------------------------
(***************************************************************************)
(* The iterator of a 32-bit bitmap (roaring.c): the index of a container,  *)
(* a copy of the container's key and type, and the container's iterator.   *)
(* The index runs from -1 (before the first container) to the number of    *)
(* containers (past the last).                                             *)
(***************************************************************************)
EXTENDS ContainerCursor

CONSTANTS KeyCount,   \* 2^16: how many keys there are
          Counts,     \* how many values or ranges a read or a skip asks for
          Targets     \* the values that are sought

VARIABLES ra,         \* the bitmap, which does not change
          members,    \* the set it stands for
          it,         \* the iterator
          last        \* what the last call returned

vars == <<ra, members, it, last>>

RA == INSTANCE RoaringArray

Keys == 0 .. KeyCount - 1
UniverseSize == KeyCount * ChunkSize      \* 2^32
UINT32_MAX == UniverseSize - 1

\* The container's iterator, and the iterator after that one has moved.
Inner(i) == [index |-> i.container_it, value |-> i.current_value % ChunkSize, has |-> TRUE]
Take(i, inner) ==
  [i EXCEPT !.container_it = inner.index, !.has_value = TRUE,
            !.current_value = i.highbits + inner.value]
At(i, container_index) == [i EXCEPT !.container_index = container_index]

iter_new_container_partial_init(a, i) ==
  IF i.container_index \notin 0 .. Len(a) - 1
  THEN [i EXCEPT !.current_value = UINT32_MAX, !.has_value = FALSE]
  ELSE LET e == a[i.container_index + 1]
       IN  [i EXCEPT !.current_value = 0, !.has_value = TRUE,
                     !.container = e.container, !.highbits = e.key * ChunkSize]

loadfirstvalue(a, start) ==
  LET i == iter_new_container_partial_init(a, start)
  IN  IF i.has_value THEN Take(i, container_init_iterator(i.container)) ELSE i

loadlastvalue(a, start) ==
  LET i == iter_new_container_partial_init(a, start)
  IN  IF i.has_value THEN Take(i, container_init_iterator_last(i.container)) ELSE i

loadfirstvalue_largeorequal(a, start, val) ==
  LET i == iter_new_container_partial_init(a, start)
      first == container_init_iterator(i.container)
  IN  Take(i, container_iterator_lower_bound(i.container, first, val % ChunkSize))

roaring_iterator_init(a, i) == loadfirstvalue(a, At(i, 0))
roaring_iterator_init_last(a, i) == loadlastvalue(a, At(i, Len(a) - 1))

Uninitialized ==
  [container_index |-> 0, container |-> NULL, highbits |-> 0, container_it |-> 0,
   current_value |-> 0, has_value |-> FALSE]

roaring_uint32_iterator_move_equalorlarger(a, i, val) ==
  LET n == RA!ra_get_index(a, val \div ChunkSize)
  IN  IF n < 0 THEN loadfirstvalue(a, At(i, -n - 1))
      ELSE IF container_maximum(a[n + 1].container) < val % ChunkSize
           THEN loadfirstvalue(a, At(i, n + 1))
      ELSE loadfirstvalue_largeorequal(a, At(i, n), val)

roaring_uint32_iterator_advance(a, i) ==
  LET inner == container_iterator_next(i.container, Inner(i))
  IN  CASE i.container_index >= Len(a) -> [i EXCEPT !.has_value = FALSE]
        [] i.container_index < 0 /\ i.container_index < Len(a) -> loadfirstvalue(a, At(i, 0))
        [] i.container_index \in 0 .. Len(a) - 1 ->
             IF inner.has THEN Take(i, inner)
             ELSE loadfirstvalue(a, At(i, i.container_index + 1))

roaring_uint32_iterator_previous(a, i) ==
  LET inner == container_iterator_prev(i.container, Inner(i))
  IN  CASE i.container_index < 0 -> [i EXCEPT !.has_value = FALSE]
        [] i.container_index >= Len(a) /\ i.container_index >= 0 ->
             loadlastvalue(a, At(i, Len(a) - 1))
        [] i.container_index \in 0 .. Len(a) - 1 ->
             IF inner.has THEN Take(i, inner)
             ELSE loadlastvalue(a, At(i, i.container_index - 1))
-----------------------------------------------------------------------------
roaring_uint32_iterator_read(a, start, count) ==
  LET RECURSIVE read(_, _)
      read(i, out) ==
        LET got == container_iterator_read_into_uint32(i.container, Inner(i), i.highbits,
                                                       count - Len(out))
        IN  IF ~i.has_value \/ Len(out) >= count THEN Outcome(i, out)
            ELSE IF got.it.has THEN Outcome(Take(i, got.it), out \o got.out)
            ELSE read(loadfirstvalue(a, At(i, i.container_index + 1)), out \o got.out)
  IN  read(start, <<>>)

roaring_uint32_iterator_read_backward(a, start, count) ==
  LET RECURSIVE read(_, _)
      read(i, out) ==
        LET got == container_iterator_read_backward_into_uint32(
                     i.container, Inner(i), i.highbits, count - Len(out))
        IN  IF ~i.has_value \/ Len(out) >= count THEN Outcome(i, out)
            ELSE IF got.it.has THEN Outcome(Take(i, got.it), out \o got.out)
            ELSE read(loadlastvalue(a, At(i, i.container_index - 1)), out \o got.out)
  IN  read(start, <<>>)

\* Mutant: the move to the next container counts as one more value.
roaring_uint32_iterator_skip_CountsMove(a, start, count) ==
  LET RECURSIVE skip(_, _)
      skip(i, ret) ==
        LET got == container_iterator_skip(i.container, Inner(i), count - ret)
        IN  IF ~i.has_value \/ ret >= count THEN Skipped(i, ret)
            ELSE IF got.it.has THEN Skipped(Take(i, got.it), ret + got.consumed)
            ELSE skip(loadfirstvalue(a, At(i, i.container_index + 1)), ret + got.consumed + 1)
  IN  skip(start, 0)

roaring_uint32_iterator_skip(a, start, count) ==
  LET RECURSIVE skip(_, _)
      skip(i, ret) ==
        LET got == container_iterator_skip(i.container, Inner(i), count - ret)
        IN  IF ~i.has_value \/ ret >= count THEN Skipped(i, ret)
            ELSE IF got.it.has THEN Skipped(Take(i, got.it), ret + got.consumed)
            ELSE skip(loadfirstvalue(a, At(i, i.container_index + 1)), ret + got.consumed)
  IN  skip(start, 0)

roaring_uint32_iterator_skip_backward(a, start, count) ==
  LET RECURSIVE skip(_, _)
      skip(i, ret) ==
        LET got == container_iterator_skip_backward(i.container, Inner(i), count - ret)
        IN  IF ~i.has_value \/ ret >= count THEN Skipped(i, ret)
            ELSE IF got.it.has THEN Skipped(Take(i, got.it), ret + got.consumed)
            ELSE skip(loadlastvalue(a, At(i, i.container_index - 1)), ret + got.consumed)
  IN  skip(start, 0)

\* The inner loop: one range, over the containers that it reaches across.
\* Mutant: a range goes on into the next container wherever that starts.
RangeEnd_Joins(a, start) ==
  LET RECURSIVE extend(_)
      extend(i) ==
        LET run == container_iterator_find_run_end(i.container, Inner(i))
            max == i.highbits + run.end
            next == loadfirstvalue(a, At(i, i.container_index + 1))
        IN  IF run.it.has THEN [it |-> Take(i, run.it), end |-> max]
            ELSE IF next.has_value THEN extend(next)
            ELSE [it |-> next, end |-> max]
  IN  extend(start)

RangeEnd(a, start) ==
  LET RECURSIVE extend(_)
      extend(i) ==
        LET run == container_iterator_find_run_end(i.container, Inner(i))
            max == i.highbits + run.end
            next == loadfirstvalue(a, At(i, i.container_index + 1))
        IN  IF run.it.has THEN [it |-> Take(i, run.it), end |-> max]
            ELSE IF run.end = UINT16_MAX /\ next.has_value /\ next.current_value = max + 1
                 THEN extend(next)
            ELSE [it |-> next, end |-> max]
  IN  extend(start)

RangeStart(a, start) ==
  LET RECURSIVE extend(_)
      extend(i) ==
        LET run == container_iterator_find_run_start(i.container, Inner(i))
            min == i.highbits + run.end
            back == loadlastvalue(a, At(i, i.container_index - 1))
        IN  IF run.it.has THEN [it |-> Take(i, run.it), end |-> min]
            ELSE IF run.end = 0 /\ back.has_value /\ back.current_value = min - 1
                 THEN extend(back)
            ELSE [it |-> back, end |-> min]
  IN  extend(start)

\* The ranges are returned as one sequence: min, max, min, max.
roaring_uint32_iterator_read_ranges(a, start, count) ==
  LET RECURSIVE read(_, _)
      read(i, out) ==
        LET range == RangeEnd(a, i)
        IN  IF ~i.has_value \/ Len(out) >= 2 * count THEN Outcome(i, out)
            ELSE read(range.it, out \o <<i.current_value, range.end>>)
  IN  read(start, <<>>)

roaring_uint32_iterator_read_prev_ranges(a, start, count) ==
  LET RECURSIVE read(_, _)
      read(i, out) ==
        LET range == RangeStart(a, i)
        IN  IF ~i.has_value \/ Len(out) >= 2 * count THEN Outcome(i, out)
            ELSE read(range.it, out \o <<range.end, i.current_value>>)
  IN  read(start, <<>>)
-----------------------------------------------------------------------------
(* Other ways to list the values.                                          *)

ra_to_uint32_array(a) ==
  FoldLeft(LAMBDA out, e : out \o container_to_uint32_array(e.container, e.key * ChunkSize),
           <<>>, a)

\* The two size_t arguments become uint32_t ones.
roaring_bitmap_range_uint32_array(a, offset, limit) ==
  roaring_uint32_iterator_read(
    a, roaring_uint32_iterator_skip(a, roaring_iterator_init(a, Uninitialized),
                                    RA!U32(offset)).it,
    RA!U32(limit)).out

roaring_iterate(a, stop) ==
  FoldLeft(LAMBDA s, e :
             IF ~s.go THEN s
             ELSE container_iterate(e.container, e.key * ChunkSize, s.calls, stop),
           [calls |-> <<>>, go |-> TRUE], a)
-----------------------------------------------------------------------------
\* Containers that reach both borders of their chunk or neither, in every type.
Family ==
  { NULL, ArrayOf({0, UINT16_MAX}), BitsetOf({1, 2, UINT16_MAX}),
    BitsetOf(Values \ {2}), Run(RunsOf({0, 1, 3})), FullRun }

Before == -1
After == UniverseSize
Universe == 0 .. UniverseSize - 1

BitmapOf(f) ==
  LET present == Values2Seq({ k \in Keys : f[k] # NULL })
  IN  [i \in DOMAIN present |-> RA!Entry(present[i], f[present[i]])]

Init ==
  \E f \in [Keys -> Family] :
    /\ ra = BitmapOf(f)
    /\ members = UNION { { k * ChunkSize + v : v \in Elements(f[k]) } :
                         k \in { x \in Keys : f[x] # NULL } }
    /\ it = roaring_iterator_init(ra, Uninitialized)
    /\ last = <<>>

Moved(i, result) == /\ it' = i
                    /\ last' = result
                    /\ UNCHANGED <<ra, members>>

Reinit == Moved(roaring_iterator_init(ra, it), <<>>)
ReinitLast == Moved(roaring_iterator_init_last(ra, it), <<>>)
Advance == Moved(roaring_uint32_iterator_advance(ra, it), <<>>)
Previous == Moved(roaring_uint32_iterator_previous(ra, it), <<>>)
MoveEqualOrLarger ==
  \E v \in Targets : Moved(roaring_uint32_iterator_move_equalorlarger(ra, it, v), <<>>)
Read == \E n \in Counts :
          LET got == roaring_uint32_iterator_read(ra, it, n) IN Moved(got.it, got.out)
ReadBackward == \E n \in Counts :
          LET got == roaring_uint32_iterator_read_backward(ra, it, n)
          IN  Moved(got.it, got.out)
Skip == \E n \in Counts :
          LET got == roaring_uint32_iterator_skip(ra, it, n)
          IN  Moved(got.it, <<got.consumed>>)
SkipBackward == \E n \in Counts :
          LET got == roaring_uint32_iterator_skip_backward(ra, it, n)
          IN  Moved(got.it, <<got.consumed>>)
ReadRanges == \E n \in Counts :
          LET got == roaring_uint32_iterator_read_ranges(ra, it, n)
          IN  Moved(got.it, got.out)
ReadPrevRanges == \E n \in Counts :
          LET got == roaring_uint32_iterator_read_prev_ranges(ra, it, n)
          IN  Moved(got.it, got.out)

Next == \/ Reinit \/ ReinitLast \/ Advance \/ Previous \/ MoveEqualOrLarger
        \/ Read \/ ReadBackward \/ Skip \/ SkipBackward
        \/ ReadRanges \/ ReadPrevRanges

Spec == Init /\ [][Next]_vars
-----------------------------------------------------------------------------
\* Where the iterator stands among the values (see SortedCursor).
Place == IF it.has_value THEN it.current_value
         ELSE IF it.container_index < 0 THEN Before ELSE After

\* Each call does what it was asked for, wherever the iterator is: a seek ends on
\* the smallest value that is large enough, and a read returns as many values as
\* are wanted or left, however many containers they are in.  (The abstract
\* cursor leaves the argument of a call open.)
AsAsked ==
  LET ahead(v) == { m \in members : m >= v }
      left == IF it.has_value THEN Cardinality(ahead(it.current_value)) ELSE 0
      passed == IF it.has_value THEN Cardinality(members) - left + 1 ELSE 0
  IN  /\ \A v \in Targets :
           LET i == roaring_uint32_iterator_move_equalorlarger(ra, it, v)
           IN  IF ahead(v) = {} THEN ~i.has_value
               ELSE i.has_value /\ i.current_value \in ahead(v) /\ \A m \in ahead(v) : i.current_value <= m
      /\ \A n \in Counts :
           /\ Len(roaring_uint32_iterator_read(ra, it, n).out) = Smallest(n, left)
           /\ Len(roaring_uint32_iterator_read_backward(ra, it, n).out) = Smallest(n, passed)
           /\ roaring_uint32_iterator_skip(ra, it, n).consumed = Smallest(n, left)
           /\ roaring_uint32_iterator_skip_backward(ra, it, n).consumed = Smallest(n, passed)

AtStart == last = <<>> /\ it.container_index <= 0
All == Values2Seq(members)
Slice(offset, limit) == SubSeq(All, offset + 1, Smallest(Len(All), offset + limit))

\* The whole bitmap as an array, a part of it by position, and a callback that
\* stops early list the same values in the same order (ra_to_uint32_array,
\* roaring_bitmap_range_uint32_array, roaring_iterate).
ListsAgree ==
  AtStart =>
    /\ ra_to_uint32_array(ra) = All
    /\ \A offset, limit \in Counts :
         roaring_bitmap_range_uint32_array(ra, offset, limit) = Slice(offset, limit)
    /\ \A stop \in Counts \ {0} :
         LET told == roaring_iterate(ra, stop)
         IN  told.calls = Slice(0, stop) /\ told.go = (Len(All) < stop)
=============================================================================
