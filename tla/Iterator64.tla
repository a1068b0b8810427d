----------------------------- MODULE Iterator64 -----------------------------
(***************************************************************************)
(* The iterator of a 64-bit bitmap (roaring64.c): a position in the tree,  *)
(* the iterator of the container there, and a cache of the rest of the     *)
(* word of a bitset.  The cache is kept or dropped by each call and must   *)
(* be used only where it describes the position.                           *)
(***************************************************************************)
EXTENDS Roaring64, ContainerCursor

CONSTANTS Counts,     \* how many values or ranges a read asks for
          Targets     \* the values that are sought

VARIABLES r,          \* the bitmap, which does not change
          members,    \* the set it stands for
          it,         \* the iterator
          last        \* what the last call returned

vars == <<r, members, it, last>>

art_iterator_prev(b, key) ==
  LET found == { k \in DOMAIN b.art : k < key } IN IF found = {} THEN End ELSE Max(found)

NoCache == [on |-> FALSE]

\* key is where art_it stands, End when its value is NULL.
Container(b, i) == get_container(b, i.key)

\* The container's iterator, and the iterator after that one has moved.
Inner(i) == [index |-> i.container_it, value |-> split_key(i.value).low, has |-> TRUE]
Take(i, inner) ==
  [i EXCEPT !.container_it = inner.index, !.has_value = TRUE,
            !.value = combine_key(i.high48, inner.value)]

\* Mutant: the bit under the iterator stays in the cache.
roaring64_iterator_prime_Keeps(b, i) ==
  LET c == Container(b, i)
      w == i.container_it \div WordBits
  IN  [i EXCEPT !.fast =
         IF i.key = End \/ ~IsBitset(c) THEN NoCache
         ELSE [on |-> TRUE, key |-> i.key, index |-> i.container_it, wordindex |-> w,
               word |-> { v \in Word(c.set, w) : v >= i.container_it }]]

roaring64_iterator_prime(b, i) ==
  LET c == Container(b, i)
      w == i.container_it \div WordBits
  IN  [i EXCEPT !.fast =
         IF i.key = End \/ ~IsBitset(c) THEN NoCache
         ELSE [on |-> TRUE, key |-> i.key, index |-> i.container_it, wordindex |-> w,
               word |-> { v \in Word(c.set, w) : v > i.container_it }]]

roaring64_iterator_init_at_leaf_first(b, i) ==
  roaring64_iterator_prime(b,
    Take([i EXCEPT !.high48 = i.key], container_init_iterator(Container(b, i))))

roaring64_iterator_init_at_leaf_last(b, i) ==
  roaring64_iterator_prime(b,
    Take([i EXCEPT !.high48 = i.key], container_init_iterator_last(Container(b, i))))

roaring64_iterator_init_at(b, i, first) ==
  LET key == IF first THEN First(b) ELSE art_iterator_prev(b, End)
      there == [i EXCEPT !.key = key]
  IN  CASE key = End -> [there EXCEPT !.has_value = FALSE, !.saturated_forward = first,
                                      !.fast = NoCache]
        [] key # End /\ first -> roaring64_iterator_init_at_leaf_first(b, there)
        [] key # End /\ ~first -> roaring64_iterator_init_at_leaf_last(b, there)

\* What malloc returns: no field is set.
Uninitialized(forward) ==
  [key |-> End, high48 |-> 0, container_it |-> 0, value |-> 0, has_value |-> FALSE,
   saturated_forward |-> forward, fast |-> NoCache]

\* The tree has no leaf in this direction.
Saturate(i, forward) ==
  [i EXCEPT !.key = End, !.has_value = FALSE, !.saturated_forward = forward]
Drop(i) == [i EXCEPT !.fast = NoCache]

roaring64_iterator_next_leaf(b, i) ==
  LET key == art_iterator_next(b, i.key)
  IN  IF key = End THEN Drop(Saturate(i, TRUE))
      ELSE roaring64_iterator_init_at_leaf_first(b, [i EXCEPT !.key = key])

PrevLeaf(b, i) ==
  LET key == art_iterator_prev(b, i.key)
  IN  IF key = End THEN Saturate(i, FALSE)
      ELSE roaring64_iterator_init_at_leaf_last(b, [i EXCEPT !.key = key])
-----------------------------------------------------------------------------
AdvanceTo(b, i, inner) ==
  IF ~inner.has THEN roaring64_iterator_next_leaf(b, [i EXCEPT !.container_it = inner.index])
  ELSE IF IsBitset(Container(b, i)) THEN roaring64_iterator_prime(b, Take(i, inner))
  ELSE Take(i, inner)

roaring64_iterator_advance_slow(b, i) ==
  IF i.key # End THEN AdvanceTo(b, i, container_iterator_next(Container(b, i), Inner(i)))
  ELSE IF i.saturated_forward THEN [i EXCEPT !.has_value = FALSE]
  ELSE roaring64_iterator_init_at(b, i, TRUE)

Cached(i) == i.fast.on /\ i.fast.key = i.key /\ i.fast.index = i.container_it

TakeFrom(i, word, index) ==
  [Take(i, On(index, index)) EXCEPT
     !.fast = [@ EXCEPT !.wordindex = index \div WordBits,
                        !.word = word \ {index}, !.index = index]]

AdvanceInWord(b, i, word) ==
  IF word = {} THEN roaring64_iterator_next_leaf(b, i) ELSE TakeFrom(i, word, Min(word))

roaring64_iterator_advance(b, i) ==
  IF ~Cached(i) THEN roaring64_iterator_advance_slow(b, i)
  ELSE AdvanceInWord(b, i, IF i.fast.word # {} THEN i.fast.word
                           ELSE NextWord(Container(b, i).set, i.fast.wordindex))

DropUnlessValue(i) == IF i.has_value THEN i ELSE Drop(i)

RetreatTo(b, i, inner) ==
  IF inner.has THEN Drop(Take(i, inner))
  ELSE DropUnlessValue(PrevLeaf(b, [i EXCEPT !.container_it = inner.index]))

roaring64_iterator_previous(b, i) ==
  IF i.key # End THEN RetreatTo(b, i, container_iterator_prev(Container(b, i), Inner(i)))
  ELSE IF ~i.saturated_forward THEN [i EXCEPT !.has_value = FALSE]
  ELSE roaring64_iterator_init_at(b, i, FALSE)

SeekWithin(b, there, inner) ==
  IF inner.has THEN Drop(Take(there, inner)) ELSE roaring64_iterator_next_leaf(b, there)

SeekAt(b, there, want) ==
  IF there.key = End THEN Drop(Saturate(there, TRUE))
  ELSE IF there.key # want.high THEN roaring64_iterator_init_at_leaf_first(b, there)
  ELSE SeekWithin(b, there, container_iterator_lower_bound(Container(b, there), Inner(there),
                                                           want.low))

ToLeaf(i, key) ==
  IF key = End THEN [i EXCEPT !.key = End] ELSE [i EXCEPT !.key = key, !.high48 = key]

roaring64_iterator_move_equalorlarger(b, i, val) ==
  LET want == split_key(val)
  IN  SeekAt(b, ToLeaf(i, IF i.has_value /\ i.high48 = want.high THEN i.key
                          ELSE art_iterator_lower_bound(b, want.high)), want)
-----------------------------------------------------------------------------
roaring64_iterator_read(b, start, count) ==
  LET RECURSIVE read(_, _), go_on(_, _, _)
      go_on(i, out, got) ==
        IF got.it.has THEN Outcome(Drop(Take(i, got.it)), out \o got.out)
        ELSE read(roaring64_iterator_next_leaf(b, i), out \o got.out)
      read(i, out) ==
        IF ~i.has_value \/ Len(out) >= count THEN Outcome(i, out)
        ELSE go_on(i, out, container_iterator_read_into_uint64(Container(b, i), Inner(i),
                             combine_key(i.high48, 0), count - Len(out)))
  IN  read(start, <<>>)

\* A step back leaves the cache as it is: the index shows that it is stale.
roaring64_iterator_read_backward(b, start, count) ==
  LET RECURSIVE read(_, _), go_on(_, _, _)
      go_on(i, out, got) ==
        IF got.it.has THEN Outcome(Take(i, got.it), out \o got.out)
        ELSE read(PrevLeaf(b, i), out \o got.out)
      read(i, out) ==
        IF ~i.has_value \/ Len(out) >= count THEN Outcome(i, out)
        ELSE go_on(i, out, container_iterator_read_backward_into_uint64(Container(b, i),
                             Inner(i), combine_key(i.high48, 0), count - Len(out)))
  IN  read(start, <<>>)

NextLeafKeepsCache(b, i) ==
  IF art_iterator_next(b, i.key) = End THEN Saturate(i, TRUE)
  ELSE roaring64_iterator_next_leaf(b, i)

\* Mutant: ranges of neighbouring containers are always joined.
Adjoins_Always(run, next, max) == next.has_value

\* Whether a range goes on in the container of the next leaf.
Adjoins(run, next, max) == next.has_value /\ run.end = UINT16_MAX /\ next.value = max + 1

\* The inner loop: one range, over the containers that it reaches across.
RangeEnd(b, start) ==
  LET RECURSIVE extend(_), within(_, _), beyond(_, _, _)
      extend(i) == within(i, container_iterator_find_run_end(Container(b, i), Inner(i)))
      within(i, run) ==
        IF run.it.has THEN [it |-> Take(i, run.it), end |-> combine_key(i.high48, run.end)]
        ELSE beyond(run, NextLeafKeepsCache(b, i), combine_key(i.high48, run.end))
      beyond(run, next, max) ==
        IF Adjoins(run, next, max) THEN extend(next) ELSE [it |-> next, end |-> max]
  IN  extend(start)

RangeStart(b, start) ==
  LET RECURSIVE extend(_), within(_, _), beyond(_, _, _)
      extend(i) == within(i, container_iterator_find_run_start(Container(b, i), Inner(i)))
      within(i, run) ==
        IF run.it.has THEN [it |-> Take(i, run.it), end |-> combine_key(i.high48, run.end)]
        ELSE beyond(run, PrevLeaf(b, i), combine_key(i.high48, run.end))
      beyond(run, back, min) ==
        IF back.has_value /\ run.end = 0 /\ back.value = min - 1 THEN extend(back)
        ELSE [it |-> back, end |-> min]
  IN  extend(start)

\* The ranges are returned as one sequence: min, max, min, max.
roaring64_iterator_read_ranges(b, start, count) ==
  LET RECURSIVE read(_, _), go_on(_, _, _)
      go_on(i, out, range) == read(range.it, out \o <<i.value, range.end>>)
      read(i, out) == IF ~i.has_value \/ Len(out) >= 2 * count THEN Outcome(i, out)
                      ELSE go_on(i, out, RangeEnd(b, i))
  IN  read(start, <<>>)

roaring64_iterator_read_prev_ranges(b, start, count) ==
  LET RECURSIVE read(_, _), go_on(_, _, _)
      go_on(i, out, range) == read(range.it, out \o <<range.end, i.value>>)
      read(i, out) == IF ~i.has_value \/ Len(out) >= 2 * count THEN Outcome(i, out)
                      ELSE go_on(i, out, RangeStart(b, i))
  IN  read(start, <<>>)
-----------------------------------------------------------------------------
(* Callers of the iterator, and iteration with a callback.                 *)

roaring64_bitmap_to_uint64_array(b) ==
  roaring64_iterator_read(b, roaring64_iterator_init_at(b, Uninitialized(TRUE), TRUE),
                          UniverseSize).out

roaring64_bitmap_intersect_with_range(b, min, max) ==
  LET i == roaring64_iterator_move_equalorlarger(
             b, roaring64_iterator_init_at(b, Uninitialized(TRUE), TRUE), min)
  IN  min < max /\ i.has_value /\ i.value < max

roaring64_bitmap_iterate(b, stop) ==
  FoldLeft(LAMBDA s, key :
             IF ~s.go THEN s
             ELSE container_iterate64(get_container(b, key), combine_key(key, 0),
                                      s.calls, stop),
           [calls |-> <<>>, go |-> TRUE], InKeyOrder(b))
-----------------------------------------------------------------------------
\* Containers that reach both borders of their chunk or neither, in every type;
\* the last chunk is empty or full.
Family ==
  { NULL, ArrayOf({0, UINT16_MAX}), BitsetOf({1, 2, UINT16_MAX}),
    BitsetOf(Values \ {2}), Run(RunsOf({0, 1, 3})), FullRun }

Before == -1
After == UniverseSize
Universe == 0 .. UniverseSize - 1

BitmapOf(f) ==
  FoldLeft(LAMBDA b, key : IF f[key] = NULL THEN b ELSE add_container(b, key, f[key]),
           roaring64_bitmap_create, Values2Seq(Keys))

Init ==
  \E f \in { g \in [Keys -> Family] : g[KeyCount - 1] \in {NULL, FullRun} },
     first, garbage \in BOOLEAN :
    /\ r = BitmapOf(f)
    /\ members = UNION { { combine_key(k, v) : v \in Elements(f[k]) } :
                         k \in { x \in Keys : f[x] # NULL } }
    /\ it = roaring64_iterator_init_at(r, Uninitialized(garbage), first)
    /\ last = <<>>

Moved(i, result) == /\ it' = i
                    /\ last' = result
                    /\ UNCHANGED <<r, members>>

Give(got) == Moved(got.it, got.out)

Reinit == \E first \in BOOLEAN : Moved(roaring64_iterator_init_at(r, it, first), <<>>)
Advance == Moved(roaring64_iterator_advance(r, it), <<>>)
Previous == Moved(roaring64_iterator_previous(r, it), <<>>)
MoveEqualOrLarger ==
  \E v \in Targets : Moved(roaring64_iterator_move_equalorlarger(r, it, v), <<>>)
Read == \E n \in Counts :
          Give(roaring64_iterator_read(r, it, n))
ReadBackward == \E n \in Counts :
          Give(roaring64_iterator_read_backward(r, it, n))
ReadRanges == \E n \in Counts :
          Give(roaring64_iterator_read_ranges(r, it, n))
ReadPrevRanges == \E n \in Counts :
          Give(roaring64_iterator_read_prev_ranges(r, it, n))

Step == Reinit \/ Advance \/ Previous \/ MoveEqualOrLarger
ReadCall == Read \/ ReadBackward \/ ReadRanges \/ ReadPrevRanges

Next == Step \/ ReadCall

Spec == Init /\ [][Next]_vars
-----------------------------------------------------------------------------
\* The cache may be stale, but where advance takes it to describe the position
\* (the same leaf and the same index) it holds exactly the later bits of the word
\* (the claim of the comments on roaring64_iterator_t and roaring64_iterator_advance).
CacheDescribes ==
  Cached(it) =>
    /\ it.has_value /\ IsBitset(Container(r, it))
    /\ it.fast.wordindex = it.container_it \div WordBits
    /\ it.fast.word = { v \in Word(Container(r, it).set, it.fast.wordindex) :
                        v > it.container_it }

\* Where the iterator stands among the values (see SortedCursor).
Place == IF it.has_value THEN it.value
         ELSE IF it.saturated_forward THEN After ELSE Before

\* Each call does what it was asked for, wherever the iterator is: a seek ends on
\* the smallest value that is large enough, and a read returns as many values as
\* are wanted or left, however many containers they are in.  (The abstract
\* cursor leaves the argument of a call open.)
AsAsked ==
  LET ahead(v) == { m \in members : m >= v }
      left == IF it.has_value THEN Cardinality(ahead(it.value)) ELSE 0
      passed == IF it.has_value THEN Cardinality(members) - left + 1 ELSE 0
  IN  /\ \A v \in Targets :
           LET i == roaring64_iterator_move_equalorlarger(r, it, v)
           IN  IF ahead(v) = {} THEN ~i.has_value
               ELSE i.has_value /\ i.value \in ahead(v) /\ \A m \in ahead(v) : i.value <= m
      /\ \A n \in Counts :
           /\ Len(roaring64_iterator_read(r, it, n).out) = Smallest(n, left)
           /\ Len(roaring64_iterator_read_backward(r, it, n).out) = Smallest(n, passed)

\* The calls that run an iterator of their own agree with the set: the values as
\* an array, a range that has a value, and a callback that stops the iteration
\* early is called for exactly the first values (roaring64_bitmap_iterate).
WholeAgrees ==
  last = <<>> /\ it = roaring64_iterator_init_at(r, Uninitialized(TRUE), TRUE) =>
    LET all == Values2Seq(members)
    IN  /\ roaring64_bitmap_to_uint64_array(r) = all
        /\ \A min, max \in Targets :
             roaring64_bitmap_intersect_with_range(r, min, max) =
               (members \cap min .. max - 1 # {})
        /\ \A stop \in Counts \ {0} :
             LET told == roaring64_bitmap_iterate(r, stop)
             IN  /\ told.calls = SubSeq(all, 1, Smallest(stop, Len(all)))
                 /\ told.go = (Len(all) < stop)
=============================================================================
