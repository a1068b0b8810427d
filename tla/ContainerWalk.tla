--------------------------- MODULE ContainerWalk ---------------------------
(***************************************************************************)
(* An iterator that walks over one container, of any type and with any     *)
(* content, through the functions the iterators of the bitmaps call.       *)
(***************************************************************************)
EXTENDS ContainerCursor

CONSTANT Counts   \* how many values a read or a skip may ask for

VARIABLES c,      \* the container
          it,     \* the iterator
          side,   \* where the iterator went when it has no value
          last    \* what the last call returned

vars == <<c, it, side, last>>

Containers ==
  { x \in { BitsetOf(s) : s \in SUBSET Values } \cup { ArrayOf(s) : s \in SUBSET Values }
          \cup { Run(RunsOf(s)) : s \in (SUBSET Values) \ {{}} } :
      container_internal_validate(x) }

Before == -1
After == ChunkSize

Init == /\ c \in Containers
        /\ it = Off(0, 0)
        /\ side = After
        /\ last = <<>>

\* The iterator moves; direction tells which end it leaves the container by.
Moved(new, direction, result) ==
  /\ it' = new
  /\ side' = direction
  /\ last' = result
  /\ UNCHANGED c

InitIterator == ~it.has /\ Moved(container_init_iterator(c), After, <<>>)
InitIteratorLast == ~it.has /\ Moved(container_init_iterator_last(c), Before, <<>>)

\* Moving and reading need an iterator that has a value.
IteratorNext == it.has /\ Moved(container_iterator_next(c, it), After, <<>>)
IteratorPrev == it.has /\ Moved(container_iterator_prev(c, it), Before, <<>>)

\* The value the iterator had does not matter here.
LowerBound ==
  \E val \in Values : Moved(container_iterator_lower_bound(c, it, val), After, <<>>)

ReadInto ==
  \E n \in Counts \ {0} :
    LET read == container_iterator_read_into_uint64(c, it, 0, n)
    IN  it.has /\ Moved(read.it, After, read.out)

ReadBackwardInto ==
  \E n \in Counts \ {0} :
    LET read == container_iterator_read_backward_into_uint64(c, it, 0, n)
    IN  it.has /\ Moved(read.it, Before, read.out)

Skip ==
  \E n \in Counts :
    LET skip == container_iterator_skip(c, it, n)
    IN  it.has /\ Moved(skip.it, After, <<skip.consumed>>)

SkipBackward ==
  \E n \in Counts :
    LET skip == container_iterator_skip_backward(c, it, n)
    IN  it.has /\ Moved(skip.it, Before, <<skip.consumed>>)

FindRunEnd ==
  LET run == container_iterator_find_run_end(c, it)
  IN  it.has /\ Moved(run.it, After, <<it.value, run.end>>)

FindRunStart ==
  LET run == container_iterator_find_run_start(c, it)
  IN  it.has /\ Moved(run.it, Before, <<run.end, it.value>>)

Next == \/ InitIterator \/ InitIteratorLast
        \/ IteratorNext \/ IteratorPrev \/ LowerBound
        \/ ReadInto \/ ReadBackwardInto \/ Skip \/ SkipBackward
        \/ FindRunEnd \/ FindRunStart

Spec == Init /\ [][Next]_vars
-----------------------------------------------------------------------------
\* An iterator with a value stands inside the container: the next call reads
\* array[index], runs[index] or the word of index without a check.
InBounds ==
  it.has =>
    CASE IsBitset(c) -> it.index \in Values /\ it.value = it.index
      [] IsArray(c) -> it.index \in 0 .. c.card - 1 /\ it.value = array(c, it.index)
      [] IsRun(c) -> /\ it.index \in 0 .. n_runs(c) - 1
                     /\ it.value \in runs(c, it.index).value .. RunMax(runs(c, it.index))

\* Each call does what it was asked for, wherever the iterator is: a seek ends
\* on the smallest value that is large enough, and reads and skips take as many
\* values as are wanted or left.  (The abstract cursor leaves the argument of a
\* call open.)
AsAsked ==
  LET set == Elements(c)
      left == Cardinality({ v \in set : v >= it.value })
      passed == Cardinality({ v \in set : v <= it.value })
  IN  /\ \A val \in Values :
           LET i == container_iterator_lower_bound(c, it, val)
               ahead == { v \in set : v >= val }
           IN  IF ahead = {} THEN ~i.has ELSE i.has /\ i.value = Min(ahead)
      /\ it.has =>
           \A n \in Counts \ {0} :
             /\ Len(container_iterator_read_into_uint64(c, it, 0, n).out) = Smallest(n, left)
             /\ Len(container_iterator_read_backward_into_uint64(c, it, 0, n).out)
                  = Smallest(n, passed)
             /\ container_iterator_skip(c, it, n).consumed = Smallest(n, left)
             /\ container_iterator_skip_backward(c, it, n).consumed = Smallest(n, passed)

-----------------------------------------------------------------------------
\* The queries are about the container alone: they are checked before it is
\* walked over.
Untouched == ~it.has /\ last = <<>> /\ side = After

RankIn(set, x) == Cardinality({ v \in set : v <= x })

\* Counting queries agree with the sorted set for every container type: rank,
\* index and select (container_rank, container_get_index, container_select)
\* are inverse to each other, and the smallest and largest values are its ends.
CountsAgree ==
  Untouched =>
    LET set == Elements(c)
    IN  /\ container_minimum(c) = Min(set) /\ container_maximum(c) = Max(set)
        /\ \A x \in Values :
             /\ container_rank(c, x) = RankIn(set, x)
             /\ container_get_index(c, x) = IF x \in set THEN RankIn(set, x) - 1 ELSE -1
             /\ container_contains(c, x) = (x \in set)
        /\ \A rank \in 0 .. ChunkSize, start \in {0, 2} :
             LET n == rank - start
                 answer == container_select(c, start, rank)
             IN  n >= 0 =>
                   /\ answer.found = (n < Cardinality(set))
                   /\ IF answer.found
                      THEN answer.element \in set /\ RankIn(set, answer.element) = n + 1
                      ELSE answer.start = start + Cardinality(set)

\* A batch of ranks over a sorted list of values, with duplicates, equals the
\* ranks one at a time (container_rank_many), although each one goes on from
\* where the last one stopped.
RankManyAgrees ==
  Untouched =>
    \A x, y, z \in Values :
      x <= y /\ y <= z =>
        container_rank_many(c, 5, <<x, y, z>>) =
          [i \in 1 .. 3 |-> 5 + RankIn(Elements(c), <<x, y, z>>[i])]

\* A range is found present exactly when all of its values are, for ranges that
\* start or end at a word or chunk border too (container_contains_range).
RangesAgree ==
  Untouched =>
    \A s \in Values : \A e \in s + 1 .. ChunkSize :
      container_contains_range(c, s, e) = (s .. e - 1 \subseteq Elements(c))

\* Containers of each type to compare with.
Others == { BitsetOf(0 .. UINT16_MAX \div 2 + 1), ArrayOf({1, 2, UINT16_MAX}),
            Run(RunsOf({0, 1, 2, 5, UINT16_MAX})), FullRun }

\* For every pair of types, the number of shared values, whether there is one,
\* and the operations in place agree with the two sets (container_and_cardinality,
\* container_intersect, container_iand, container_ixor, container_iandnot), and
\* every container they leave that is not empty passes the library's validation.
PairsAgree ==
  Untouched =>
    \A other \in Others :
      LET both == Elements(c) \cap Elements(other)
          results == << container_iand(c, other), container_ixor(c, other),
                        container_iandnot(c, other), container_iandnot(other, c) >>
      IN  /\ container_and_cardinality(c, other) = Cardinality(both)
          /\ container_and_cardinality(other, c) = Cardinality(both)
          /\ container_intersect(c, other) = (both # {})
          /\ [i \in 1 .. 4 |-> Elements(results[i])] =
               << both, SymDiff(Elements(c), Elements(other)),
                  Elements(c) \ Elements(other), Elements(other) \ Elements(c) >>
          /\ \A i \in 1 .. 4 :
               Elements(results[i]) # {} => container_internal_validate(results[i])

\* Shifting a container by an offset splits it in two without loss, and a half
\* without values is NULL (container_add_offset); the runs that the conversions
\* count are the runs of the set.
OffsetSplits ==
  Untouched =>
    /\ \A offset \in 1 .. ChunkSize - 1 :
         LET split == container_add_offset(c, offset)
         IN  /\ Elements(split.lo) = { v + offset : v \in Elements(c) } \cap Values
             /\ Elements(split.hi) = { v + offset - ChunkSize : v \in Elements(c) } \cap Values
    /\ LET n == Len(RunsOf(Elements(c)))
       IN  /\ IsBitset(c) => bitset_container_number_of_runs(c) = n
           /\ IsArray(c) => array_container_number_of_runs(c) = n
=============================================================================
