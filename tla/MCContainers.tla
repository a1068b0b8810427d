---------------------------- MODULE MCContainers ----------------------------
(***************************************************************************)
(* The container machines in one instance for TLC.  A behaviour is of one  *)
(* of them, which scope names: a run container that is updated (RunChunk), *)
(* a container of any type that is updated (ContainerChunk) or walked over *)
(* (ContainerWalk), and the iterator of a bitmap of several containers     *)
(* (Iterator32).  All have the same chunk size and limits.                 *)
(***************************************************************************)
EXTENDS ContainerCursor

CONSTANTS KeyCount, Counts, Targets

VARIABLES scope,       \* the machine that the behaviour is of
          c,           \* the container of RunChunk, ContainerChunk, ContainerWalk
          members,     \* of RunChunk, ContainerChunk and Iterator32
          lazy,        \* of ContainerChunk
          it, last,    \* the iterator of ContainerWalk and of Iterator32
          side,        \* of ContainerWalk
          ra           \* of Iterator32

vars == <<scope, c, members, lazy, it, last, side, ra>>

Runs == INSTANCE RunChunk
Chunk == INSTANCE ContainerChunk
Walk == INSTANCE ContainerWalk
Bitmap == INSTANCE Iterator32

\* The value of the variables that a machine does not have.
None == "none"

Init ==
  \/ /\ scope = "runs" /\ Runs!Init
     /\ lazy = None /\ it = None /\ last = None /\ side = None /\ ra = None
  \/ /\ scope = "chunk" /\ Chunk!Init
     /\ it = None /\ last = None /\ side = None /\ ra = None
  \/ /\ scope = "walk" /\ Walk!Init
     /\ members = None /\ lazy = None /\ ra = None
  \/ /\ scope = "bitmap" /\ Bitmap!Init
     /\ c = None /\ lazy = None /\ side = None

Next ==
  \/ scope = "runs" /\ Runs!Next /\ UNCHANGED <<scope, lazy, it, last, side, ra>>
  \/ scope = "chunk" /\ Chunk!Next /\ UNCHANGED <<scope, it, last, side, ra>>
  \/ scope = "walk" /\ Walk!Next /\ UNCHANGED <<scope, members, lazy, ra>>
  \/ scope = "bitmap" /\ Bitmap!Next /\ UNCHANGED <<scope, c, lazy, side>>

Spec == Init /\ [][Next]_vars
-----------------------------------------------------------------------------
\* Whatever types the operands have, however the results are converted and
\* whatever runs merge, split or touch the ends of the chunk, a container holds
\* the integers that the calls (container_*, run_container_*) should leave; and
\* when run_container_negation_range_inplace negates in place, it overwrites no
\* run before it has read it.
HoldsMembers ==
  /\ scope = "runs" => Runs!HoldsMembers
  /\ scope = "chunk" => Chunk!HoldsMembers /\ Chunk!NegationInplaceSafe

\* Every sequence of calls that ends with a repair leaves a container that
\* roaring_bitmap_internal_validate accepts: no small bitset, no array that is
\* too large or empty, no runs that touch.  The cardinality field is exact,
\* except in a bitset between a lazy operation and its repair (container_lazy_*,
\* container_repair_after_lazy), and convert_run_optimize leaves the smallest
\* of the valid containers.
StaysValid ==
  /\ scope = "runs" => Runs!StaysValid
  /\ scope = "chunk" => Chunk!StaysValid /\ Chunk!CardinalityExact /\ Chunk!OptimizeMinimal

\* Queries agree with the sets whatever the types: ranks, one at a time and in
\* batches that go on from each other, positions, selection, ranges that start or
\* end at a word or chunk border; equality, inclusion, intersection and the
\* operations in place on every pair of types; shifts that split a container
\* in two without loss; and the listings of a bitmap, whole, by position, or by a
\* callback that stops early (container_rank_many, container_contains_range,
\* container_iand, container_add_offset, roaring_bitmap_range_uint32_array).
QueriesAgree ==
  /\ scope = "runs" => /\ Runs!PointQueriesAgree
                       /\ Runs!RangeQueryAgrees
                       /\ Runs!PairQueriesAgree
  /\ scope = "chunk" => Chunk!ComparisonsAgree
  /\ scope = "walk" => /\ Walk!CountsAgree /\ Walk!RankManyAgrees
                       /\ Walk!RangesAgree /\ Walk!PairsAgree /\ Walk!OffsetSplits
  /\ scope = "bitmap" => Bitmap!ListsAgree

\* Each call of an iterator does what it was asked for, wherever it is: a seek
\* ends on the smallest value that is large enough, and a read or a skip takes
\* as many values as are wanted or left, however many containers they are in;
\* and it ends inside the container, since the next call reads array[index],
\* runs[index] or the word of index without a check (container_iterator_*,
\* roaring_uint32_iterator_*).
AsAsked ==
  /\ scope = "walk" => Walk!AsAsked /\ Walk!InBounds
  /\ scope = "bitmap" => Bitmap!AsAsked

\* Through any sequence of calls, in both directions and with restarts at both
\* ends, the iterators of a container and of a bitmap walk the sorted set: every
\* value once and in order, skips over words, runs and containers count each
\* value once, and ranges are merged over container borders exactly when they
\* touch (container_iterator_*, roaring_uint32_iterator_*).
Cursor == INSTANCE SortedCursor
            WITH Universe <- Bitmap!Universe,
                 members <- CASE scope = "walk" -> Elements(c)
                              [] scope = "bitmap" -> members
                              [] OTHER -> {},
                 at <- CASE scope = "walk" /\ it.has -> it.value
                         [] scope = "walk" /\ side = Walk!Before -> Bitmap!Before
                         [] scope = "bitmap" -> Bitmap!Place
                         [] OTHER -> Bitmap!After,
                 last <- IF scope \in {"walk", "bitmap"} THEN last ELSE <<>>
RefinesCursor == Cursor!Spec
=============================================================================
