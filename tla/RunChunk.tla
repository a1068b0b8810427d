------------------------------ MODULE RunChunk ------------------------------
(***************************************************************************)
(* A chunk kept in a run container, in lockstep with the set of integers   *)
(* it stands for.  Every action calls a function of run.h / run.c on the   *)
(* runs and, independently, applies the set operation that the function is *)
(* documented to compute to members.  The second operand of a binary       *)
(* operation ranges over every valid run container.                        *)
(***************************************************************************)
EXTENDS RunContainer, FiniteSetsExt

VARIABLES c,         \* the container: its live runs
          members     \* the integers that it should hold

vars == <<c, members>>

\* The one valid run container of a nonempty set of integers.
RunsOf(S) ==
  LET starts == { v \in S : v - 1 \notin S }
      last(v) == Max({ w \in v .. ChunkSize - 1 : v .. w \subseteq S })
  IN  SetToSortSeq({ Rle(v, last(v) - v) : v \in starts },
                   LAMBDA r, s : r.value < s.value)

RunContainers == { RunsOf(S) : S \in (SUBSET Values) \ {{}} }

\* run_container_create
Init == c = <<>> /\ members = {}

AddValue(x) ==
  /\ c' = run_container_add(c, x)
  /\ members' = members \cup {x}

RemoveValue(x) ==
  /\ c' = run_container_remove(c, x)
  /\ members' = members \ {x}

\* container_add_range on a run container.
AddRange(min, max) ==
  LET nruns_greater == rle16_count_greater(c, Len(c), max)
      nruns_less == rle16_count_less(c, Len(c) - nruns_greater, min)
  IN  /\ c' = run_container_add_range_nruns(c, min, max, nruns_less,
                                               nruns_greater)
      /\ members' = members \cup (min .. max)

\* container_remove_range on a run container: one that the range covers is freed.
RemoveRange(min, max) ==
  /\ c # <<>>
  /\ c' = IF min <= Head(c).value /\ max >= RunMax(Last(c)) THEN <<>>
             ELSE run_container_remove_range(c, min, max)
  /\ members' = members \ (min .. max)

\* The binary operations are never called on an empty container.
Union(b) ==
  /\ c # <<>>
  /\ c' = run_container_union(c, b)
  /\ members' = members \cup RunSet(b)

Intersection(b) ==
  /\ c # <<>>
  /\ c' = run_container_intersection(c, b)
  /\ members' = members \cap RunSet(b)

Xor(b) ==
  /\ c # <<>>
  /\ c' = run_container_xor(c, b)
  /\ members' = SymDiff(members, RunSet(b))

Andnot(b) ==
  /\ c # <<>>
  /\ c' = run_container_andnot(c, b)
  /\ members' = members \ RunSet(b)

\* container_add_offset: the chunk goes on as the low or as the high part.
Offset(offset) ==
  /\ c # <<>>
  /\ LET parts == run_container_offset(c, offset)
         moved == { x + offset : x \in members }
     IN  \/ /\ c' = parts.lo
            /\ members' = moved \cap Values
         \/ /\ c' = parts.hi
            /\ members' = { x - ChunkSize : x \in moved \ Values }

Next ==
  \/ \E x \in Values : AddValue(x) \/ RemoveValue(x)
  \/ \E min, max \in Values :
       min <= max /\ (AddRange(min, max) \/ RemoveRange(min, max))
  \/ \E b \in RunContainers :
       Union(b) \/ Intersection(b) \/ Xor(b) \/ Andnot(b)
  \/ \E offset \in Values \ {0} : Offset(offset)

Spec == Init /\ [][Next]_vars
-----------------------------------------------------------------------------
(* Properties.                                                             *)

\* The runs stand for the intended set after any sequence of updates, whatever
\* neighbours merge, split, disappear or touch the ends of the chunk.
HoldsMembers == RunSet(c) = members

\* Every update leaves what run_container_validate accepts (or nothing): runs
\* inside the chunk, sorted, disjoint and not adjacent; and the cardinality is
\* the number of members.
StaysValid ==
  /\ c # <<>> => run_container_validate(c)
  /\ run_container_cardinality(c) = Cardinality(members)

\* The searches find the run they promise at every position: containment,
\* the first run not before x, rank, index and selection agree with the set.
PointQueriesAgree ==
  /\ \A x \in Values :
       LET upTo == { y \in members : y <= x }
           i == run_container_index_equalorlarger(c, x)
       IN  /\ run_container_contains(c, x) <=> x \in members
           /\ run_container_rank(c, x) = Cardinality(upTo)
           /\ run_container_get_index(c, x) =
                IF x \in members THEN Cardinality(upTo) - 1 ELSE -1
           /\ IF i < 0 THEN members \subseteq 0 .. x - 1
              ELSE /\ RunMax(c[i + 1]) >= x
                   /\ i > 0 => RunMax(c[i]) < x
  /\ \A k \in Values :
       LET v == run_container_select(c, k)
       IN  IF v < 0 THEN k >= Cardinality(members)
           ELSE v \in members /\ Cardinality({ y \in members : y < v }) = k

\* run_container_contains_range accepts exactly the ranges that the container
\* includes, in spite of its counts that leave out the end of each run.
RangeQueryAgrees ==
  c # <<>> =>
    \A min \in Values : \A end \in min + 1 .. ChunkSize :
      run_container_contains_range(c, min, end)
        <=> min .. end - 1 \subseteq members

\* The queries on two containers agree with the sets, for every operand.
PairQueriesAgree ==
  c # <<>> =>
    \A b \in RunContainers :
      LET both == members \cap RunSet(b)
      IN  /\ run_container_intersect(c, b) <=> both # {}
          /\ run_container_intersection_cardinality(c, b) = Cardinality(both)
          /\ run_container_is_subset(c, b) <=> members \subseteq RunSet(b)
          /\ run_container_is_subset(b, c) <=> RunSet(b) \subseteq members
=============================================================================
