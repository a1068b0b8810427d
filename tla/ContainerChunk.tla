--------------------------- MODULE ContainerChunk ---------------------------
(***************************************************************************)
(* One key of a bitmap: the container that roaring.c keeps for it, in      *)
(* lockstep with the set of integers that the calls are documented to      *)
(* leave.  Operands range over every valid container, so that every pair   *)
(* of types and every conversion between types is taken.  Between a lazy   *)
(* operation and roaring_bitmap_repair_after_lazy only lazy operations are *)
(* allowed, as in or_many, xor_many and or_many_heap.                      *)
(***************************************************************************)
EXTENDS Container

VARIABLES c,         \* the container, NULL when the bitmap does not have the key
          members,   \* the integers that it should hold
          lazy       \* a lazy operation waits for its repair

vars == <<c, members, lazy>>

\* The containers that roaring_bitmap_internal_validate accepts.
ValidContainers ==
  LET sets == (SUBSET Values) \ {{}}
  IN  { Run(RunsOf(S)) : S \in sets } \cup { BitsetOrArray(BitsetOf(S)) : S \in sets }

\* An empty result is freed and its key removed.
Keep(r) == IF container_nonzero_cardinality(r) THEN r ELSE NULL

Init == c = NULL /\ members = {} /\ lazy = FALSE

\* An operation on a bitmap that is not waiting for a repair.
Eager == ~lazy /\ lazy' = FALSE

Absent == Eager /\ c = NULL
Present == Eager /\ c # NULL

\* roaring_bitmap_add
AddValue(x) ==
  /\ \/ Absent /\ c' = container_add(Array({}, 0), x)
     \/ Present /\ c' = container_add(c, x)
  /\ members' = members \cup {x}

\* roaring_bitmap_remove
RemoveValue(x) ==
  /\ Present
  /\ c' = Keep(container_remove(c, x))
  /\ members' = members \ {x}

\* roaring_bitmap_add_range_closed, one key of the range.
AddRange(min, max) ==
  /\ min <= max
  /\ \/ Absent /\ c' = container_from_range(min, max + 1, 1)
     \/ Present /\ c' = container_add_range(c, min, max)
  /\ members' = members \cup (min .. max)

\* roaring_bitmap_remove_range_closed, one key of the range.
RemoveRange(min, max) ==
  /\ min <= max
  /\ Present
  /\ c' = container_remove_range(c, min, max)
  /\ members' = members \ (min .. max)

\* roaring_bitmap_from_range, one key of the range.
FromRange(min, max, step) ==
  /\ min < max
  /\ Absent
  /\ c' = container_from_range(min, max, step)
  /\ members' = { v \in min .. max - 1 : \E k \in Values : v = min + k * step }

\* roaring_bitmap_and, _or, _or_inplace, _xor and _andnot on a common key.
And(b) == Present /\ c' = Keep(container_and(c, b)) /\ members' = members \cap Elements(b)

Or(b) == Present /\ c' = container_or(c, b) /\ members' = members \cup Elements(b)

OrInplace(b) ==
  /\ Present
  /\ c' = IF container_is_full(c) THEN c ELSE container_ior(c, b)
  /\ members' = members \cup Elements(b)

Xor(b) ==
  Present /\ c' = Keep(container_xor(c, b)) /\ members' = SymDiff(members, Elements(b))

Andnot(b) ==
  Present /\ c' = Keep(container_andnot(c, b)) /\ members' = members \ Elements(b)

\* roaring_bitmap_flip on a key of the range: a missing container becomes one
\* with the whole range, and a key in the middle of the range is negated whole.
Flip(start, end) ==
  /\ start < end
  /\ \/ Absent /\ c' = container_range_of_ones(start, end)
     \/ Present /\ c' = Keep(container_not_range(c, start, end))
     \/ /\ Present
        /\ start = 0 /\ end = ChunkSize
        /\ c' = Keep(container_not(c))
  /\ members' = SymDiff(members, start .. end - 1)

\* roaring_bitmap_flip_inplace, with room for spare more runs in the container.
FlipInplace(spare, start, end) ==
  LET capacity == IF IsRun(c) THEN Len(c.runs) + spare ELSE 0
  IN  /\ start < end
      /\ Present
      /\ \/ c' = Keep(container_inot_range(c, capacity, start, end))
         \/ /\ start = 0 /\ end = ChunkSize
            /\ c' = Keep(container_inot(c, capacity))
      /\ members' = SymDiff(members, start .. end - 1)

\* roaring_bitmap_run_optimize
RunOptimize == Present /\ c' = convert_run_optimize(c) /\ UNCHANGED members

\* roaring_bitmap_remove_run_compression
RemoveRunCompression ==
  /\ Present
  /\ IsRun(c)
  /\ c' = convert_to_bitset_or_array_container(c.runs)
  /\ UNCHANGED members

\* roaring_bitmap_add_offset: the key goes on as the low or as the high part of
\* the shifted container, which keeps its type until the repair at the end.
AddOffset(offset) ==
  LET moved == { x + offset : x \in members }
      lo == moved \cap Values
      hi == { x - ChunkSize : x \in moved \ Values }
      parts == run_container_offset(c.runs, offset)
      shifted(set) == IF IsBitset(c) THEN BitsetOf(set) ELSE ArrayOf(set)
  IN  /\ Present
      /\ \/ /\ lo # {}
            /\ c' = container_repair_after_lazy(IF IsRun(c) THEN Run(parts.lo)
                                                ELSE shifted(lo))
            /\ members' = lo
         \/ /\ hi # {}
            /\ c' = container_repair_after_lazy(IF IsRun(c) THEN Run(parts.hi)
                                                ELSE shifted(hi))
            /\ members' = hi
-----------------------------------------------------------------------------
(* Lazy operations.                                                        *)

\* roaring_bitmap_lazy_or
LazyOr(b, bitsetconversion) ==
  /\ c # NULL /\ ~lazy /\ lazy' = TRUE
  /\ c' = IF bitsetconversion /\ ~IsBitset(c) /\ ~IsBitset(b)
          THEN container_lazy_ior(container_to_bitset(c), b)
          ELSE container_lazy_or(c, b)
  /\ members' = members \cup Elements(b)

\* roaring_bitmap_lazy_or_inplace
LazyOrInplace(b, bitsetconversion) ==
  /\ c # NULL /\ lazy' = TRUE
  /\ c' = IF container_is_full(c) THEN c
          ELSE IF bitsetconversion THEN container_lazy_ior(container_to_bitset(c), b)
          ELSE container_lazy_ior(c, b)
  /\ members' = members \cup Elements(b)

\* lazy_or_from_lazy_inputs of roaring_bitmap_or_many_heap: the other input is
\* a bitset of unknown cardinality, too.
OrLazyInputs(b) ==
  /\ c # NULL /\ lazy /\ lazy' = TRUE
  /\ c' = IF ~IsBitset(c) THEN container_lazy_ior(b, c) ELSE container_lazy_ior(c, b)
  /\ members' = members \cup Elements(b)

\* roaring_bitmap_lazy_xor
LazyXor(b) ==
  /\ c # NULL /\ ~lazy /\ lazy' = TRUE
  /\ c' = Keep(container_lazy_xor(c, b))
  /\ members' = SymDiff(members, Elements(b))

\* roaring_bitmap_lazy_xor_inplace
LazyXorInplace(b) ==
  /\ c # NULL /\ lazy' = TRUE
  /\ c' = Keep(container_lazy_ixor(c, b))
  /\ members' = SymDiff(members, Elements(b))

\* roaring_bitmap_repair_after_lazy
Repair ==
  /\ lazy /\ lazy' = FALSE
  /\ c' = IF c = NULL THEN NULL ELSE container_repair_after_lazy(c)
  /\ UNCHANGED members
-----------------------------------------------------------------------------
Next ==
  \/ \E x \in Values : AddValue(x) \/ RemoveValue(x)
  \/ \E min, max \in Values : AddRange(min, max) \/ RemoveRange(min, max)
  \/ \E min \in Values, max \in 1 .. ChunkSize, step \in 1 .. ChunkSize - 1 :
       FromRange(min, max, step)
  \/ \E b \in ValidContainers : And(b) \/ Or(b) \/ OrInplace(b) \/ Xor(b) \/ Andnot(b)
  \/ \E start \in Values, end \in 1 .. ChunkSize :
       Flip(start, end) \/ \E spare \in {0, 1} : FlipInplace(spare, start, end)
  \/ RunOptimize \/ RemoveRunCompression
  \/ \E offset \in Values \ {0} : AddOffset(offset)
  \/ \E b \in ValidContainers :
       \/ LazyXor(b) \/ LazyXorInplace(b)
       \/ \E conv \in BOOLEAN : LazyOr(b, conv) \/ LazyOrInplace(b, conv)
  \/ \E S \in (SUBSET Values) \ {{}} : OrLazyInputs(Lazy(S))
  \/ Repair

Spec == Init /\ [][Next]_vars
-----------------------------------------------------------------------------
(* Properties.                                                             *)

\* Whatever types the operands have and however the results are converted, the
\* container holds the integers that the calls are documented to leave.
HoldsMembers == Elements(c) = members

\* The cardinality field of a bitset or an array is exact, except between a
\* lazy operation and its repair, when a bitset may say that it is unknown: no
\* update starts from an unknown cardinality as if it were a count.
CardinalityExact ==
  container_get_cardinality(c)
    \in {Cardinality(members)}
         \cup (IF lazy /\ IsBitset(c) THEN {BITSET_UNKNOWN_CARDINALITY} ELSE {})

\* roaring_bitmap_internal_validate accepts the container after any sequence of
\* calls that ends with a repair: no small bitset, no array that is too large
\* or empty, no run container with runs that touch.
StaysValid ==
  ~lazy /\ c # NULL => CASE IsBitset(c) -> c.card > DEFAULT_MAX_SIZE
                         [] IsArray(c) -> c.card \in 1 .. DEFAULT_MAX_SIZE
                         [] IsRun(c) -> run_container_validate(c.runs)

\* run_container_negation_range_inplace: whenever the code decides to negate in
\* place, no run is overwritten before it is read and the result fits.
NegationInplaceSafe ==
  IsRun(c) /\ c # NULL =>
    \A start \in Values : \A end \in start + 1 .. ChunkSize :
      \A capacity \in Len(c.runs) .. Len(c.runs) + 1 :
        NegationFits(c.runs, capacity, start, end) =>
          LET d == run_container_negation_range_inplace(c.runs, start, end)
          IN  /\ Live(d) = run_container_negation_range(c.runs, start, end)
              /\ Len(d.buf) <= capacity

serialized_size(r) ==
  CASE IsRun(r) -> run_container_serialized_size_in_bytes(Len(r.runs))
    [] IsArray(r) -> array_container_serialized_size_in_bytes(r.card)
    [] IsBitset(r) -> bitset_container_serialized_size_in_bytes

\* roaring_bitmap_run_optimize leaves the smallest of the valid containers.
OptimizeMinimal ==
  ~lazy /\ c # NULL =>
    \A r \in {Run(RunsOf(members)), BitsetOrArray(BitsetOf(members))} :
      serialized_size(convert_run_optimize(c)) <= serialized_size(r)

\* Equality and inclusion do not depend on the types of the containers.
ComparisonsAgree ==
  ~lazy /\ c # NULL =>
    \A b \in ValidContainers :
      /\ container_equals(c, b) <=> members = Elements(b)
      /\ container_is_subset(c, b) <=> members \subseteq Elements(b)
      /\ container_is_subset(b, c) <=> Elements(b) \subseteq members
=============================================================================
