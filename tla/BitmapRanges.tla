---------------------------- MODULE BitmapRanges ----------------------------
(***************************************************************************)
(* One bitmap under the calls of roaring.c that take ranges, shift values  *)
(* or build a bitmap from a range, in lockstep with the set of integers    *)
(* that the calls are documented to leave (roaring.h).  Range ends are     *)
(* 64-bit arguments.  roaring_bitmap_from_range with a large step is a     *)
(* loop over 32-bit values, and takes one action per turn.                 *)
(***************************************************************************)
EXTENDS RoaringArray

CONSTANT MaxArgument     \* the largest 64-bit range end that a caller passes

ASSUME MaxArgumentAssumption == MaxArgument \in Nat /\ MaxArgument >= Universe

VARIABLES ra,         \* the entries of the bitmap, sorted by key
          members,    \* the integers that it should hold
          loop        \* the loop of from_range with a large step, or NoLoop

vars == <<ra, members, loop>>

NoLoop == [value |-> 0, max |-> 0, step |-> 0]

Init == ra = <<>> /\ members = {} /\ loop = NoLoop

\* The integers of the range [min, max), as far as a bitmap can hold them.
Range32(min, max) == { v \in 0 .. Universe - 1 : min <= v /\ v < max }

Call(result, documented) ==
  /\ loop = NoLoop
  /\ ra' = result
  /\ members' = documented
  /\ UNCHANGED loop

AddValue(x) == Call(roaring_bitmap_add(ra, x), members \cup {x})
RemoveValue(x) == Call(roaring_bitmap_remove(ra, x), members \ {x})

AddRange(min, max) ==
  Call(roaring_bitmap_add_range(ra, min, max), members \cup Range32(min, max))

RemoveRange(min, max) ==
  Call(roaring_bitmap_remove_range(ra, min, max), members \ Range32(min, max))

Flip(start, end) ==
  Call(roaring_bitmap_flip(ra, start, end), SymDiff(members, Range32(start, end)))

FlipInplace(start, end) ==
  Call(roaring_bitmap_flip_inplace(ra, start, end), SymDiff(members, Range32(start, end)))

\* Values that leave the 32-bit range are dropped.
AddOffset(offset) ==
  Call(roaring_bitmap_add_offset(ra, offset),
       { x + offset : x \in members } \cap (0 .. Universe - 1))

\* The integers of [min, max) at a distance k * step from min.
Steps(min, max, step) == { v \in Range32(min, max) : (v - min) % step = 0 }

\* roaring_bitmap_from_range; the bitmap takes the place of the old one.  It
\* returns NULL when step = 0 or max <= min.
Capped(max) == IF max >= Universe THEN Universe ELSE max

FromRange(min, max, step) ==
  /\ step > 0 /\ Capped(max) > min
  /\ step < ChunkSize
  /\ Call(from_range_chunks(min, Capped(max), step), Steps(min, max, step))

FromRangeLoop(min, max, step) ==
  /\ loop = NoLoop
  /\ Capped(max) > min
  /\ step >= ChunkSize
  /\ ra' = <<>>
  /\ members' = Steps(min, max, step)
  /\ loop' = [value |-> min, max |-> Capped(max), step |-> step]

\* Mutant: value is kept in a narrower type.
FromRangeTurn_NarrowValue ==
  /\ loop # NoLoop
  /\ loop.value < loop.max
  /\ ra' = roaring_bitmap_add(ra, loop.value)
  /\ loop' = [loop EXCEPT !.value = (@ + loop.step) % (Universe \div 2)]
  /\ UNCHANGED members

\* value is a uint32_t, max is a uint64_t.
FromRangeTurn ==
  /\ loop # NoLoop
  /\ loop.value < loop.max
  /\ ra' = roaring_bitmap_add(ra, loop.value)
  /\ loop' = [loop EXCEPT !.value = U32(@ + loop.step)]
  /\ UNCHANGED members

FromRangeReturn ==
  /\ loop # NoLoop
  /\ loop.value >= loop.max
  /\ loop' = NoLoop
  /\ UNCHANGED <<ra, members>>

Turn == FromRangeTurn \/ FromRangeReturn
-----------------------------------------------------------------------------
RangeCalls(ends) ==
  \E min, max \in ends :
    \/ AddRange(min, max) \/ RemoveRange(min, max)
    \/ Flip(min, max) \/ FlipInplace(min, max)
    \/ \E step \in 1 .. ChunkSize - 1 : FromRange(min, max, step)

\* Callers whose range ends are 32-bit values, or 2^32 for an end, and whose
\* from_range has no turn that leaves the 32-bit values.
Next ==
  \/ \E x \in 0 .. Universe - 1 : AddValue(x) \/ RemoveValue(x)
  \/ RangeCalls(0 .. Universe)
  \/ \E offset \in (1 - Universe) .. (Universe - 1) : AddOffset(offset)
  \/ \E min, max \in 0 .. Universe, step \in ChunkSize .. Universe - 1 :
       max + step <= Universe /\ FromRangeLoop(min, max, step)
  \/ Turn

Spec == Init /\ [][Next]_vars /\ WF_vars(Turn)

\* Callers that pass any 64-bit range end.
WideSpec == Init /\ [][RangeCalls(0 .. MaxArgument)]_vars

\* Callers that pass any step to from_range, up to the end of the 32-bit values.
LoopSpec ==
  /\ Init
  /\ [][\/ \E min, max \in 0 .. Universe, step \in ChunkSize .. Universe - 1 :
             FromRangeLoop(min, max, step)
        \/ Turn]_vars
  /\ WF_vars(Turn)
-----------------------------------------------------------------------------
(* Properties.                                                             *)

\* What roaring_bitmap_internal_validate asks of the keys, which every search
\* relies on: strictly increasing, and no empty container.
KeysSorted ==
  /\ \A i \in 2 .. Len(ra) : ra[i - 1].key < ra[i].key
  /\ \A i \in 1 .. Len(ra) : /\ ra[i].key \in Keys
                             /\ ra[i].container \in (SUBSET Lows) \ {{}}

\* After every call the bitmap holds the integers that roaring.h says it holds:
\* no entry is lost, doubled or read after it was overwritten while the entries
\* are moved, and both ends of a range fall into the right chunk.  Inside the
\* loop of roaring_bitmap_from_range, too, the keys ascend.
HoldsMembers == KeysSorted /\ (loop = NoLoop => MembersOf(ra) = members)

\* roaring_bitmap_range_cardinality and roaring_bitmap_contains_range say of any
\* range within the 32-bit values what the set of values says.
RangeQueriesAgree ==
  loop = NoLoop =>
    \A start, end \in 0 .. Universe :
      LET range == Range32(start, end)
      IN  /\ roaring_bitmap_range_cardinality(ra, start, end)
               = Cardinality(range \cap members)
          /\ roaring_bitmap_contains_range(ra, start, end) <=> range \subseteq members

\* roaring_bitmap_from_range returns: its loop over 32-bit values ends.
FromRangeReturns == loop # NoLoop ~> loop = NoLoop
=============================================================================
