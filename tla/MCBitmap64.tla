----------------------------- MODULE MCBitmap64 -----------------------------
(***************************************************************************)
(* The 64-bit bitmap in one instance for TLC.  A behaviour either changes  *)
(* a bitmap (Bitmap64) or walks over one with an iterator (Iterator64), as *)
(* scope says.                                                             *)
(***************************************************************************)
EXTENDS Roaring64, ContainerCursor

CONSTANTS Ends, Offsets, MaxChanges,   \* of Bitmap64
          Counts, Targets              \* of Iterator64

VARIABLES scope,              \* the machine that the behaviour is of
          r, members,         \* the bitmap and the set it stands for
          context, changes,   \* of Bitmap64
          it, last            \* of Iterator64

vars == <<scope, r, members, context, changes, it, last>>

Bitmap == INSTANCE Bitmap64
Iterator == INSTANCE Iterator64

\* The value of the variables that a machine does not have.
None == "none"

Init == \/ scope = "bitmap" /\ Bitmap!Init /\ it = None /\ last = None
        \/ scope = "iterator" /\ Iterator!Init /\ context = None /\ changes = None

InBitmap == scope = "bitmap" /\ UNCHANGED <<scope, it, last>>
InIterator == scope = "iterator" /\ UNCHANGED <<scope, context, changes>>
Next == \/ InBitmap /\ Bitmap!UpdateCall
        \/ InBitmap /\ Bitmap!WholeCall
        \/ InBitmap /\ Bitmap!Combine
        \/ InBitmap /\ Bitmap!CombineInplace
        \/ InBitmap /\ Bitmap!BulkCall
        \/ InIterator /\ Iterator!Step
        \/ InIterator /\ Iterator!ReadCall

Spec == Init /\ [][Next]_vars
-----------------------------------------------------------------------------
\* After any sequence of calls the bitmap holds the set that the calls say it
\* holds, and passes the library's validation.
HoldsMembers == scope = "bitmap" => Bitmap!HoldsMembers

\* Every leaf points to a container of its own with the type that both the leaf
\* and the array of types record, no container is without a leaf, and first_free
\* is the first hole (set_container_at, allocate_index, remove_container).
\* Shrinking leaves no hole and loses nothing, wherever the holes were
\* (move_to_shrink): this is what the frozen format needs.
SlotsMatchLeaves ==
  scope = "bitmap" => Bitmap!SlotsMatchLeaves /\ Bitmap!ShrinkPacks

\* Queries agree with the set: the scan of the slots, ranks, indices, selection,
\* what the checked calls return, comparisons with another bitmap in whatever
\* container types, the calls that run an iterator of their own, and ranges over gaps
\* between containers; roaring64_bitmap_contains_range unless the chunk of max
\* is missing and a later one is there.  They do not look at the context: one
\* state is enough for each bitmap (roaring64_bitmap_get_cardinality,
\* _range_closed_cardinality, _is_subset, _to_uint64_array, _intersect_with_range).
QueriesAgree ==
  /\ scope = "bitmap" /\ context = ZeroContext =>
       Bitmap!CountsAgree /\ Bitmap!RangesAgree /\ Bitmap!PairsAgree
  /\ scope = "iterator" => Iterator!WholeAgrees

\* The cache of an iterator may be stale, but where advance takes it to describe
\* the position it holds exactly the later bits of the word, so that each call
\* does what it was asked for: a seek ends on the smallest value that is large
\* enough, and a read returns as many values as are wanted or left
\* (roaring64_iterator_prime, roaring64_iterator_advance, roaring64_iterator_read).
CacheDescribes == scope = "iterator" => Iterator!CacheDescribes /\ Iterator!AsAsked

\* Through any sequence of calls, in both directions and with restarts at both
\* ends, the iterator walks the sorted set of the bitmap: every value once and
\* in order, ranges merged over container borders exactly when they touch
\* (roaring64_iterator_*).
Cursor == INSTANCE SortedCursor
            WITH Universe <- Iterator!Universe,
                 members <- IF scope = "iterator" THEN members ELSE {},
                 at <- IF scope = "iterator" THEN Iterator!Place ELSE Iterator!After,
                 last <- IF scope = "iterator" THEN last ELSE <<>>
RefinesCursor == Cursor!Spec
=============================================================================
