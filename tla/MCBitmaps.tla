----------------------------- MODULE MCBitmaps -----------------------------
(***************************************************************************)
(* The machines about bitmaps that share containers, in one instance for   *)
(* TLC.  A behaviour is either of set operations between three bitmaps     *)
(* (BitmapAlgebra) or of bulk calls on two (BulkContext), as scope says.   *)
(***************************************************************************)
EXTENDS BitmapQueries

CONSTANTS KeyCount, Chunks, ChainKeys, MaxSteps, FlagKept, KeysMayFail,   \* of BitmapAlgebra
          MixedWhenShared, KeptOverCopy                                   \* of BulkContext

VARIABLES scope,                               \* the machine that the behaviour is of
          heap, bitmaps, members, cow, steps,
          limit,                               \* of BitmapAlgebra
          contexts                             \* of BulkContext

vars == <<scope, heap, bitmaps, members, cow, steps, limit, contexts>>

Algebra == INSTANCE BitmapAlgebra
\* Two keys with two values each, and an array of one value at most.
Bulk == INSTANCE BulkContext
          WITH KeyCount <- 2, ChunkSize <- 2, DEFAULT_MAX_SIZE <- 1, MaxSteps <- 4

ASSUME BitmapsAssumption == Algebra!AlgebraAssumption /\ Bulk!BulkAssumption

\* The value of the variable that a machine does not have.
None == "none"

Init == \/ scope = "algebra" /\ Algebra!Init /\ contexts = None
        \/ scope = "bulk" /\ Bulk!Init /\ limit = None

InAlgebra == scope = "algebra" /\ UNCHANGED <<scope, contexts>>
Next == \/ InAlgebra /\ Algebra!PairCall
        \/ InAlgebra /\ Algebra!InplaceCall
        \/ InAlgebra /\ Algebra!XorInplaceCall
        \/ InAlgebra /\ Algebra!ManyCall
        \/ InAlgebra /\ Algebra!HeapCall
        \/ InAlgebra /\ Algebra!SingleCall
        \/ scope = "bulk" /\ Bulk!Next /\ UNCHANGED <<scope, limit>>

Spec == Init /\ [][Next]_vars
-----------------------------------------------------------------------------
\* Every bitmap holds the set that the calls on it are documented to build,
\* whatever it shares with the others and whatever the calls on those did; its
\* keys ascend, and no container is empty or of the wrong type.
HoldsMembers ==
  /\ scope = "algebra" => Algebra!HoldsMembers
  /\ scope = "bulk" => Bulk!HoldsMembers

\* No call uses a container after it was freed, none is lost, and each shared
\* one counts the entries that hold it: every call frees, moves or shares
\* exactly what it took, a failing copy too (shared_container_free,
\* ra_advance_until_freeing, ra_overwrite).
NothingDangles ==
  /\ scope = "algebra" => Algebra!NothingDangles
  /\ scope = "bulk" => Bulk!NothingDangles

\* Shared containers are only in bitmaps that are copy-on-write, which is what
\* roaring_bitmap_internal_validate asks for, as long as the caller turns on the
\* flag of each answer.
SharedOnlyInCow == scope = "algebra" => Algebra!SharedOnlyInCow

\* Queries on one bitmap and on two agree with the sets, however the keys
\* interleave (roaring_bitmap_rank_many, _get_index, _select, _equals, _is_subset,
\* _and_cardinality); so do the answers of the heap of roaring_bitmap_or_many_heap,
\* which gives its elements in the order of their sizes, also after one was put
\* back (create_pq, pq_poll, pq_add).
QueriesAgree ==
  scope = "algebra" => /\ Algebra!SingleQueriesAgree
                       /\ Algebra!PairQueriesAgree
                       /\ Algebra!PollsSmallest

\* A context that is still valid points at the container that its bitmap holds
\* for the key, at that index and with that type, and a search that goes on from it
\* finds what a new search would find
\* (roaring_bulk_context_t, add_bulk_impl, roaring_bitmap_contains_bulk).
ContextCurrent ==
  scope = "bulk" => Bulk!ContextCurrent /\ Bulk!BulkSearchAgrees
=============================================================================
