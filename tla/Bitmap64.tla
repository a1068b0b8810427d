------------------------------ MODULE Bitmap64 ------------------------------
(***************************************************************************)
(* One 64-bit bitmap through any sequence of calls: the set it stands for, *)
(* the bookkeeping of its containers, and the context of bulk calls.       *)
(***************************************************************************)
EXTENDS Roaring64

CONSTANTS Ends,         \* the values that calls are made with
          Offsets,      \* how far a bitmap may be shifted
          MaxChanges    \* bound: how many calls change the bitmap

VARIABLES r,            \* the bitmap
          members,      \* the set that the calls have built
          context,      \* the context of the bulk calls in progress
          changes

vars == <<r, members, context, changes>>

Universe == 0 .. UINT64_MAX

Contents(b) ==
  UNION { { combine_key(k, v) : v \in Elements(get_container(b, k)) } : k \in DOMAIN b.art }

\* The bitmaps it is combined with: all three types of containers,
\* keys that are missing, and a container that the other one covers.
Others ==
  { roaring64_bitmap_of_ptr(<<1, ChunkSize, ChunkSize + 1, ChunkSize + 2>>),
    roaring64_bitmap_from_range(ChunkSize - 1, UniverseSize - 2, 1),
    roaring64_bitmap_from_range(0, UniverseSize, 2 * ChunkSize),
    roaring64_bitmap_create }

Init == /\ r = roaring64_bitmap_create
        /\ members = {}
        /\ context = ZeroContext
        /\ changes = 0

\* A context may not be used across other calls: the caller starts a new one.
Call(bitmap, set) ==
  /\ changes < MaxChanges
  /\ r' = bitmap
  /\ members' = set
  /\ context' = ZeroContext
  /\ changes' = changes + 1

AddValue == \E v \in Ends : Call(roaring64_bitmap_add(r, v), members \cup {v})
RemoveValue == \E v \in Ends : Call(roaring64_bitmap_remove(r, v), members \ {v})

AddRange ==
  \E min, max \in Ends :
    min <= max /\ Call(roaring64_bitmap_add_range(r, min, max + 1), members \cup min .. max)
RemoveRange ==
  \E min, max \in Ends :
    min <= max /\ Call(roaring64_bitmap_remove_range(r, min, max + 1), members \ min .. max)
FlipInplace ==
  \E min, max \in Ends :
    /\ min <= max
    /\ Call(roaring64_bitmap_flip_inplace(r, min, max + 1), SymDiff(members, min .. max))
Flip ==
  \E min, max \in Ends :
    min <= max /\ Call(roaring64_bitmap_flip(r, min, max + 1), SymDiff(members, min .. max))

AddOffset ==
  \E offset \in Offsets, positive \in BOOLEAN :
    Call(roaring64_bitmap_add_offset_signed(r, positive, offset),
         { IF positive THEN v + offset ELSE v - offset : v \in members } \cap Universe)

FromRange ==
  \E min, max \in Ends, step \in {1, 2, ChunkSize + 1} :
    /\ min < max
    /\ Call(roaring64_bitmap_from_range(min, max, step),
            { v \in min .. max - 1 : (v - min) % step = 0 })

Clear == Call(roaring64_bitmap_clear(r), {})
Copy == Call(roaring64_bitmap_copy(r), members)
Overwrite == \E o \in Others : Call(roaring64_bitmap_overwrite(r, o), Contents(o))

RunOptimize == Call(roaring64_bitmap_run_optimize(r), members)
RemoveRunCompression == Call(roaring64_bitmap_remove_run_compression(r), members)
ShrinkToFit == Call(roaring64_bitmap_shrink_to_fit(r), members)

\* A bitmap of 32 bits whose containers are taken over.
Bitmap32 == << [key |-> 0, container |-> FullRun],
               [key |-> KeyCount - 1, container |-> ArrayOf({1})] >>
MoveFromRoaring32 ==
  Call(move_from_roaring32_offset(roaring64_bitmap_create, Bitmap32, 0),
       Values \cup {combine_key(KeyCount - 1, 1)})

Combine ==
  \E o \in Others :
    LET set == Contents(o)
    IN  \/ Call(roaring64_bitmap_and(r, o), members \cap set)
        \/ Call(roaring64_bitmap_or(r, o), members \cup set)
        \/ Call(roaring64_bitmap_xor(r, o), SymDiff(members, set))
        \/ Call(roaring64_bitmap_andnot(r, o), members \ set)

CombineInplace ==
  \E o \in Others :
    LET set == Contents(o)
    IN  \/ Call(roaring64_bitmap_and_inplace(r, o), members \cap set)
        \/ Call(roaring64_bitmap_or_inplace(r, o), members \cup set)
        \/ Call(roaring64_bitmap_xor_inplace(r, o), SymDiff(members, set))
        \/ Call(roaring64_bitmap_andnot_inplace(r, o), members \ set)

\* The calls of a bulk sequence share the context.  roaring64_bitmap_remove_bulk
\* may leave a leaf in it that it has erased, although a context is meant to serve
\* until a call without it: what reading through that leaf gives is undefined, and
\* such a call is left out.
Usable(v) == Applies(context, split_key(v).high) => context.leaf \in DOMAIN r.art

AddBulk ==
  \E v \in Ends :
    LET call == roaring64_bitmap_add_bulk(r, context, v)
    IN  /\ changes < MaxChanges /\ Usable(v)
        /\ r' = call.r /\ context' = call.context
        /\ members' = members \cup {v}
        /\ changes' = changes + 1

ContainsBulk ==
  \E v \in Ends :
    /\ Usable(v)
    /\ context' = roaring64_bitmap_contains_bulk(r, context, v).context
    /\ UNCHANGED <<r, members, changes>>

RemoveBulk ==
  \E v \in Ends :
    LET call == roaring64_bitmap_remove_bulk(r, context, v)
    IN  /\ changes < MaxChanges /\ Usable(v)
        /\ r' = call.r /\ context' = call.context
        /\ members' = members \ {v}
        /\ changes' = changes + 1

UpdateCall == AddValue \/ RemoveValue \/ AddRange \/ RemoveRange \/ FlipInplace \/ Flip
WholeCall == \/ AddOffset \/ FromRange \/ Clear \/ Copy \/ Overwrite \/ RunOptimize
             \/ RemoveRunCompression \/ ShrinkToFit \/ MoveFromRoaring32
BulkCall == AddBulk \/ ContainsBulk \/ RemoveBulk

Next == UpdateCall \/ WholeCall \/ Combine \/ CombineInplace \/ BulkCall

Spec == Init /\ [][Next]_vars
-----------------------------------------------------------------------------
\* Every leaf points to a container of its own with the type that both the leaf
\* and the array of types record, no container is without a leaf, and first_free
\* is the first hole (set_container_at, allocate_index, remove_container).
SlotsMatchLeaves ==
  /\ \A k \in DOMAIN r.art :
       LET leaf == r.art[k]
       IN  /\ leaf.index \in 0 .. capacity(r) - 1
           /\ Slot(r, leaf.index) # Vacant
           /\ Slot(r, leaf.index).type = leaf.type
           /\ r.typecodes[leaf.index + 1] = leaf.type
  /\ LET used == { r.art[k].index : k \in DOMAIN r.art }
     IN  /\ Cardinality(used) = Cardinality(DOMAIN r.art)
         /\ used = { i \in 0 .. capacity(r) - 1 : Slot(r, i) # Vacant }
         /\ r.first_free = Min((0 .. capacity(r)) \ used)

\* After any sequence of calls the bitmap holds the set that the calls say it
\* holds, and passes the library's validation.
HoldsMembers == Contents(r) = members /\ roaring64_bitmap_internal_validate(r)

Rank(set, v) == Cardinality({ m \in set : m <= v })

\* Counting agrees with the set: the scan of the slots, ranks, indices, selection,
\* both ends, the numbers per type, and what the checked calls return.
CountsAgree ==
  LET card == Cardinality(members)
      stat == roaring64_bitmap_statistics(r)
  IN  /\ roaring64_bitmap_get_cardinality(r) = card
      /\ roaring64_bitmap_is_empty(r) = (card = 0)
      /\ roaring64_bitmap_minimum(r) = IF card = 0 THEN UINT64_MAX ELSE Min(members)
      /\ roaring64_bitmap_maximum(r) = IF card = 0 THEN 0 ELSE Max(members)
      /\ stat["bitset"].values + stat["array"].values + stat["run"].values = card
      /\ \A v \in Universe :
           /\ roaring64_bitmap_rank(r, v) = Rank(members, v)
           /\ roaring64_bitmap_contains(r, v) = (v \in members)
           /\ roaring64_bitmap_get_index(r, v) =
                IF v \in members THEN Rank(members, v) - 1 ELSE NoValue
           /\ v < card => LET m == roaring64_bitmap_select(r, v)
                          IN  m \in members /\ Rank(members, m) = v + 1
      /\ roaring64_bitmap_select(r, card) = NoValue
      /\ \A v \in Ends : /\ roaring64_bitmap_add_checked(r, v).result = (v \notin members)
                       /\ roaring64_bitmap_remove_checked(r, v).result = (v \in members)

RangeFound(min, max) ==
  roaring64_bitmap_contains_range(r, min, max + 1) = (min .. max \subseteq members)

\* The members of a range are counted, and the range is found present, as the set
\* says, over gaps between containers and at the ends of chunks: for the latter
\* unless the chunk of max is missing and a later one is there.
RangesAgree ==
  \A min, max \in Ends :
    LET key == split_key(max).high
    IN  /\ roaring64_bitmap_range_cardinality(r, min, max + 1) =
             Cardinality(members \cap min .. max)
        /\ key \in DOMAIN r.art \/ art_upper_bound(r, key) = End => RangeFound(min, max)

\* The comparisons with another bitmap agree with the two sets, whichever trees
\* and container types they are kept in; a copy is equal.
PairsAgree ==
  /\ roaring64_bitmap_equals(r, roaring64_bitmap_run_optimize(r))
  /\ \A o \in Others :
       LET set == Contents(o)
           both == Cardinality(members \cap set)
       IN  /\ roaring64_bitmap_equals(r, o) = (members = set)
           /\ roaring64_bitmap_is_subset(r, o) = (members \subseteq set)
           /\ roaring64_bitmap_is_strict_subset(o, r) = (set \subseteq members /\ set # members)
           /\ roaring64_bitmap_intersect(r, o) = (both > 0)
           /\ roaring64_bitmap_and_cardinality(o, r) = both
           /\ roaring64_bitmap_jaccard_index(r, o) = <<both, Cardinality(members \cup set)>>
           /\ roaring64_bitmap_xor_cardinality(r, o) = Cardinality(SymDiff(members, set))
           /\ roaring64_bitmap_andnot_cardinality(r, o) = Cardinality(members \ set)

\* Shrinking leaves no hole and loses nothing, wherever the holes were
\* (move_to_shrink): this is what the frozen format needs.
ShrinkPacks ==
  LET s == roaring64_bitmap_shrink_to_fit(r)
  IN  /\ capacity(s) = Cardinality(DOMAIN r.art) /\ is_shrunken(s)
      /\ Contents(s) = members
=============================================================================
