----------------------------- MODULE Roaring64 -----------------------------
(***************************************************************************)
(* The 64-bit bitmap (roaring64.c): an ordered map from the high 48 bits   *)
(* of a value to a leaf, which holds the type of a container and its index *)
(* in an array of containers.  The array has holes, a parallel array of    *)
(* types, and the index of its first hole.  The adaptive radix tree is the *)
(* ordered map it implements (ArtMap); its iterators are the key they      *)
(* stand on, or End.                                                       *)
(***************************************************************************)
EXTENDS ContainerQueries

CONSTANTS KeyCount,       \* 2^48: how many keys there are
          DoublingLimit   \* 1024: larger arrays grow by a quarter

ASSUME Roaring64Assumption ==
  /\ KeyCount \in Nat \ {0}
  /\ DoublingLimit \in Nat /\ DoublingLimit >= 4

Keys == 0 .. KeyCount - 1
UniverseSize == KeyCount * ChunkSize      \* 2^64
UINT64_MAX == UniverseSize - 1

split_key(val) == [high |-> val \div ChunkSize, low |-> val % ChunkSize]
combine_key(high, low) == high * ChunkSize + low

End == KeyCount
KeyFrom(art, key) ==
  LET found == { k \in DOMAIN art : k >= key } IN IF found = {} THEN End ELSE Min(found)

First(r) == KeyFrom(r.art, 0)
art_iterator_next(r, it) == KeyFrom(r.art, it + 1)
art_iterator_lower_bound(r, key) == KeyFrom(r.art, key)
art_upper_bound(r, key) == KeyFrom(r.art, key + 1)
InKeyOrder(r) == Values2Seq(DOMAIN r.art)
-----------------------------------------------------------------------------
(* Leaves and the array of containers.                                     *)

Vacant == NULL
Unset == "unset"      \* a type code that was never written

create_leaf(index, typecode) == [index |-> index, type |-> typecode]

capacity(r) == Len(r.containers)
Slot(r, index) == r.containers[index + 1]
get_container(r, key) == Slot(r, r.art[key].index)

roaring64_bitmap_create ==
  [art |-> <<>>, containers |-> <<>>, typecodes |-> <<>>, first_free |-> 0]

set_container_at(r, index, container) ==
  [r EXCEPT !.containers[index + 1] = container,
            !.typecodes[index + 1] = container.type]

replace_container(r, key, container) ==
  LET index == r.art[key].index
  IN  [set_container_at(r, index, container) EXCEPT
         !.art[key] = create_leaf(index, container.type)]

grow_containers_to(r, new_capacity) ==
  LET more == new_capacity - capacity(r)
  IN  IF more <= 0 THEN r
      ELSE [r EXCEPT !.containers = @ \o [i \in 1 .. more |-> Vacant],
                     !.typecodes = @ \o [i \in 1 .. more |-> Unset]]

extend_containers(r) ==
  LET size == capacity(r)
  IN  IF r.first_free < size THEN r
      ELSE grow_containers_to(r, IF size = 0 THEN 2
                                 ELSE IF size < DoublingLimit THEN 2 * size
                                 ELSE (5 * size) \div 4)

reserve_containers(r, num_containers) == grow_containers_to(r, num_containers)

ensure_container_capacity(r, extra) ==
  LET needed == r.first_free + extra
      RECURSIVE grown(_)
      grown(size) == IF size >= needed THEN size
                     ELSE grown(IF size < DoublingLimit THEN 2 * size
                                ELSE size + size \div 4)
  IN  IF needed <= capacity(r) THEN r
      ELSE grow_containers_to(r, grown(IF capacity(r) = 0 THEN 2 ELSE capacity(r)))

next_free_container_idx(r) ==
  LET free == { i \in r.first_free + 1 .. capacity(r) - 1 : Slot(r, i) = Vacant }
  IN  IF free = {} THEN capacity(r) ELSE Min(free)

allocate_index(r) ==
  LET room == IF r.first_free = capacity(r) THEN extend_containers(r) ELSE r
  IN  [r |-> [room EXCEPT !.first_free = next_free_container_idx(room)],
       index |-> r.first_free]

\* add_container and the art_insert of the leaf it returns.
add_container(r, key, container) ==
  LET slot == allocate_index(r)
  IN  [set_container_at(slot.r, slot.index, container) EXCEPT
         !.art = (key :> create_leaf(slot.index, container.type)) @@ @]

\* Mutant: a hole below the first one is forgotten.
remove_container_KeepsFirstFree(r, leaf) ==
  [r EXCEPT !.containers[leaf.index + 1] = Vacant]

remove_container(r, leaf) ==
  [r EXCEPT !.containers[leaf.index + 1] = Vacant,
            !.first_free = IF leaf.index < @ THEN leaf.index ELSE @]

\* A leaf is erased from the tree and its container is freed.
RemoveLeaf(r, key) ==
  [remove_container(r, r.art[key]) EXCEPT !.art = Restrict(@, DOMAIN @ \ {key})]

PutOrErase(r, key, container) ==
  IF container_nonzero_cardinality(container) THEN replace_container(r, key, container)
  ELSE RemoveLeaf(r, key)

AddUnlessEmpty(r, key, container) ==
  IF container_nonzero_cardinality(container) THEN add_container(r, key, container) ELSE r

copy_leaf_container(r1, r2, key) == add_container(r2, key, get_container(r1, key))

CopyAll(r, keys, result) ==
  FoldLeft(LAMBDA ans, key : copy_leaf_container(r, ans, key), result, keys)

\* Mutant: the arrays are copied, but not where their first hole is.
roaring64_bitmap_copy_NoFirstFree(r) == [r EXCEPT !.first_free = 0]

roaring64_bitmap_copy(r) ==
  CopyAll(r, InKeyOrder(r),
          reserve_containers(roaring64_bitmap_create, Cardinality(DOMAIN r.art)))

roaring64_bitmap_overwrite(dest, src) ==
  CopyAll(src, InKeyOrder(src),
          [grow_containers_to(roaring64_bitmap_create, capacity(dest)) EXCEPT
             !.typecodes = dest.typecodes])

\* The keys of a 32-bit bitmap, a sequence of [key, container], with the high
\* bits put in front of them.
move_from_roaring32_offset(dst, src, key_base) ==
  FoldLeft(LAMBDA ans, entry : add_container(ans, key_base + entry.key, entry.container),
           ensure_container_capacity(dst, Len(src)), src)
-----------------------------------------------------------------------------
(* Single values, and contexts that remember the leaf of the last one.     *)

containerptr_roaring64_bitmap_add(r, key, low) ==
  IF key \in DOMAIN r.art
  THEN replace_container(r, key, container_add(get_container(r, key), low))
  ELSE add_container(r, key, container_add(ArrayOf({}), low))

roaring64_bitmap_add(r, val) ==
  LET at == split_key(val) IN containerptr_roaring64_bitmap_add(r, at.high, at.low)

LeafCardinality(r, key) ==
  IF key \in DOMAIN r.art THEN container_get_cardinality(get_container(r, key)) ELSE 0

\* Returns whether the value was new.
roaring64_bitmap_add_checked(r, val) ==
  LET key == split_key(val).high
      added == roaring64_bitmap_add(r, val)
  IN  [r |-> added, result |-> LeafCardinality(r, key) # LeafCardinality(added, key)]

containerptr_roaring64_bitmap_remove(r, key, low) ==
  IF key \notin DOMAIN r.art THEN r
  ELSE PutOrErase(r, key, container_remove(get_container(r, key), low))

roaring64_bitmap_remove(r, val) ==
  LET at == split_key(val) IN containerptr_roaring64_bitmap_remove(r, at.high, at.low)

roaring64_bitmap_remove_checked(r, val) ==
  LET key == split_key(val).high
      removed == roaring64_bitmap_remove(r, val)
  IN  [r |-> removed,
       result |-> /\ key \in DOMAIN r.art
                  /\ \/ key \notin DOMAIN removed.art
                     \/ LeafCardinality(r, key) # LeafCardinality(removed, key)]

\* leaf is the key whose leaf the context points to, high the high bits it keeps.
NoLeaf == -1
ZeroContext == [leaf |-> NoLeaf, high |-> 0]
PointingAt(key) == [leaf |-> key, high |-> key]
Applies(context, key) == context.leaf # NoLeaf /\ context.high = key

roaring64_bitmap_add_bulk(r, context, val) ==
  LET at == split_key(val)
  IN  IF Applies(context, at.high)
      THEN [r |-> replace_container(r, context.leaf,
                                    container_add(get_container(r, context.leaf), at.low)),
            context |-> context]
      ELSE [r |-> containerptr_roaring64_bitmap_add(r, at.high, at.low),
            context |-> PointingAt(at.high)]

roaring64_bitmap_add_many(r, vals) ==
  FoldLeft(LAMBDA s, val : roaring64_bitmap_add_bulk(s.r, s.context, val),
           [r |-> r, context |-> ZeroContext], vals).r

roaring64_bitmap_of_ptr(vals) == roaring64_bitmap_add_many(roaring64_bitmap_create, vals)

roaring64_bitmap_contains_bulk(r, context, val) ==
  LET at == split_key(val)
      moved == IF Applies(context, at.high) THEN context ELSE PointingAt(at.high)
  IN  IF moved.leaf \notin DOMAIN r.art THEN [context |-> context, result |-> FALSE]
      ELSE [context |-> moved,
            result |-> container_contains(get_container(r, moved.leaf), at.low)]

\* The leaf that is found is kept in the context even when the container that it
\* points to is removed.
roaring64_bitmap_remove_bulk(r, context, val) ==
  LET at == split_key(val)
      removed == IF Applies(context, at.high)
                 THEN PutOrErase(r, context.leaf,
                                 container_remove(get_container(r, context.leaf), at.low))
                 ELSE containerptr_roaring64_bitmap_remove(r, at.high, at.low)
      found == IF at.high \in DOMAIN r.art THEN at.high ELSE NoLeaf
  IN  [r |-> removed,
       context |-> IF Applies(context, at.high)
                   THEN IF at.high \in DOMAIN removed.art THEN context
                        ELSE [context EXCEPT !.leaf = NoLeaf]
                   ELSE [leaf |-> found, high |-> at.high]]

roaring64_bitmap_contains(r, val) ==
  LET at == split_key(val)
  IN  at.high \in DOMAIN r.art /\ container_contains(get_container(r, at.high), at.low)
-----------------------------------------------------------------------------
(* Ranges.                                                                 *)

add_range_closed_at(r, key, min, max) ==
  IF key \in DOMAIN r.art
  THEN replace_container(r, key, container_add_range(get_container(r, key), min, max))
  ELSE add_container(r, key, container_range_of_ones(min, max + 1))

roaring64_bitmap_add_range_closed(r, min, max) ==
  LET from == split_key(min)
      to == split_key(max)
      middle == FoldLeft(LAMBDA ans, key : add_range_closed_at(ans, key, 0, UINT16_MAX),
                         add_range_closed_at(r, from.high, from.low, UINT16_MAX),
                         Values2Seq(from.high + 1 .. to.high - 1))
  IN  IF min > max THEN r
      ELSE IF from.high = to.high THEN add_range_closed_at(r, from.high, from.low, to.low)
      ELSE add_range_closed_at(middle, to.high, 0, to.low)

roaring64_bitmap_add_range(r, min, max) ==
  IF min >= max THEN r ELSE roaring64_bitmap_add_range_closed(r, min, max - 1)

remove_range_closed_at(r, key, min, max) ==
  IF key \notin DOMAIN r.art THEN r
  ELSE LET container2 == container_remove_range(get_container(r, key), min, max)
       IN  IF container2 = NULL THEN RemoveLeaf(r, key)
           ELSE replace_container(r, key, container2)

\* The loop that erases what its iterator stands on, which moves it on.
EraseBetween(r, min_key, max_key) ==
  LET RECURSIVE erase(_, _)
      erase(ans, it) == IF it = End \/ it >= max_key THEN ans
                        ELSE erase(RemoveLeaf(ans, it), art_iterator_next(ans, it))
  IN  erase(r, art_upper_bound(r, min_key))

roaring64_bitmap_remove_range_closed(r, min, max) ==
  LET from == split_key(min)
      to == split_key(max)
      first == remove_range_closed_at(r, from.high, from.low, UINT16_MAX)
  IN  IF min > max THEN r
      ELSE IF from.high = to.high
           THEN remove_range_closed_at(r, from.high, from.low, to.low)
      ELSE remove_range_closed_at(EraseBetween(first, from.high, to.high), to.high, 0, to.low)

roaring64_bitmap_remove_range(r, min, max) ==
  IF min >= max THEN r ELSE roaring64_bitmap_remove_range_closed(r, min, max - 1)

roaring64_bitmap_clear(r) == roaring64_bitmap_remove_range_closed(r, 0, UINT64_MAX)

\* What of the range, with its end excluded, is in the chunk of a key.
FirstInChunk(min, key) == IF key = split_key(min).high THEN split_key(min).low ELSE 0
EndInChunk(max, key) == IF key = split_key(max).high THEN split_key(max).low + 1 ELSE ChunkSize

roaring64_bitmap_contains_range_closed(r, min, max) ==
  LET max_key == split_key(max).high
      covers(key, from, to) ==
        IF from = 0 /\ to = ChunkSize THEN container_is_full(get_container(r, key))
        ELSE container_contains_range(get_container(r, key), from, to)
      RECURSIVE walk(_, _)
      walk(it, prev) ==
        IF it = End THEN prev = max_key
        ELSE \/ it > max_key
             \/ /\ it - prev <= 1
                /\ covers(it, FirstInChunk(min, it), EndInChunk(max, it))
                /\ walk(art_iterator_next(r, it), it)
      first == art_iterator_lower_bound(r, split_key(min).high)
  IN  \/ min > max
      \/ /\ first # End /\ combine_key(first, 0) <= min
         /\ walk(first, split_key(min).high)

roaring64_bitmap_contains_range(r, min, max) ==
  min >= max \/ roaring64_bitmap_contains_range_closed(r, min, max - 1)

roaring64_flip_leaf(r1, r2, key, min, max) ==
  AddUnlessEmpty(r2, key,
    IF key \notin DOMAIN r1.art THEN container_range_of_ones(min, max)
    ELSE IF min = 0 /\ max > UINT16_MAX THEN container_not(get_container(r1, key))
    ELSE container_not_range(get_container(r1, key), min, max))

\* Room for one more run: what the flip in place returns does not depend on it.
RunCapacity(c) == IF IsRun(c) THEN n_runs(c) + 1 ELSE 0

roaring64_flip_leaf_inplace(r, key, min, max) ==
  IF key \notin DOMAIN r.art
  THEN add_container(r, key, container_range_of_ones(min, max))
  ELSE LET c == get_container(r, key)
       IN  PutOrErase(r, key,
             IF min = 0 /\ max > UINT16_MAX THEN container_inot(c, RunCapacity(c))
             ELSE container_inot_range(c, RunCapacity(c), min, max))

KeysOfRange(min, max) == Values2Seq(split_key(min).high .. split_key(max).high)

roaring64_bitmap_flip_closed(r1, min, max) ==
  LET before == SelectSeq(InKeyOrder(r1), LAMBDA key : key < split_key(min).high)
      after == SelectSeq(InKeyOrder(r1), LAMBDA key : key > split_key(max).high)
      flipped == FoldLeft(LAMBDA ans, key :
                            roaring64_flip_leaf(r1, ans, key, FirstInChunk(min, key),
                                                EndInChunk(max, key)),
                          CopyAll(r1, before, roaring64_bitmap_create),
                          KeysOfRange(min, max))
  IN  IF min > max THEN roaring64_bitmap_copy(r1) ELSE CopyAll(r1, after, flipped)

roaring64_bitmap_flip(r, min, max) ==
  IF min >= max THEN roaring64_bitmap_copy(r) ELSE roaring64_bitmap_flip_closed(r, min, max - 1)

roaring64_bitmap_flip_closed_inplace(r, min, max) ==
  IF min > max THEN r
  ELSE FoldLeft(LAMBDA ans, key :
                  roaring64_flip_leaf_inplace(ans, key, FirstInChunk(min, key),
                                              EndInChunk(max, key)),
                r, KeysOfRange(min, max))

roaring64_bitmap_flip_inplace(r, min, max) ==
  IF min >= max THEN r ELSE roaring64_bitmap_flip_closed_inplace(r, min, max - 1)

\* NULL is the bitmap of an empty range.
roaring64_bitmap_from_range(min, max, step) ==
  LET RECURSIVE chunks(_, _), singles(_, _)
      singles(r, value) ==
        LET added == roaring64_bitmap_add(r, value)
        IN  IF value >= max THEN r
            ELSE IF value > UINT64_MAX - step THEN added ELSE singles(added, value + step)
      chunks(r, from) ==
        LET at == split_key(from)
            container_max == Min({max - combine_key(at.high, 0), ChunkSize})
            added == add_container(r, at.high, container_from_range(at.low, container_max, step))
            distance == container_max - at.low + step - 1
            increment == distance - (distance % step)
        IN  IF from > UINT64_MAX - increment \/ from + increment >= max THEN added
            ELSE chunks(added, from + increment)
  IN  IF step >= ChunkSize THEN singles(roaring64_bitmap_create, min)
      ELSE chunks(roaring64_bitmap_create, min)
-----------------------------------------------------------------------------
(* Shifting by an offset: each container is split in two, and its low half *)
(* is merged with the high half of the container before it.                *)

\* The offset in chunks, rounded down, and what is left within a chunk.
SplitOffset(positive, offset) ==
  LET chunks == offset \div ChunkSize
      low == offset % ChunkSize
  IN  IF positive THEN [chunks |-> chunks, inside |-> low]
      ELSE IF low = 0 THEN [chunks |-> -chunks, inside |-> 0]
      ELSE [chunks |-> -chunks - 1, inside |-> U16(-low)]

MergeLow(answer, prev_hi, k, lo) ==
  IF prev_hi = k
  THEN replace_container(answer, k, container_ior(get_container(answer, k), lo))
  ELSE add_container(answer, k, lo)

RepairAll(r) ==
  FoldLeft(LAMBDA ans, key :
             replace_container(ans, key, container_repair_after_lazy(get_container(ans, key))),
           r, InKeyOrder(r))

roaring64_bitmap_add_offset_signed(r, positive, offset) ==
  LET shift == SplitOffset(positive, offset)
      moved == SelectSeq(InKeyOrder(r), LAMBDA key : key + shift.chunks \in Keys)
      Shift(s, key) ==
        LET k == key + shift.chunks
            halves == container_add_offset(get_container(r, key), shift.inside)
            low == IF k \in Keys /\ halves.lo # NULL
                   THEN MergeLow(s.r, s.prev_hi, k, halves.lo) ELSE s.r
        IN  IF k + 1 \in Keys /\ halves.hi # NULL
            THEN [r |-> add_container(low, k + 1, halves.hi), prev_hi |-> k + 1]
            ELSE [r |-> low, prev_hi |-> NoLeaf]
  IN  IF offset = 0 THEN roaring64_bitmap_copy(r)
      ELSE IF shift.inside = 0
           THEN FoldLeft(LAMBDA ans, key :
                           add_container(ans, key + shift.chunks, get_container(r, key)),
                         roaring64_bitmap_create, moved)
      ELSE RepairAll(FoldLeft(Shift, [r |-> roaring64_bitmap_create, prev_hi |-> NoLeaf],
                              InKeyOrder(r)).r)
-----------------------------------------------------------------------------
(* Counting and selecting.                                                 *)

\* Mutant: first_free is taken for the number of slots in use.
roaring64_bitmap_get_cardinality_ToFirstFree(r) ==
  MapThenSumSet(LAMBDA i : container_get_cardinality(Slot(r, i)), 0 .. r.first_free - 1)

\* The scan of the array, not of the tree, with the types of the array.
roaring64_bitmap_get_cardinality(r) ==
  LET counted(c, typecode) == container_get_cardinality([c EXCEPT !.type = typecode])
  IN  FoldLeft(LAMBDA n, i :
                 n + (IF r.containers[i] = Vacant THEN 0
                      ELSE counted(r.containers[i], r.typecodes[i])),
               0, [i \in 1 .. capacity(r) |-> i])

roaring64_bitmap_is_empty(r) == DOMAIN r.art = {}

CardinalityBelow(r, key) ==
  MapThenSumSet(LAMBDA k : LeafCardinality(r, k), { k \in DOMAIN r.art : k < key })

\* The loop stops at the first container that reaches the rank.
roaring64_bitmap_select(r, rank) ==
  LET reaching == { k \in DOMAIN r.art : CardinalityBelow(r, k + 1) > rank }
      key == Min(reaching)
      found == container_select(get_container(r, key), 0, rank - CardinalityBelow(r, key))
  IN  IF reaching = {} \/ ~found.found THEN NoValue ELSE combine_key(key, found.element)

roaring64_bitmap_rank(r, val) ==
  LET at == split_key(val)
  IN  CardinalityBelow(r, at.high) +
        IF at.high \in DOMAIN r.art THEN container_rank(get_container(r, at.high), at.low)
        ELSE 0

roaring64_bitmap_get_index(r, val) ==
  LET at == split_key(val)
      index16 == container_get_index(get_container(r, at.high), at.low)
  IN  IF at.high \notin DOMAIN r.art \/ index16 < 0 THEN NoValue
      ELSE CardinalityBelow(r, at.high) + index16

roaring64_bitmap_range_closed_cardinality(r, min, max) ==
  LET from == split_key(min)
      to == split_key(max)
      counted(key) ==
        LET c == get_container(r, key)
        IN  (IF key = to.high THEN container_rank(c, to.low) ELSE container_get_cardinality(c)) -
              (IF key = from.high /\ from.low > 0 THEN container_rank(c, from.low - 1) ELSE 0)
  IN  IF min > max THEN 0
      ELSE MapThenSumSet(counted, { k \in DOMAIN r.art : from.high <= k /\ k <= to.high })

roaring64_bitmap_range_cardinality(r, min, max) ==
  IF min >= max THEN 0 ELSE roaring64_bitmap_range_closed_cardinality(r, min, max - 1)

roaring64_bitmap_minimum(r) ==
  IF First(r) = End THEN UINT64_MAX
  ELSE combine_key(First(r), container_minimum(get_container(r, First(r))))

roaring64_bitmap_maximum(r) ==
  LET key == Max(DOMAIN r.art)
  IN  IF DOMAIN r.art = {} THEN 0
      ELSE combine_key(key, container_maximum(get_container(r, key)))

\* How many containers of a type there are, and how many values in them.
roaring64_bitmap_statistics(r) ==
  LET of(type) == { k \in DOMAIN r.art : r.art[k].type = type }
      values(type) == MapThenSumSet(LAMBDA k : LeafCardinality(r, k), of(type))
  IN  [type \in {"bitset", "array", "run"} |->
         [containers |-> Cardinality(of(type)), values |-> values(type)]]
-----------------------------------------------------------------------------
(* Representation.                                                         *)

roaring64_bitmap_remove_run_compression(r) ==
  FoldLeft(LAMBDA ans, key :
             IF r.art[key].type = "run"
             THEN replace_container(ans, key, convert_to_bitset_or_array_container(
                                                get_container(ans, key).runs))
             ELSE ans,
           r, InKeyOrder(r))

roaring64_bitmap_run_optimize(r) ==
  FoldLeft(LAMBDA ans, key :
             replace_container(ans, key, convert_run_optimize(get_container(ans, key))),
           r, InKeyOrder(r))

move_to_shrink(r, key) ==
  LET leaf == r.art[key]
      moved == [set_container_at(r, r.first_free, get_container(r, key)) EXCEPT
                  !.containers[leaf.index + 1] = Vacant]
  IN  IF leaf.index < r.first_free THEN r
      ELSE [moved EXCEPT !.art[key] = create_leaf(r.first_free, leaf.type),
                         !.first_free = next_free_container_idx(moved)]

\* The tree packs its nodes as well (ArtMap).
is_shrunken(r) == r.first_free = capacity(r)

roaring64_bitmap_shrink_to_fit(r) ==
  LET moved == FoldLeft(move_to_shrink, r, InKeyOrder(r))
  IN  IF is_shrunken(moved) \/ moved.first_free >= capacity(moved) THEN moved
      ELSE [moved EXCEPT !.containers = SubSeq(@, 1, moved.first_free),
                         !.typecodes = SubSeq(@, 1, moved.first_free)]

roaring64_leaf_internal_validate(r, leaf) ==
  /\ leaf.index < capacity(r)
  /\ Slot(r, leaf.index) # Vacant
  /\ r.typecodes[leaf.index + 1] = leaf.type
  /\ container_internal_validate([Slot(r, leaf.index) EXCEPT !.type = leaf.type])

roaring64_bitmap_internal_validate(r) ==
  \A key \in DOMAIN r.art : roaring64_leaf_internal_validate(r, r.art[key])
-----------------------------------------------------------------------------
(* Two bitmaps.  Each loop has an iterator in either tree.                 *)

\* The keys at which the two iterators meet, each one seeking the other's key.
SharedKeys(r1, r2) ==
  LET RECURSIVE meet(_, _)
      meet(it1, it2) ==
        CASE it1 = End \/ it2 = End -> <<>>
          [] it1 # End /\ it1 = it2 ->
               <<it1>> \o meet(art_iterator_next(r1, it1), art_iterator_next(r2, it2))
          [] it1 < it2 /\ it2 # End -> meet(art_iterator_lower_bound(r1, it2), it2)
          [] it1 > it2 /\ it1 # End -> meet(it1, art_iterator_lower_bound(r2, it1))
  IN  meet(First(r1), First(r2))

roaring64_bitmap_and(r1, r2) ==
  FoldLeft(LAMBDA ans, key :
             AddUnlessEmpty(ans, key, container_and(get_container(r1, key), get_container(r2, key))),
           roaring64_bitmap_create, SharedKeys(r1, r2))

roaring64_bitmap_and_cardinality(r1, r2) ==
  FoldLeft(LAMBDA n, key :
             n + container_and_cardinality(get_container(r1, key), get_container(r2, key)),
           0, SharedKeys(r1, r2))

roaring64_bitmap_intersect(r1, r2) ==
  \E key \in ToSet(SharedKeys(r1, r2)) :
    container_intersect(get_container(r1, key), get_container(r2, key))

roaring64_bitmap_equals(r1, r2) ==
  LET RECURSIVE same(_, _)
      same(it1, it2) ==
        IF it1 = End \/ it2 = End THEN it1 = End /\ it2 = End
        ELSE /\ it1 = it2
             /\ container_equals(get_container(r1, it1), get_container(r2, it2))
             /\ same(art_iterator_next(r1, it1), art_iterator_next(r2, it2))
  IN  same(First(r1), First(r2))

roaring64_bitmap_is_subset(r1, r2) ==
  LET RECURSIVE inside(_, _)
      inside(it1, it2) ==
        \/ it1 = End
        \/ /\ it2 # End /\ it1 >= it2
           /\ IF it1 = it2
              THEN /\ container_is_subset(get_container(r1, it1), get_container(r2, it2))
                   /\ inside(art_iterator_next(r1, it1), art_iterator_next(r2, it2))
              ELSE inside(it1, art_iterator_lower_bound(r2, it1))
  IN  inside(First(r1), First(r2))

roaring64_bitmap_is_strict_subset(r1, r2) ==
  /\ roaring64_bitmap_get_cardinality(r1) < roaring64_bitmap_get_cardinality(r2)
  /\ roaring64_bitmap_is_subset(r1, r2)

roaring64_bitmap_or_cardinality(r1, r2) ==
  roaring64_bitmap_get_cardinality(r1) + roaring64_bitmap_get_cardinality(r2)
    - roaring64_bitmap_and_cardinality(r1, r2)

roaring64_bitmap_xor_cardinality(r1, r2) ==
  roaring64_bitmap_get_cardinality(r1) + roaring64_bitmap_get_cardinality(r2)
    - 2 * roaring64_bitmap_and_cardinality(r1, r2)

roaring64_bitmap_andnot_cardinality(r1, r2) ==
  roaring64_bitmap_get_cardinality(r1) - roaring64_bitmap_and_cardinality(r1, r2)

\* The numerator and the denominator.
roaring64_bitmap_jaccard_index(r1, r2) ==
  <<roaring64_bitmap_and_cardinality(r1, r2), roaring64_bitmap_or_cardinality(r1, r2)>>

\* Which of two iterators is behind: the other one may be at the end.
OnlyFirst(it1, it2) == it1 # End /\ (it2 = End \/ it1 < it2)
OnlySecond(it1, it2) == it2 # End /\ (it1 = End \/ it2 < it1)

roaring64_bitmap_or(r1, r2) ==
  LET RECURSIVE merge(_, _, _)
      merge(ans, it1, it2) ==
        CASE it1 = End /\ it2 = End -> ans
          [] OnlyFirst(it1, it2) ->
               merge(copy_leaf_container(r1, ans, it1), art_iterator_next(r1, it1), it2)
          [] OnlySecond(it1, it2) ->
               merge(copy_leaf_container(r2, ans, it2), it1, art_iterator_next(r2, it2))
          [] it1 # End /\ it1 = it2 ->
               merge(add_container(ans, it1, container_or(get_container(r1, it1),
                                                          get_container(r2, it2))),
                     art_iterator_next(r1, it1), art_iterator_next(r2, it2))
      leaves == Cardinality(DOMAIN r1.art) + Cardinality(DOMAIN r2.art)
  IN  merge(reserve_containers(roaring64_bitmap_create, leaves), First(r1), First(r2))

roaring64_bitmap_xor(r1, r2) ==
  LET RECURSIVE merge(_, _, _)
      merge(ans, it1, it2) ==
        CASE it1 = End /\ it2 = End -> ans
          [] OnlyFirst(it1, it2) ->
               merge(copy_leaf_container(r1, ans, it1), art_iterator_next(r1, it1), it2)
          [] OnlySecond(it1, it2) ->
               merge(copy_leaf_container(r2, ans, it2), it1, art_iterator_next(r2, it2))
          [] it1 # End /\ it1 = it2 ->
               merge(AddUnlessEmpty(ans, it1, container_xor(get_container(r1, it1),
                                                            get_container(r2, it2))),
                     art_iterator_next(r1, it1), art_iterator_next(r2, it2))
  IN  merge(roaring64_bitmap_create, First(r1), First(r2))

roaring64_bitmap_andnot(r1, r2) ==
  LET RECURSIVE merge(_, _, _)
      merge(ans, it1, it2) ==
        CASE it1 = End -> ans
          [] OnlyFirst(it1, it2) ->
               merge(copy_leaf_container(r1, ans, it1), art_iterator_next(r1, it1), it2)
          [] it1 # End /\ OnlySecond(it1, it2) -> merge(ans, it1, art_iterator_next(r2, it2))
          [] it1 # End /\ it1 = it2 ->
               merge(AddUnlessEmpty(ans, it1, container_andnot(get_container(r1, it1),
                                                               get_container(r2, it2))),
                     art_iterator_next(r1, it1), art_iterator_next(r2, it2))
  IN  merge(roaring64_bitmap_create, First(r1), First(r2))
-----------------------------------------------------------------------------
(* In place: the first iterator walks over the tree that is changed.       *)
(* Erasing moves it on; inserting leaves it on the new key.                *)

roaring64_bitmap_and_inplace(r1, r2) ==
  LET RECURSIVE walk(_, _, _)
      walk(ans, it1, it2) ==
        CASE it1 = End -> ans
          [] OnlyFirst(it1, it2) ->
               walk(RemoveLeaf(ans, it1), art_iterator_next(ans, it1), it2)
          [] it1 # End /\ OnlySecond(it1, it2) ->
               walk(ans, it1, art_iterator_lower_bound(r2, it1))
          [] it1 # End /\ it1 = it2 ->
               walk(PutOrErase(ans, it1, container_iand(get_container(ans, it1),
                                                        get_container(r2, it2))),
                    art_iterator_next(ans, it1), art_iterator_next(r2, it2))
  IN  walk(r1, First(r1), First(r2))

roaring64_bitmap_or_inplace(r1, r2) ==
  LET RECURSIVE walk(_, _, _)
      walk(ans, it1, it2) ==
        CASE it1 = End /\ it2 = End -> ans
          [] OnlyFirst(it1, it2) -> walk(ans, art_iterator_next(ans, it1), it2)
          [] OnlySecond(it1, it2) ->
               walk(copy_leaf_container(r2, ans, it2), it2, art_iterator_next(r2, it2))
          [] it1 # End /\ it1 = it2 ->
               walk(replace_container(ans, it1, container_ior(get_container(ans, it1),
                                                              get_container(r2, it2))),
                    art_iterator_next(ans, it1), art_iterator_next(r2, it2))
  IN  walk(r1, First(r1), First(r2))

\* Mutant: the iterator is moved on once more after it has erased a leaf.
roaring64_bitmap_xor_inplace_Skips(r1, r2) ==
  LET RECURSIVE walk(_, _, _)
      walk(ans, it1, it2) ==
        CASE it1 = End /\ it2 = End -> ans
          [] OnlyFirst(it1, it2) -> walk(ans, art_iterator_next(ans, it1), it2)
          [] OnlySecond(it1, it2) ->
               LET copied == copy_leaf_container(r2, ans, it2)
               IN  walk(copied, IF it1 = End THEN End ELSE art_iterator_next(copied, it2),
                        art_iterator_next(r2, it2))
          [] it1 # End /\ it1 = it2 ->
               LET put == PutOrErase(ans, it1, container_ixor(get_container(ans, it1),
                                                              get_container(r2, it2)))
                   next == art_iterator_next(put, it1)
               IN  walk(put, IF it1 \in DOMAIN put.art \/ next = End THEN next
                             ELSE art_iterator_next(put, next),
                        art_iterator_next(r2, it2))
  IN  walk(r1, First(r1), First(r2))

roaring64_bitmap_xor_inplace(r1, r2) ==
  LET RECURSIVE walk(_, _, _)
      walk(ans, it1, it2) ==
        CASE it1 = End /\ it2 = End -> ans
          [] OnlyFirst(it1, it2) -> walk(ans, art_iterator_next(ans, it1), it2)
          [] OnlySecond(it1, it2) ->
               LET copied == copy_leaf_container(r2, ans, it2)
               IN  walk(copied, IF it1 = End THEN End ELSE art_iterator_next(copied, it2),
                        art_iterator_next(r2, it2))
          [] it1 # End /\ it1 = it2 ->
               walk(PutOrErase(ans, it1, container_ixor(get_container(ans, it1),
                                                        get_container(r2, it2))),
                    art_iterator_next(ans, it1), art_iterator_next(r2, it2))
  IN  walk(r1, First(r1), First(r2))

roaring64_bitmap_andnot_inplace(r1, r2) ==
  LET RECURSIVE walk(_, _, _)
      walk(ans, it1, it2) ==
        CASE it1 = End -> ans
          [] OnlyFirst(it1, it2) -> walk(ans, art_iterator_next(ans, it1), it2)
          [] it1 # End /\ OnlySecond(it1, it2) -> walk(ans, it1, art_iterator_next(r2, it2))
          [] it1 # End /\ it1 = it2 ->
               walk(PutOrErase(ans, it1, container_iandnot(get_container(ans, it1),
                                                           get_container(r2, it2))),
                    art_iterator_next(ans, it1), art_iterator_next(r2, it2))
  IN  walk(r1, First(r1), First(r2))
=============================================================================
