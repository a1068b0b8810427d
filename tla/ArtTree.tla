------------------------------ MODULE ArtTree ------------------------------
(***************************************************************************)
(* The tree of src/art/art.c: insertion, removal and search along paths    *)
(* whose common bytes are compressed into node prefixes; the moves that    *)
(* pack the nodes into the first slots (art_shrink_to_fit); iterators; the *)
(* code's own consistency check; the serialized form and the view over it. *)
(***************************************************************************)
EXTENDS ArtNodes

----------------------------------------------------------------------------
(* Keys.                                                                   *)

\* The length of the common prefix of two sequences of bytes.
art_common_prefix(s, t) ==
    Max({n \in 0 .. Min({Len(s), Len(t)}) : SubSeq(s, 1, n) = SubSeq(t, 1, n)})

From(key, depth) == SubSeq(key, depth + 1, Len(key))

\* memcmp of the first n bytes: negative, zero or positive.
art_compare_prefix(s, t, n) ==
    LET D == {i \in 1 .. n : s[i] # t[i]}
    IN  IF D = {} THEN 0 ELSE IF s[Min(D)] < t[Min(D)] THEN -1 ELSE 1

art_compare_keys(k1, k2) == art_compare_prefix(k1, k2, KeyBytes)

----------------------------------------------------------------------------
(* Insertion, removal, search.                                             *)

\* A new Node4 takes over the common part of the prefix; the node becomes its
\* child and keeps what follows the byte the new node branches on.
SplitPrefix(art, ref, common) ==
    LET n     == art_deref(art, ref)
        new   == art_node4_create(art, SubSeq(n.prefix, 1, common))
        under == art_node4_insert(new.art, new.ref, ref, n.prefix[common + 1]).art
    IN  Result(SetNode(under, ref, [n EXCEPT !.prefix = From(@, common + 1)]), new.ref)

\* A new Node4 with two children takes the place of the first one.
Join(new, chunk1, ref1, chunk2, ref2) ==
    art_node4_insert(art_node4_insert(new.art, new.ref, ref1, chunk1).art,
                     new.ref, ref2, chunk2)

\* After a change below a node: the child there is the one it has now.
Reattached(below, ref, chunk, child) ==
    Result(IF below.ref = child THEN below.art
           ELSE art_replace(below.art, ref, chunk, below.ref), ref)

WithRoot(result) == [result.art EXCEPT !.root = result.ref]

RECURSIVE art_insert_at(_, _, _, _, _)
art_insert_at(art, ref, key, depth, new_leaf) ==
    IF art_is_leaf(ref)
    THEN LET other  == art_deref(art, ref).key
             common == art_common_prefix(From(other, depth), From(key, depth))
         IN  Join(art_node4_create(art, SubSeq(key, depth + 1, depth + common)),
                  other[depth + common + 1], ref, key[depth + common + 1], new_leaf)
    ELSE LET prefix == Prefix(art, ref)
             common == art_common_prefix(prefix, From(key, depth))
             chunk  == key[depth + common + 1]
             child  == art_find_child(art, ref, chunk)
             at     == IF common = Len(prefix) THEN Result(art, ref)
                       ELSE SplitPrefix(art, ref, common)
         IN  IF common = Len(prefix) /\ child # NullRef
             THEN Reattached(art_insert_at(art, child, key, depth + common + 1, new_leaf),
                             ref, chunk, child)
             ELSE art_node_insert_leaf(at.art, at.ref, chunk, new_leaf)

art_insert(art, key, val) ==
    LET leaf == art_leaf_create(art, key, val)
    IN  WithRoot(IF art.root = NullRef THEN leaf
                 ELSE art_insert_at(leaf.art, art.root, key, 0, leaf.ref))

\* The result of art_erase_at: NullRef for rootmost_node when nothing is left.
NotErased(art) == [art |-> art, ref |-> NullRef, erased |-> FALSE]
Erased(result) == [art |-> result.art, ref |-> result.ref, erased |-> TRUE]

\* After art_erase_at below a node: a node that lost its last leaf is taken out.
ErasedBelow(below, art, ref, chunk, child) ==
    IF ~below.erased THEN NotErased(art)
    ELSE Erased(IF below.ref = NullRef THEN art_node_erase(below.art, ref, chunk)
                ELSE Reattached(below, ref, chunk, child))

RECURSIVE art_erase_at(_, _, _, _)
art_erase_at(art, ref, key, depth) ==
    IF art_is_leaf(ref)
    THEN IF art_common_prefix(art_deref(art, ref).key, key) # KeyBytes THEN NotErased(art)
         ELSE Erased(Result(art_node_free(art, ref), NullRef))
    ELSE LET prefix == Prefix(art, ref)
             common == art_common_prefix(prefix, From(key, depth))
             chunk  == key[depth + common + 1]
             child  == art_find_child(art, ref, chunk)
         IN  IF common # Len(prefix) \/ child = NullRef THEN NotErased(art)
             ELSE ErasedBelow(art_erase_at(art, child, key, depth + common + 1),
                              art, ref, chunk, child)

IfErased(result, art) == IF result.erased THEN WithRoot(result) ELSE art

art_erase(art, key) == IF art.root = NullRef THEN art
                       ELSE IfErased(art_erase_at(art, art.root, key, 0), art)

\* The leaf's reference, or NullRef.  A leaf reached through all bytes of the
\* key is not compared again.
RECURSIVE art_find_at(_, _, _, _)
art_find_at(art, ref, key, depth) ==
    IF art_is_leaf(ref)
    THEN IF \/ depth >= KeyBytes
            \/ art_common_prefix(art_deref(art, ref).key, key) = KeyBytes
         THEN ref ELSE NullRef
    ELSE LET prefix == Prefix(art, ref)
             child  == art_find_child(art, ref, key[depth + Len(prefix) + 1])
         IN  IF art_common_prefix(prefix, From(key, depth)) # Len(prefix) THEN NullRef
             ELSE IF child = NullRef THEN NullRef
             ELSE art_find_at(art, child, key, depth + Len(prefix) + 1)

art_find(art, key) == IF art.root = NullRef THEN NullRef
                      ELSE art_find_at(art, art.root, key, 0)

art_is_empty(art) == art.root = NullRef

----------------------------------------------------------------------------
(* Free lists, shrinking.                                                  *)

\* The slots of the free list of a type, in list order.  The walk of the code
\* ends at the capacity; here it also ends at a slot met before or in use.
RECURSIVE FreeFrom(_, _, _, _)
FreeFrom(art, t, i, seen) ==
    IF i \in DOMAIN art.nodes[t] /\ ~Contains(seen, i) /\ IsFree(art.nodes[t][i])
    THEN FreeFrom(art, t, art.nodes[t][i].next_free, Append(seen, i))
    ELSE seen
FreeList(art, t) == FreeFrom(art, t, art.first_free[t], << >>)

art_num_leaves(art) == art.capacities["leaf"] - Len(FreeList(art, "leaf"))

art_reserve(art, num_leaves) == art_grow_to(art, "leaf", num_leaves)

\* The free slots of a type, linked in ascending order.
SortFreeList(art, t) ==
    LET free == ToSet(FreeList(art, t))
        NextOf(i) == Min({j \in free : j > i} \cup {art.capacities[t]})
    IN  [art EXCEPT !.first_free[t] = NextOf(-1),
                    !.nodes[t] = [i \in DOMAIN @ |-> IF i \in free THEN FreeSlot(NextOf(i)) ELSE @[i]]]
art_sort_free_lists(art) == FoldLeft(SortFreeList, art, Types)

\* Mutant: the slot the node left is not considered as the new first_free.
art_move_node_to_shrink_LoseFirst(art, ref) ==
    LET t == ref.type
        to == art_to_ref(art.first_free[t], t)
        next == art_node_get_next_free(art, to)
        moved == SetNode(art, to, art_deref(art, ref))
        free == ToSet(FreeList(art, t)) \ {to.index}
        below == {i \in free : i < ref.index}
        linked == art_node_set_next_free(moved, ref,
                      Min({i \in free : i > ref.index} \cup {art.capacities[t]}))
        whole == IF below = {} THEN linked
                 ELSE art_node_set_next_free(linked, art_to_ref(Max(below), t), ref.index)
    IN  IF ref.index < art.first_free[t] THEN Result(art, ref)
        ELSE Result([whole EXCEPT !.first_free[t] = next], to)

\* Moves a node to the first free slot, if that is an earlier one, and puts
\* the slot it left in its place in the ascending free list.
art_move_node_to_shrink(art, ref) ==
    LET t == ref.type
        to == art_to_ref(art.first_free[t], t)
        next == art_node_get_next_free(art, to)
        moved == SetNode(art, to, art_deref(art, ref))
        free == ToSet(FreeList(art, t)) \ {to.index}
        below == {i \in free : i < ref.index}
        linked == art_node_set_next_free(moved, ref,
                      Min({i \in free : i > ref.index} \cup {art.capacities[t]}))
        whole == IF below = {} THEN linked
                 ELSE art_node_set_next_free(linked, art_to_ref(Max(below), t), ref.index)
    IN  IF ref.index < art.first_free[t] THEN Result(art, ref)
        ELSE Result([whole EXCEPT !.first_free[t] = Min({ref.index, next})], to)

\* The key bytes of the children of an inner node, ascending.
ChildChunks(art, ref) ==
    Ascending({c \in Chunk : art_find_child(art, ref, c) # NullRef})

RECURSIVE art_shrink_at(_, _)
art_shrink_at(art, ref) ==
    IF art_is_leaf(ref) THEN art
    ELSE LET MoveChild(a, c) ==
                 LET moved == art_move_node_to_shrink(a, art_find_child(a, ref, c))
                 IN  art_shrink_at(art_replace(moved.art, ref, c, moved.ref), moved.ref)
         IN  FoldLeft(MoveChild, art, ChildChunks(art, ref))

\* Bytes of all the slots of a tree.
SlotBytes(art) == FoldLeft(LAMBDA n, t : n + art.capacities[t] * ART_NODE_SIZES[t], 0, Types)

art_shrink_node_arrays(art) ==
    LET shrunk == [art EXCEPT
            !.capacities = [t \in DOMAIN @ |-> Min({@[t], art.first_free[t]})],
            !.nodes = [t \in DOMAIN @ |->
                [i \in Seq0(Min({art.capacities[t], art.first_free[t]})) |-> @[t][i]]]]
    IN  [art |-> shrunk, freed |-> SlotBytes(art) - SlotBytes(shrunk)]

art_is_shrunken(art) == \A t \in ToSet(Types) : art.first_free[t] = art.capacities[t]

art_shrink_to_fit(art) ==
    LET sorted == art_sort_free_lists(art)
        root   == art_move_node_to_shrink(sorted, art.root)
        packed == art_shrink_at([root.art EXCEPT !.root = root.ref], root.ref)
    IN  IF art_is_shrunken(art) THEN [art |-> art, freed |-> 0]
        ELSE art_shrink_node_arrays(IF art.root = NullRef THEN art ELSE packed)

----------------------------------------------------------------------------
(* Iterators: the path from the root as frames of a node and the position  *)
(* of the child taken, and the number of key bytes the path has consumed.  *)
(* value is the leaf's reference; NullRef when past an end.  Every move    *)
(* returns the iterator alone: the C result is value # NullRef.            *)

NoFrame == [ref |-> NullRef, index |-> 0]
ZeroKey == [i \in 1 .. KeyBytes |-> 0]
ZeroIterator == [key |-> ZeroKey, value |-> NullRef, depth |-> 0, frame |-> 0,
                 frames |-> [f \in 0 .. KeyBytes |-> NoFrame]]

art_iterator_ref(it) == it.frames[it.frame].ref

art_iterator_valid_loc(art, it, leaf_ref) ==
    [it EXCEPT !.frames[it.frame] = [ref |-> leaf_ref, index |-> 0],
               !.key = art_deref(art, leaf_ref).key, !.value = leaf_ref]

art_iterator_invalid_loc(it) == [it EXCEPT !.key = ZeroKey, !.value = NullRef]

art_iterator_down(art, it, ref, index) ==
    [it EXCEPT !.frames[it.frame] = [ref |-> ref, index |-> index],
               !.frames[it.frame + 1].ref = art_node_child_at(art, ref, index).child,
               !.frame = @ + 1,
               !.depth = @ + Len(Prefix(art, ref)) + 1]

\* Precondition: it.frame > 0.
art_iterator_up(art, it) ==
    [it EXCEPT !.frame = @ - 1,
               !.depth = @ - (Len(Prefix(art, it.frames[it.frame - 1].ref)) + 1)]

RECURSIVE art_node_init_iterator(_, _, _, _)
art_node_init_iterator(art, ref, it, first) ==
    IF art_is_leaf(ref) THEN art_iterator_valid_loc(art, it, ref)
    ELSE LET c == IF first THEN art_node_next_child(art, ref, -1)
                  ELSE art_node_prev_child(art, ref, Chunks)
         IN  art_node_init_iterator(art, c.child, art_iterator_down(art, it, ref, c.index), first)

\* The neighbouring child of the node the iterator is at, NoChild if none.
art_iterator_neighbor_child(art, it, forward) ==
    LET frame == it.frames[it.frame]
    IN  IF forward THEN art_node_next_child(art, frame.ref, frame.index)
        ELSE art_node_prev_child(art, frame.ref, frame.index)

\* art_iterator_move and art_iterator_up_and_move call one another.
RECURSIVE MoveFrom(_, _, _), MoveInto(_, _, _, _)
MoveFrom(art, it, forward) ==
    MoveInto(art, it, art_iterator_neighbor_child(art, it, forward), forward)
MoveInto(art, it, c, forward) ==
    IF c.child # NullRef
    THEN art_node_init_iterator(art, c.child,
             art_iterator_down(art, it, art_iterator_ref(it), c.index), forward)
    ELSE IF it.frame = 0 THEN art_iterator_invalid_loc(it)
    ELSE MoveFrom(art, art_iterator_up(art, it), forward)

art_iterator_up_and_move(art, it, forward) ==
    IF it.frame = 0 THEN art_iterator_invalid_loc(it)
    ELSE MoveFrom(art, art_iterator_up(art, it), forward)

art_iterator_move(art, it, forward) ==
    IF art_is_leaf(art_iterator_ref(it)) THEN art_iterator_up_and_move(art, it, forward)
    ELSE MoveFrom(art, it, forward)

RECURSIVE art_node_iterator_lower_bound(_, _, _, _)
art_node_iterator_lower_bound(art, ref, it, key) ==
    IF art_is_leaf(ref)
    THEN IF art_compare_keys(art_deref(art, ref).key, key) >= 0
         THEN art_iterator_valid_loc(art, it, ref)
         ELSE art_iterator_up_and_move(art, it, TRUE)
    ELSE LET prefix == Prefix(art, ref)
             order  == art_compare_prefix(prefix, From(key, it.depth), Len(prefix))
             chunk  == key[it.depth + Len(prefix) + 1]
             c      == art_node_lower_bound(art, ref, chunk)
             down   == art_iterator_down(art, it, ref, c.index)
         IN  IF order > 0 THEN art_node_init_iterator(art, ref, it, TRUE)
             ELSE IF order < 0 \/ c.child = NullRef
             THEN art_iterator_up_and_move(art, it, TRUE)
             ELSE IF c.key_chunk > chunk THEN art_node_init_iterator(art, c.child, down, TRUE)
             ELSE art_node_iterator_lower_bound(art, c.child, down, key)

art_init_iterator(art, first) ==
    IF art.root = NullRef THEN ZeroIterator
    ELSE art_node_init_iterator(art, art.root, ZeroIterator, first)

art_lower_bound(art, key) ==
    IF art.root = NullRef THEN ZeroIterator
    ELSE art_node_iterator_lower_bound(art, art.root, ZeroIterator, key)

MovePast(art, it, key) == IF it.value # NullRef /\ art_compare_keys(it.key, key) = 0
                          THEN art_iterator_move(art, it, TRUE) ELSE it
art_upper_bound(art, key) == MovePast(art, art_lower_bound(art, key), key)

\* Mutant: one level is climbed, not as many as the keys differ in.
LowerBoundFrom_OneUp(art, it, key, order) ==
    IF order = 0 THEN art_node_iterator_lower_bound(art, art_iterator_ref(it), it, key)
    ELSE IF it.frame = 0
    THEN IF order < 0 THEN art_iterator_invalid_loc(it)
         ELSE art_node_init_iterator(art, art_iterator_ref(it), it, TRUE)
    ELSE LET up == art_iterator_up(art, it)
         IN  art_node_iterator_lower_bound(art, art_iterator_ref(up), up, key)

\* Climbs until the path down to the node agrees with the key, comparing with
\* the iterator's own key, then searches below.
RECURSIVE LowerBoundFrom(_, _, _, _)
LowerBoundFrom(art, it, key, order) ==
    IF order = 0 THEN art_node_iterator_lower_bound(art, art_iterator_ref(it), it, key)
    ELSE IF it.frame = 0
    THEN IF order < 0 THEN art_iterator_invalid_loc(it)
         ELSE art_node_init_iterator(art, art_iterator_ref(it), it, TRUE)
    ELSE LET up == art_iterator_up(art, it)
         IN  LowerBoundFrom(art, up, key,
                 art_compare_prefix(it.key, key, up.depth + Len(Prefix(art, art_iterator_ref(up)))))

art_iterator_lower_bound(art, it, key) ==
    LET top == [it EXCEPT !.frame = 0, !.depth = 0]
    IN  IF it.value # NullRef THEN LowerBoundFrom(art, it, key, art_compare_keys(it.key, key))
        ELSE IF art_iterator_ref(top) = NullRef THEN top
        ELSE art_node_iterator_lower_bound(art, art_iterator_ref(top), top, key)

\* Mutant: the iterator is not moved to the new key.
art_iterator_insert_Stays(art, it, key, val) == [art |-> art_insert(art, key, val), it |-> it]

\* The iterator looks for the key from the root of the changed tree.
SeekFromRoot(art, it, key) ==
    [art |-> art,
     it  |-> art_node_iterator_lower_bound(art, art.root,
                 [it EXCEPT !.frame = 0, !.depth = 0], key)]

art_iterator_insert(art, it, key, val) == SeekFromRoot(art_insert(art, key, val), it, key)

\* The chunk of the key below the node the iterator is at.
ChunkBelow(art, it, key) == key[it.depth + Len(Prefix(art, art_iterator_ref(it))) + 1]

\* The node that replaced the one at up is told to its parent, or to the root.
TellParent(after, up, key) ==
    IF up.frame = 0 THEN [after.art EXCEPT !.root = after.ref]
    ELSE LET up2 == art_iterator_up(after.art, up)
         IN  art_replace(after.art, art_iterator_ref(up2),
                         ChunkBelow(after.art, up2, key), after.ref)

AfterErase(after, up, key) ==
    LET marked == [up EXCEPT !.frames[up.frame].ref = after.ref]
    IN  SeekFromRoot(IF after.ref = art_iterator_ref(up) THEN after.art
                     ELSE TellParent(after, marked, key), marked, key)

EraseFromParent(art, up, key) ==
    AfterErase(art_node_erase(art, art_iterator_ref(up), ChunkBelow(art, up, key)), up, key)

\* Erases the leaf the iterator is at from its parent, tells the grandparent
\* or the root when that replaced the parent, and searches for the next key.
art_iterator_erase(art, it) ==
    LET freed == art_node_free(art, art_iterator_ref(it))
    IN  IF it.frame = 0
        THEN [art |-> [freed EXCEPT !.root = NullRef], it |-> art_iterator_invalid_loc(it)]
        ELSE EraseFromParent(freed, art_iterator_up(freed, it), it.key)

----------------------------------------------------------------------------
(* art_internal_validate, the checker the tests of the repository use.     *)

StrictlyIncreasing(s) == \A i \in 1 .. Len(s) - 1 : s[i] < s[i + 1]
NoDuplicates(s) == \A i, j \in DOMAIN s : s[i] = s[j] => i = j

art_node4_internal_validate(n) ==
    /\ Len(n.keys) \in 2 .. Size4
    /\ StrictlyIncreasing(n.keys) /\ NoDuplicates(n.children)

art_node16_internal_validate(n) ==
    /\ Len(n.keys) \in Size4 + 1 .. Size16
    /\ StrictlyIncreasing(n.keys) /\ NoDuplicates(n.children)

art_node48_internal_validate(n) ==
    LET used == {n.keys[c] : c \in Used48(n)} IN
    /\ n.count \in Size16 + 1 .. Size48
    /\ Cardinality(used) = Cardinality(Used48(n))
    /\ \A i \in used : n.children[i] # NullRef
    /\ used = Seq0(Size48) \ n.available
    /\ \A i, j \in used : n.children[i] = n.children[j] => i = j

art_node256_internal_validate(n) ==
    /\ n.count \in Size48 + 1 .. Chunks
    /\ \A c, d \in Used256(n) : n.children[c] = n.children[d] => c = d
    /\ Cardinality(Used256(n)) = n.count

\* path: the bytes on the way from the root to the node.
RECURSIVE art_internal_validate_at(_, _, _)
art_internal_validate_at(art, ref, path) ==
    IF ref = NullRef THEN FALSE
    ELSE IF art_is_leaf(ref)
    THEN art_compare_prefix(art_deref(art, ref).key, path, Len(path)) = 0
    ELSE LET n == art_deref(art, ref)
             here == path \o n.prefix
         IN  /\ Len(here) + 1 <= KeyBytes
             /\ CASE ref.type = "node4"   -> art_node4_internal_validate(n)
                  [] ref.type = "node16"  -> art_node16_internal_validate(n)
                  [] ref.type = "node48"  -> art_node48_internal_validate(n)
                  [] ref.type = "node256" -> art_node256_internal_validate(n)
             /\ \A c \in ToSet(ChildChunks(art, ref)) :
                    art_internal_validate_at(art, art_find_child(art, ref, c), Append(here, c))

art_internal_validate(art) ==
    \/ art.root = NullRef
    \/ /\ \A t \in ToSet(Types) : art.capacities[t] > 0 => art.first_free[t] <= art.capacities[t]
       /\ art_internal_validate_at(art, art.root, << >>)

----------------------------------------------------------------------------
(* The serialized form: the root, the capacities, padding up to the        *)
(* alignment of a leaf, then the slots of each type.                       *)

LeafAlignment == 8
Align(n) == ((n + LeafAlignment - 1) \div LeafAlignment) * LeafAlignment
HeaderBytes == Align(RootBytes + CapacitiesBytes)

art_size_in_bytes(art) == IF art_is_shrunken(art) THEN HeaderBytes + SlotBytes(art) ELSE 0

\* The bytes written, as the parts a reader can take from them, and how many.
art_serialize(art) ==
    IF ~art_is_shrunken(art) THEN [bytes |-> 0]
    ELSE [bytes |-> HeaderBytes
                    + FoldLeft(LAMBDA n, t : n + art.capacities[t] * ART_NODE_SIZES[t], 0, Types),
          root |-> art.root, capacities |-> art.capacities, nodes |-> art.nodes]

\* Reads at most maxbytes bytes; 0 when a part does not fit.  The buffer is
\* aligned, as art.h requires.
art_frozen_view(image, maxbytes) ==
    IF \/ maxbytes < RootBytes
       \/ maxbytes - RootBytes < CapacitiesBytes
       \/ maxbytes < HeaderBytes
       \/ maxbytes - HeaderBytes < SlotBytes(image)
    THEN [bytes |-> 0]
    ELSE [bytes |-> HeaderBytes + SlotBytes(image),
          art |-> [root |-> image.root, first_free |-> image.capacities,
                   capacities |-> image.capacities, nodes |-> image.nodes]]
============================================================================
