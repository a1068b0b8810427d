------------------------------ MODULE ArtNodes ------------------------------
(***************************************************************************)
(* The nodes of the adaptive radix tree of src/art/art.c and their memory: *)
(* one array of slots per node type, a free list threaded through the      *)
(* unused slots, and references that are (type, index) pairs.  The number  *)
(* of key bytes, the number of values of a byte and the sizes of the four  *)
(* inner node types are parameters; the code has 6, 256 and 4, 16, 48, 256.*)
(* A node of a freed slot is unreadable here (in C its first eight bytes   *)
(* hold the index of the next free slot).                                  *)
(***************************************************************************)
EXTENDS Integers, Sequences, FiniteSets, SequencesExt

CONSTANTS KeyBytes, Chunks, Size4, Size16, Size48

ASSUME SizesAssumption == /\ {KeyBytes, Chunks, Size4, Size16, Size48} \subseteq Nat \ {0}
                          /\ 1 < Size4 /\ Size4 < Size16
                          /\ Size16 < Size48 /\ Size48 < Chunks

Chunk == 0 .. Chunks - 1
Types == <<"leaf", "node4", "node16", "node48", "node256">>
NullRef == [type |-> "null", index |-> 0]
Empty48 == Size48

\* ART_NODE_SIZES: bytes of a node of each type on a 64-bit machine, and the
\* bytes of the root reference and of the capacities in the serialized form.
ART_NODE_SIZES == [leaf |-> 16, node4 |-> 48, node16 |-> 152,
                   node48 |-> 656, node256 |-> 2056]
RootBytes == 8
CapacitiesBytes == 48

art_init_cleared ==
    [root |-> NullRef,
     first_free |-> [t \in ToSet(Types) |-> 0],
     capacities |-> [t \in ToSet(Types) |-> 0],
     nodes |-> [t \in ToSet(Types) |-> << >>]]

art_to_ref(index, type) == [type |-> type, index |-> index]
art_deref(art, ref) == art.nodes[ref.type][ref.index]
SetNode(art, ref, node) == [art EXCEPT !.nodes[ref.type][ref.index] = node]
art_is_leaf(ref) == ref.type = "leaf"
FreeSlot(next) == [next_free |-> next]
IsFree(slot) == DOMAIN slot = {"next_free"}
Seq0(n) == 0 .. n - 1

\* A finite set of numbers in ascending order.
Ascending(S) == [i \in 1 .. Cardinality(S) |->
                   CHOOSE x \in S : Cardinality({y \in S : y < x}) = i - 1]

----------------------------------------------------------------------------
(* Slots: growth, allocation, release.                                     *)

\* New slots are linked to one another; the free list, which ends with the
\* old capacity, runs into them.
art_grow_to(art, t, new_capacity) ==
    IF new_capacity <= art.capacities[t] THEN art
    ELSE [art EXCEPT
            !.capacities[t] = new_capacity,
            !.nodes[t] = [i \in Seq0(new_capacity) |->
                IF i < art.capacities[t] THEN art.nodes[t][i] ELSE FreeSlot(i + 1)]]

art_extend(art, t) ==
    LET capacity == art.capacities[t] IN
    IF art.first_free[t] < capacity THEN art
    ELSE art_grow_to(art, t, IF capacity = 0 THEN 2
                             ELSE IF capacity < 1024 THEN 2 * capacity
                             ELSE (5 * capacity) \div 4)

art_node_get_next_free(art, ref) == art_deref(art, ref).next_free
art_next_free(art, t) == art_node_get_next_free(art, art_to_ref(art.first_free[t], t))

art_allocate_index(art, t) ==
    IF art.first_free[t] = art.capacities[t]
    THEN [art_extend(art, t) EXCEPT !.first_free[t] = @ + 1]
    ELSE [art EXCEPT !.first_free[t] = art_next_free(art, t)]

\* Allocates a slot for the node; the new reference is the old first_free.
Create(art, t, node) ==
    LET ref == art_to_ref(art.first_free[t], t) IN
    [art |-> SetNode(art_allocate_index(art, t), ref, node), ref |-> ref]

art_node_set_next_free(art, ref, next) == SetNode(art, ref, FreeSlot(next))

art_node_free(art, ref) ==
    [art_node_set_next_free(art, ref, art.first_free[ref.type])
        EXCEPT !.first_free[ref.type] = ref.index]

art_leaf_create(art, key, val) == Create(art, "leaf", [key |-> key, val |-> val])

----------------------------------------------------------------------------
(* Nodes with sorted keys: Node4 and Node16.                               *)

EmptySorted(prefix) == [prefix |-> prefix, keys |-> << >>, children |-> << >>]
art_node4_create(art, prefix)  == Create(art, "node4", EmptySorted(prefix))
art_node16_create(art, prefix) == Create(art, "node16", EmptySorted(prefix))

\* The first position, from 1, whose key satisfies a bound; 0 if none does.
PosEq(n, key) == LET P == {i \in DOMAIN n.keys : n.keys[i] = key}
                 IN IF P = {} THEN 0 ELSE CHOOSE i \in P : TRUE
FirstAbove(n, key) == Cardinality({i \in DOMAIN n.keys : n.keys[i] <= key}) + 1
FirstAtLeast(n, key) == Cardinality({i \in DOMAIN n.keys : n.keys[i] < key}) + 1

NoChild == [child |-> NullRef]
SortedChild(n, i) == IF i \in DOMAIN n.keys
                     THEN [child |-> n.children[i], index |-> i - 1, key_chunk |-> n.keys[i]]
                     ELSE NoChild
SortedFind(n, key) == IF PosEq(n, key) = 0 THEN NullRef ELSE n.children[PosEq(n, key)]
SortedInsert(n, child, key) ==
    [n EXCEPT !.keys = InsertAt(@, FirstAbove(n, key), key),
              !.children = InsertAt(@, FirstAbove(n, key), child)]
SortedErase(n, key) == IF PosEq(n, key) = 0 THEN n
                       ELSE [n EXCEPT !.keys = RemoveAt(@, PosEq(n, key)),
                                      !.children = RemoveAt(@, PosEq(n, key))]
SortedReplace(n, key, child) == IF PosEq(n, key) = 0 THEN n
                                ELSE [n EXCEPT !.children[PosEq(n, key)] = child]

art_node4_find_child(n, key)  == SortedFind(n, key)
art_node16_find_child(n, key) == SortedFind(n, key)
art_node4_replace(n, key, child)  == SortedReplace(n, key, child)
art_node16_replace(n, key, child) == SortedReplace(n, key, child)

\* Positions in the interface of the code count from 0; -1 and 256 stand
\* before the first and after the last child.
art_node4_next_child(n, index)  == SortedChild(n, index + 2)
art_node16_next_child(n, index) == SortedChild(n, index + 2)
PrevSorted(n, index) == SortedChild(n, IF index > Len(n.keys) THEN Len(n.keys) ELSE index)
art_node4_prev_child(n, index)  == PrevSorted(n, index)
art_node16_prev_child(n, index) == PrevSorted(n, index)
art_node4_child_at(n, index)  == SortedChild(n, index + 1)
art_node16_child_at(n, index) == SortedChild(n, index + 1)
art_node4_lower_bound(n, key)  == SortedChild(n, FirstAtLeast(n, key))
art_node16_lower_bound(n, key) == SortedChild(n, FirstAtLeast(n, key))

----------------------------------------------------------------------------
(* Node48: keys[chunk] is an index in children, or Empty48.                *)

art_node48_create(art, prefix) ==
    Create(art, "node48",
           [prefix |-> prefix, count |-> 0, available |-> Seq0(Size48),
            keys |-> [c \in Chunk |-> Empty48],
            children |-> [i \in Seq0(Size48) |-> NullRef]])

Used48(n) == {c \in Chunk : n.keys[c] # Empty48}
Child48(n, c) == [child |-> n.children[n.keys[c]], index |-> c, key_chunk |-> c]
First48(n, S) == IF S \cap Used48(n) = {} THEN NoChild ELSE Child48(n, Min(S \cap Used48(n)))
Last48(n, S)  == IF S \cap Used48(n) = {} THEN NoChild ELSE Child48(n, Max(S \cap Used48(n)))

art_node48_find_child(n, key) == IF n.keys[key] = Empty48 THEN NullRef
                                 ELSE n.children[n.keys[key]]
art_node48_replace(n, key, child) == [n EXCEPT !.children[n.keys[key]] = child]
art_node48_next_child(n, index) == First48(n, (index + 1) .. Chunks - 1)
art_node48_prev_child(n, index) == Last48(n, 0 .. index - 1)
art_node48_child_at(n, index) == Child48(n, index)
art_node48_lower_bound(n, key) == First48(n, key .. Chunks - 1)

----------------------------------------------------------------------------
(* Node256: children[chunk].                                               *)

art_node256_create(art, prefix) ==
    Create(art, "node256", [prefix |-> prefix, count |-> 0,
                            children |-> [c \in Chunk |-> NullRef]])

Used256(n) == {c \in Chunk : n.children[c] # NullRef}
Child256(n, c) == [child |-> n.children[c], index |-> c, key_chunk |-> c]
First256(n, S) == IF S \cap Used256(n) = {} THEN NoChild ELSE Child256(n, Min(S \cap Used256(n)))
Last256(n, S)  == IF S \cap Used256(n) = {} THEN NoChild ELSE Child256(n, Max(S \cap Used256(n)))

art_node256_find_child(n, key) == n.children[key]
art_node256_replace(n, key, child) == [n EXCEPT !.children[key] = child]
art_node256_next_child(n, index) == First256(n, (index + 1) .. Chunks - 1)
art_node256_prev_child(n, index) == Last256(n, 0 .. index - 1)
art_node256_child_at(n, index) == Child256(n, index)
art_node256_lower_bound(n, key) == First256(n, key .. Chunks - 1)

----------------------------------------------------------------------------
(* Insertion into a node, which may have to be replaced by a larger one,   *)
(* and removal, which may leave a smaller one.  Both return the tree and   *)
(* the reference of the node that now holds the children.                  *)

Result(art, ref) == [art |-> art, ref |-> ref]
Prefix(art, ref) == art_deref(art, ref).prefix

\* A new node of another type takes the place of a node, whose slot is freed.
\* (The code frees it after moving the children, which allocates nothing.)
Instead(new, ref) == Result(art_node_free(new.art, ref), new.ref)

art_node256_insert(art, ref, child, key) ==
    LET n == art_deref(art, ref) IN
    Result(SetNode(art, ref, [n EXCEPT !.children[key] = child, !.count = @ + 1]), ref)

\* The children of a node in key order, as <<chunk, child>> pairs.
Pairs48(n)  == LET cs == Ascending(Used48(n))
               IN [i \in DOMAIN cs |-> <<cs[i], n.children[n.keys[cs[i]]]>>]
Pairs256(n) == LET cs == Ascending(Used256(n))
               IN [i \in DOMAIN cs |-> <<cs[i], n.children[cs[i]]>>]
PairsSorted(n) == [i \in DOMAIN n.keys |-> <<n.keys[i], n.children[i]>>]

art_node48_insert(art, ref, child, key) ==
    LET n == art_deref(art, ref) IN
    IF n.count < Size48
    THEN LET idx == Min(n.available) IN
         Result(SetNode(art, ref, [n EXCEPT !.keys[key] = idx, !.children[idx] = child,
                                            !.count = @ + 1, !.available = @ \ {idx}]), ref)
    ELSE LET Put(a, p) == art_node256_insert(a.art, a.ref, p[2], p[1])
         IN  FoldLeft(Put, Instead(art_node256_create(art, n.prefix), ref),
                      Append(Pairs48(n), <<key, child>>))

art_node16_insert(art, ref, child, key) ==
    LET n == art_deref(art, ref) IN
    IF Len(n.keys) < Size16 THEN Result(SetNode(art, ref, SortedInsert(n, child, key)), ref)
    ELSE LET Put(a, p) == art_node48_insert(a.art, a.ref, p[2], p[1])
         IN  FoldLeft(Put, Instead(art_node48_create(art, n.prefix), ref),
                      Append(PairsSorted(n), <<key, child>>))

art_node4_insert(art, ref, child, key) ==
    LET n == art_deref(art, ref) IN
    IF Len(n.keys) < Size4 THEN Result(SetNode(art, ref, SortedInsert(n, child, key)), ref)
    ELSE LET Put(a, p) == art_node16_insert(a.art, a.ref, p[2], p[1])
         IN  FoldLeft(Put, Instead(art_node16_create(art, n.prefix), ref),
                      Append(PairsSorted(n), <<key, child>>))

art_node_insert_leaf(art, ref, key_chunk, leaf) ==
    CASE ref.type = "node4"   -> art_node4_insert(art, ref, leaf, key_chunk)
      [] ref.type = "node16"  -> art_node16_insert(art, ref, leaf, key_chunk)
      [] ref.type = "node48"  -> art_node48_insert(art, ref, leaf, key_chunk)
      [] ref.type = "node256" -> art_node256_insert(art, ref, leaf, key_chunk)

\* A new, smaller node with the children of the one it replaces.
Refilled(new, pairs) ==
    FoldLeft(LAMBDA a, p : art_node_insert_leaf(a.art, a.ref, p[1], p[2]), new, pairs)

\* A node that is left with one child disappears; an inner child takes over
\* its prefix and its key byte.
art_node4_erase(art, ref, key) ==
    LET n == art_deref(art, ref)
        other == 3 - PosEq(n, key)
        rest == n.children[other]
        lengthened == [art_deref(art, rest) EXCEPT
                          !.prefix = n.prefix \o <<n.keys[other]>> \o @]
        kept == IF art_is_leaf(rest) THEN art ELSE SetNode(art, rest, lengthened)
    IN  IF PosEq(n, key) = 0 THEN Result(art, ref)
        ELSE IF Len(n.keys) = 2 THEN Result(art_node_free(kept, ref), rest)
        ELSE Result(SetNode(art, ref, SortedErase(n, key)), ref)

\* Mutant: a Node16 is kept one child too long.
art_node16_erase_Late(art, ref, key) ==
    LET n == SortedErase(art_deref(art, ref), key)
    IN  IF Len(n.keys) >= Size4 THEN Result(SetNode(art, ref, n), ref)
        ELSE Refilled(Instead(art_node4_create(art, n.prefix), ref), PairsSorted(n))

art_node16_erase(art, ref, key) ==
    LET n == SortedErase(art_deref(art, ref), key)
    IN  IF Len(n.keys) > Size4 THEN Result(SetNode(art, ref, n), ref)
        ELSE Refilled(Instead(art_node4_create(art, n.prefix), ref), PairsSorted(n))

art_node48_erase(art, ref, key) ==
    LET old == art_deref(art, ref)
        n   == [old EXCEPT !.keys[key] = Empty48, !.count = @ - 1,
                           !.available = @ \cup {old.keys[key]}]
    IN  IF old.keys[key] = Empty48 THEN Result(art, ref)
        ELSE IF n.count > Size16 THEN Result(SetNode(art, ref, n), ref)
        ELSE Refilled(Instead(art_node16_create(art, n.prefix), ref), Pairs48(n))

art_node256_erase(art, ref, key) ==
    LET n == [art_deref(art, ref) EXCEPT !.children[key] = NullRef, !.count = @ - 1]
    IN  IF n.count > Size48 THEN Result(SetNode(art, ref, n), ref)
        ELSE Refilled(Instead(art_node48_create(art, n.prefix), ref), Pairs256(n))

art_node_erase(art, ref, key_chunk) ==
    CASE ref.type = "node4"   -> art_node4_erase(art, ref, key_chunk)
      [] ref.type = "node16"  -> art_node16_erase(art, ref, key_chunk)
      [] ref.type = "node48"  -> art_node48_erase(art, ref, key_chunk)
      [] ref.type = "node256" -> art_node256_erase(art, ref, key_chunk)

art_find_child(art, ref, key_chunk) ==
    LET n == art_deref(art, ref) IN
    CASE ref.type = "node4"   -> art_node4_find_child(n, key_chunk)
      [] ref.type = "node16"  -> art_node16_find_child(n, key_chunk)
      [] ref.type = "node48"  -> art_node48_find_child(n, key_chunk)
      [] ref.type = "node256" -> art_node256_find_child(n, key_chunk)

art_replace(art, ref, key_chunk, child) ==
    LET n == art_deref(art, ref) IN
    SetNode(art, ref,
        CASE ref.type = "node4"   -> art_node4_replace(n, key_chunk, child)
          [] ref.type = "node16"  -> art_node16_replace(n, key_chunk, child)
          [] ref.type = "node48"  -> art_node48_replace(n, key_chunk, child)
          [] ref.type = "node256" -> art_node256_replace(n, key_chunk, child))

art_node_next_child(art, ref, index) ==
    LET n == art_deref(art, ref) IN
    CASE ref.type = "leaf"    -> NoChild
      [] ref.type = "node4"   -> art_node4_next_child(n, index)
      [] ref.type = "node16"  -> art_node16_next_child(n, index)
      [] ref.type = "node48"  -> art_node48_next_child(n, index)
      [] ref.type = "node256" -> art_node256_next_child(n, index)

art_node_prev_child(art, ref, index) ==
    LET n == art_deref(art, ref) IN
    CASE ref.type = "leaf"    -> NoChild
      [] ref.type = "node4"   -> art_node4_prev_child(n, index)
      [] ref.type = "node16"  -> art_node16_prev_child(n, index)
      [] ref.type = "node48"  -> art_node48_prev_child(n, index)
      [] ref.type = "node256" -> art_node256_prev_child(n, index)

art_node_child_at(art, ref, index) ==
    LET n == art_deref(art, ref) IN
    CASE ref.type = "leaf"    -> NoChild
      [] ref.type = "node4"   -> art_node4_child_at(n, index)
      [] ref.type = "node16"  -> art_node16_child_at(n, index)
      [] ref.type = "node48"  -> art_node48_child_at(n, index)
      [] ref.type = "node256" -> art_node256_child_at(n, index)

art_node_lower_bound(art, ref, key_chunk) ==
    LET n == art_deref(art, ref) IN
    CASE ref.type = "leaf"    -> NoChild
      [] ref.type = "node4"   -> art_node4_lower_bound(n, key_chunk)
      [] ref.type = "node16"  -> art_node16_lower_bound(n, key_chunk)
      [] ref.type = "node48"  -> art_node48_lower_bound(n, key_chunk)
      [] ref.type = "node256" -> art_node256_lower_bound(n, key_chunk)
============================================================================
