------------------------------- MODULE ArtMap -------------------------------
(***************************************************************************)
(* A tree and one iterator over it under every sequence of calls of art.h. *)
(* A run starts from the trees that insertions in ascending order build    *)
(* (over every subset of a family of keys) and then takes up to MaxChanges *)
(* calls that change the tree, with any number of iterator moves before,   *)
(* between and after the first CursorChanges of them.                      *)
(***************************************************************************)
EXTENDS ArtTree

CONSTANTS Families,        \* sets of keys; the calls of a behaviour use one of them
          MaxChanges,      \* bound on the calls that change the tree
          CursorChanges,   \* bound on those that come before or between iterator moves
          ShrinkEmpty      \* whether an empty tree may be shrunk

ASSUME FamiliesAssumption == /\ \A keys \in Families : keys \subseteq [1 .. KeyBytes -> Chunk]
                             /\ MaxChanges \in Nat /\ CursorChanges \in 0 .. MaxChanges
                             /\ ShrinkEmpty \in BOOLEAN

VARIABLES art, it, changes,
          map,      \* what the calls so far should have left in the tree
          keys      \* the keys that calls use

vars == <<art, it, changes, map, keys>>

\* No usable iterator: none was made, or the tree was changed without it.
NoIterator == [ZeroIterator EXCEPT !.frame = -1]

Precedes(k, l) == art_compare_keys(k, l) < 0

\* A set of keys in their order.
InOrder(S) == [i \in 1 .. Cardinality(S) |->
                 CHOOSE k \in S : Cardinality({l \in S : Precedes(l, k)}) = i - 1]

\* The value stored for a key; any function of the key does.
ValueOf(k) == k[KeyBytes]

\* The leaves below a reference, and the map a tree stands for.
RECURSIVE Below(_, _)
Below(a, ref) ==
    IF ref = NullRef THEN {}
    ELSE {ref} \cup IF art_is_leaf(ref) THEN {}
                    ELSE UNION {Below(a, art_find_child(a, ref, c)) : c \in ToSet(ChildChunks(a, ref))}
Leaves(a) == {r \in Below(a, a.root) : art_is_leaf(r)}
Contents(a) ==
    LET leaves == {art_deref(a, r) : r \in Leaves(a)}
    IN  [k \in {l.key : l \in leaves} |-> (CHOOSE l \in leaves : l.key = k).val]

BuiltFrom(S) == FoldLeft(LAMBDA a, k : art_insert(a, k, ValueOf(k)),
                         art_init_cleared, InOrder(S))

TypeOK == /\ \A t \in ToSet(Types) : /\ DOMAIN art.nodes[t] = Seq0(art.capacities[t])
                                     /\ art.first_free[t] \in 0 .. art.capacities[t]
          /\ it.frame \in -1 .. KeyBytes
          /\ it.depth \in 0 .. KeyBytes
          /\ changes \in 0 .. MaxChanges

Init == \E family \in Families : \E S \in SUBSET family :
            /\ keys = family
            /\ art = BuiltFrom(S)
            /\ map = [k \in S |-> ValueOf(k)]
            /\ it = NoIterator
            /\ changes = 0

\* The last changes are made without an iterator: they do not depend on it.
Changed(a, i, m) == /\ changes < CursorChanges \/ (changes < MaxChanges /\ it = NoIterator)
                    /\ changes' = changes + 1
                    /\ art' = a /\ it' = i /\ map' = m
                    /\ UNCHANGED keys

ChangedBoth(r, m) == Changed(r.art, r.it, m)

Moved(i) == changes <= CursorChanges /\ it' = i /\ UNCHANGED <<art, changes, map, keys>>

With(k)    == [l \in DOMAIN map \cup {k} |-> ValueOf(l)]
Without(k) == [l \in DOMAIN map \ {k} |-> map[l]]

\* art.h has no call to replace a value: a key is inserted only when absent.
Insert(k) == /\ art_find(art, k) = NullRef
             /\ Changed(art_insert(art, k, ValueOf(k)), NoIterator, With(k))
Erase(k) == Changed(art_erase(art, k), NoIterator, Without(k))
Reserve == Changed(art_reserve(art, art_num_leaves(art) + 1), NoIterator, map)
Shrink == /\ ShrinkEmpty \/ ~art_is_empty(art)
          /\ Changed(art_shrink_to_fit(art).art, NoIterator, map)

InitIterator(first) == Moved(art_init_iterator(art, first))
LowerBound(k) == Moved(art_lower_bound(art, k))
UpperBound(k) == Moved(art_upper_bound(art, k))

\* Callers move an iterator only while it has a value.
Move(forward) == it.value # NullRef /\ Moved(art_iterator_move(art, it, forward))

\* An iterator past an end is positioned again only if it still knows the root,
\* as the iterators of roaring64.c do: another one finds nothing.
IteratorLowerBound(k) ==
    /\ it # NoIterator
    /\ it.value # NullRef \/ it.frames[0].ref = art.root
    /\ Moved(art_iterator_lower_bound(art, it, k))

IteratorInsert(k) ==
    /\ it # NoIterator /\ art_find(art, k) = NullRef
    /\ ChangedBoth(art_iterator_insert(art, it, k, ValueOf(k)), With(k))

IteratorErase ==
    /\ it.value # NullRef
    /\ ChangedBoth(art_iterator_erase(art, it), Without(it.key))

Next == \/ \E k \in keys : \/ Insert(k) \/ Erase(k) \/ LowerBound(k) \/ UpperBound(k)
                           \/ IteratorLowerBound(k) \/ IteratorInsert(k)
        \/ \E b \in BOOLEAN : InitIterator(b) \/ Move(b)
        \/ Reserve \/ Shrink \/ IteratorErase

Spec == Init /\ [][Next]_vars

----------------------------------------------------------------------------
(* Properties.                                                             *)

\* The tree and its iterator behave as the ordered map and the cursor of
\* OrderedMap: every move, also after a modification through the iterator,
\* ends on the key that the order of the keys calls for.
Abstract == INSTANCE OrderedMap WITH
                Key <- UNION Families,
                Off <- << >>, None <- <<-1>>,
                cursor <- IF it = NoIterator THEN <<-1>>
                          ELSE IF it.value = NullRef THEN << >> ELSE it.key
RefinesOrderedMap == Abstract!Spec

\* art_find reaches exactly the leaves of the tree, each under its own key:
\* paths and compressed prefixes lead where insertion put the leaf.
FindAgrees ==
    \A k \in keys : LET r == art_find(art, k) IN
        IF k \in DOMAIN map
        THEN r # NullRef /\ art_deref(art, r) = [key |-> k, val |-> map[k]]
        ELSE r = NullRef

\* The checker that the repository's tests call after every change accepts
\* every tree: node sizes, key order, prefixes and free lists are in bounds.
Validates == art_internal_validate(art)

\* Every slot is in exactly one place: in the tree once, or on its type's free
\* list once.  No slot leaks, none is used while it is free, and art_num_leaves,
\* which takes the free slots from all of them, counts the keys.  The checker
\* art_internal_validate accepts the tree.
SlotsAccounted ==
    /\ TypeOK
    /\ Validates
    /\ \A t \in ToSet(Types) :
         LET used == {r.index : r \in {q \in Below(art, art.root) : q.type = t}}
             free == FreeList(art, t)
         IN  /\ used \cap ToSet(free) = {}
             /\ used \cup ToSet(free) = Seq0(art.capacities[t])
             /\ \A i \in used : ~IsFree(art.nodes[t][i])
    /\ art_num_leaves(art) = Cardinality(DOMAIN map)

\* art_lower_bound and art_upper_bound stand on the right key for every key,
\* present or not, and iterators started at both ends meet all keys in order.
Scan(first) ==
    LET RECURSIVE From1(_)
        From1(i) == IF i.value = NullRef THEN << >>
                    ELSE <<i.key>> \o From1(art_iterator_move(art, i, first))
    IN  From1(art_init_iterator(art, first))
Stands(i, S) == IF S = {} THEN i.value = NullRef
                ELSE i.value # NullRef /\ i.key = InOrder(S)[1]
SearchesAgree ==
    LET D == DOMAIN map
    IN  /\ \A k \in keys : /\ Stands(art_lower_bound(art, k), {l \in D : ~Precedes(l, k)})
                           /\ Stands(art_upper_bound(art, k), {l \in D : Precedes(k, l)})
        /\ Scan(TRUE) = InOrder(D)
        /\ Scan(FALSE) = Reverse(InOrder(D))

\* art_iterator_lower_bound, which climbs from where the iterator is as far as
\* it must and no further, ends on the key that a search from the root finds.
ClimbsAgree ==
    it # NoIterator /\ it.value # NullRef =>
        \A k \in keys : Stands(art_iterator_lower_bound(art, it, k),
                               {l \in DOMAIN map : ~Precedes(l, k)})

\* The leaves of the tree are the entries of the map, and every way to one finds
\* it: lookups, bounds and scans from either end, and the climb of an iterator
\* (art_insert, art_erase, art_find, art_lower_bound, art_iterator_lower_bound).
HoldsMap == Contents(art) = map /\ FindAgrees /\ SearchesAgree /\ ClimbsAgree

\* A shrunken tree is serialized into exactly art_size_in_bytes bytes, and a
\* view over the bytes is the same tree; a view over fewer bytes is refused.
FrozenViewAgrees(s) ==
    LET n == art_size_in_bytes(s)
    IN  /\ art_serialize(s).bytes = n
        /\ \A maxbytes \in {0, RootBytes, HeaderBytes, n - 1, n - RootBytes, n, n + 1} :
              LET view == art_frozen_view(art_serialize(s), maxbytes) IN
              IF maxbytes < n THEN view.bytes = 0 ELSE view.bytes = n /\ view.art = s

\* art_shrink_to_fit packs the nodes into the first slots whatever holes the
\* history left: same contents, a valid tree, no free slot, the freed bytes
\* reported.  The packed tree is what art_serialize writes and art_frozen_view reads.
Packed(s) ==
    /\ FrozenViewAgrees(s.art)
    /\ ~art_is_empty(art) =>
        /\ Contents(s.art) = map /\ art_internal_validate(s.art)
        /\ art_is_shrunken(s.art) /\ s.freed = SlotBytes(art) - SlotBytes(s.art)
        /\ \A t \in ToSet(Types) :
              s.art.capacities[t] = Cardinality({r \in Below(s.art, s.art.root) : r.type = t})
ShrinkPacks == Packed(art_shrink_to_fit(art))
============================================================================
