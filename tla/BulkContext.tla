---------------------------- MODULE BulkContext ----------------------------
(***************************************************************************)
(* The calls of roaring.c that remember a container from one value to the  *)
(* next (the _bulk calls with their context, add_many, remove_many), on    *)
(* two bitmaps that may share containers.  Containers are objects on the   *)
(* heap of ContainerHeap, so that a context that outlives its container is *)
(* seen.                                                                   *)
(***************************************************************************)
EXTENDS ContainerHeap

CONSTANTS KeyCount,            \* 2^16 in the code
          ChunkSize,           \* 2^16 in the code
          DEFAULT_MAX_SIZE,    \* 4096: how many values an array container may hold
          MaxSteps,            \* bound: how many calls are made
          MixedWhenShared,     \* one context is used to search and to add, with sharing
          KeptOverCopy         \* a context is used again after its bitmap was copied

BulkAssumption ==
  /\ KeyCount \in Nat \ {0} /\ ChunkSize \in Nat \ {0}
  /\ DEFAULT_MAX_SIZE \in 1 .. ChunkSize
  /\ MixedWhenShared \in BOOLEAN /\ KeptOverCopy \in BOOLEAN

VARIABLES heap,        \* [objs, touched]: the objects, and whether a freed one was used
          bitmaps,     \* the key arrays of the bitmaps: [key, ref, type]
          contexts,    \* one context for each bitmap
          members,     \* the sets that the calls have built
          cow,         \* whether the bitmaps are copied by sharing
          steps

vars == <<heap, bitmaps, contexts, members, cow, steps>>

Bitmaps == {"a", "b"}
Universe == 0 .. KeyCount * ChunkSize - 1
High(v) == v \div ChunkSize
Low(v) == v % ChunkSize

Plain(type, set) == [type |-> type, set |-> set]
ZeroContext == [container |-> NullRef, idx |-> 0, key |-> 0, typecode |-> "none", use |-> "none"]
-----------------------------------------------------------------------------
(* Containers.                                                             *)

\* What a pointer reaches, through a shared container or not.
Values(h, ref) ==
  IF ~Alive(h, ref) THEN {}
  ELSE IF Object(h, ref).type = "shared"
       THEN IF Alive(h, Object(h, ref).inner) THEN Object(h, Object(h, ref).inner).set ELSE {}
  ELSE Object(h, ref).set

\* An array that is full becomes a new bitset; the caller frees the array.
AddTo(w, low) ==
  LET set == Object(w.h, w.ref).set
      bitset == New(w.h, Plain("bitset", set \cup {low}))
  IN  IF ~Alive(w.h, w.ref) THEN Handle(Touch(w.h, w.ref), w.ref, w.type)
      ELSE IF w.type = "array" /\ low \notin set /\ Cardinality(set) = DEFAULT_MAX_SIZE
           THEN Handle(bitset.h, bitset.ref, "bitset")
      ELSE Handle(Write(w.h, w.ref, Plain(w.type, set \cup {low})), w.ref, w.type)

container_add(h, ref, low, type) == AddTo(get_writable_copy_if_shared(h, ref, type), low)

\* A bitset that becomes small enough becomes a new array.
RemoveFrom(w, low) ==
  LET set == Object(w.h, w.ref).set \ {low}
      array == New(w.h, Plain("array", set))
  IN  IF w.type = "bitset" /\ low \in Object(w.h, w.ref).set
           /\ Cardinality(set) <= DEFAULT_MAX_SIZE
      THEN Handle(array.h, array.ref, "array")
      ELSE Handle(Write(w.h, w.ref, Plain(w.type, set)), w.ref, w.type)

container_remove(h, ref, low, type) ==
  RemoveFrom(get_writable_copy_if_shared(h, ref, type), low)
-----------------------------------------------------------------------------
(* The key array.  A state of a call is [h, ra].                           *)

ra_set_container_at_index(s, i, ref, type) ==
  [s EXCEPT !.ra[i + 1].ref = ref, !.ra[i + 1].type = type]

SetHandle(s, i, w) == ra_set_container_at_index([s EXCEPT !.h = w.h], i, w.ref, w.type)

ra_unshare_container_at_index(s, i) ==
  SetHandle(s, i, get_writable_copy_if_shared(s.h, s.ra[i + 1].ref, s.ra[i + 1].type))

\* A container is changed at index i; a new one takes the place of the old one.
PutBack(s, i, new) ==
  LET old == s.ra[i + 1]
      h == IF new.ref # old.ref THEN container_free(new.h, old.ref, old.type) ELSE new.h
  IN  ra_set_container_at_index([s EXCEPT !.h = h], i, new.ref, new.type)

AddAtIndex(u, i, val) ==
  PutBack(u, i, container_add(u.h, u.ra[i + 1].ref, Low(val), u.ra[i + 1].type))

InsertNew(s, i, val, added) ==
  [h |-> added.h, ra |-> InsertAt(s.ra, i, Entry(High(val), added.ref, added.type))]

containerptr_roaring_bitmap_add(s, val) ==
  LET i == ra_get_index(s.ra, High(val))
      created == New(s.h, Plain("array", {}))
  IN  IF i >= 0
      THEN [s |-> AddAtIndex(ra_unshare_container_at_index(s, i), i, val), index |-> i]
      ELSE [s |-> InsertNew(s, -i, val,
                            container_add(created.h, created.ref, Low(val), "array")),
            index |-> -i - 1]

\* roaring_bitmap_add and roaring_bitmap_add_checked, which also compares.
roaring_bitmap_add(s, val) == containerptr_roaring_bitmap_add(s, val).s

DropIfEmpty(put, i) ==
  LET left == put.ra[i + 1]
  IN  IF Values(put.h, left.ref) # {} THEN put
      ELSE [h |-> container_free(put.h, left.ref, left.type), ra |-> RemoveAt(put.ra, i + 1)]

RemoveAtIndex(s, i, val) ==
  LET e == s.ra[i + 1]
  IN  DropIfEmpty(PutBack(s, i, container_remove(s.h, e.ref, Low(val), e.type)), i)

roaring_bitmap_remove(s, val) ==
  LET i == ra_get_index(s.ra, High(val))
  IN  IF i < 0 THEN s ELSE RemoveAtIndex(ra_unshare_container_at_index(s, i), i, val)

\* pos is the index of the container of the previous value, unshared already.
StayAt(u, removed, pos) ==
  [s |-> removed, pos |-> IF Len(removed.ra) < Len(u.ra) THEN -1 ELSE pos]

RemoveNext(u, pos, val) ==
  IF pos < 0 THEN [s |-> u, pos |-> pos] ELSE StayAt(u, RemoveAtIndex(u, pos, val), pos)

roaring_bitmap_remove_many(s, vals) ==
  LET step(t, val) ==
        LET same == t.pos >= 0 /\ t.s.ra[t.pos + 1].key = High(val)
            pos == IF same THEN t.pos ELSE ra_get_index(t.s.ra, High(val))
        IN  RemoveNext(IF ~same /\ pos >= 0 THEN ra_unshare_container_at_index(t.s, pos)
                       ELSE t.s, pos, val)
  IN  IF s.ra = <<>> THEN s ELSE FoldLeft(step, [s |-> s, pos |-> -1], vals).s
-----------------------------------------------------------------------------
(* Calls with a context.                                                   *)

\* The context after a call that looked the container up.
Remember(context, found, val) ==
  LET e == found.s.ra[found.index + 1]
  IN  [s |-> found.s,
       context |-> [context EXCEPT !.container = e.ref, !.typecode = e.type,
                                   !.idx = found.index, !.key = High(val)]]

\* Mutant: the type of a converted container is not stored in the context.
AddCached_KeepsType(s, context, new) ==
  IF new.ref = context.container THEN [s |-> [s EXCEPT !.h = new.h], context |-> context]
  ELSE [s |-> ra_set_container_at_index(
                [s EXCEPT !.h = container_free(new.h, context.container, context.typecode)],
                context.idx, new.ref, new.type),
        context |-> [context EXCEPT !.container = new.ref]]

\* The container of the context was changed: a new one takes its place in both.
AddCached(s, context, new) ==
  IF new.ref = context.container THEN [s |-> [s EXCEPT !.h = new.h], context |-> context]
  ELSE [s |-> ra_set_container_at_index(
                [s EXCEPT !.h = container_free(new.h, context.container, context.typecode)],
                context.idx, new.ref, new.type),
        context |-> [context EXCEPT !.container = new.ref, !.typecode = new.type]]

add_bulk_impl(s, context, val) ==
  IF context.container = NullRef \/ context.key # High(val)
  THEN Remember(context, containerptr_roaring_bitmap_add(s, val), val)
  ELSE AddCached(s, context,
                 container_add(s.h, context.container, Low(val), context.typecode))

\* The first value is added once more by the loop.
roaring_bitmap_add_many(s, vals) ==
  FoldLeft(LAMBDA t, val : add_bulk_impl(t.s, t.context, val),
           Remember(ZeroContext, containerptr_roaring_bitmap_add(s, Head(vals)), Head(vals)),
           vals).s

\* The search goes on from the last container when the key is larger.
roaring_bitmap_contains_bulk(s, context, val) ==
  LET start == IF context.container # NullRef /\ context.key < High(val)
               THEN context.idx ELSE -1
      idx == ra_advance_until(s.ra, High(val), start)
      e == s.ra[idx + 1]
      seek == context.container = NullRef \/ context.key # High(val)
      now == IF seek THEN [context EXCEPT !.container = e.ref, !.typecode = e.type,
                                          !.idx = idx, !.key = e.key]
             ELSE context
  IN  IF seek /\ idx = Len(s.ra) THEN [h |-> s.h, context |-> context, found |-> FALSE]
      ELSE [h |-> Touch(s.h, now.container), context |-> now,
            found |-> now.key = High(val) /\ Low(val) \in Values(s.h, now.container)]
-----------------------------------------------------------------------------
Init == /\ heap = EmptyHeap
        /\ bitmaps = [b \in Bitmaps |-> <<>>]
        /\ contexts = [b \in Bitmaps |-> ZeroContext]
        /\ members = [b \in Bitmaps |-> {}]
        /\ cow \in BOOLEAN
        /\ steps = 0

State(b) == [h |-> heap, ra |-> bitmaps[b]]
Step == /\ steps < MaxSteps /\ steps' = steps + 1 /\ UNCHANGED cow
        /\ ~heap.touched

\* A call that changes a bitmap without its context invalidates the context.
Changed(b, s, set) == /\ Step
                      /\ heap' = s.h
                      /\ bitmaps' = [bitmaps EXCEPT ![b] = s.ra]
                      /\ members' = [members EXCEPT ![b] = set]
                      /\ contexts' = [contexts EXCEPT ![b] = ZeroContext]

AddOne(b, v) == Changed(b, roaring_bitmap_add(State(b), v), members[b] \cup {v})
RemoveOne(b, v) == Changed(b, roaring_bitmap_remove(State(b), v), members[b] \ {v})
AddMany(b, v, w) ==
  Changed(b, roaring_bitmap_add_many(State(b), <<v, w>>), members[b] \cup {v, w})
RemoveMany(b, v, w) ==
  Changed(b, roaring_bitmap_remove_many(State(b), <<v, w>>), members[b] \ {v, w})

\* The caller starts with a context of zeroes, unless it may keep the one it has.
Context(b, use) ==
  LET c == contexts[b]
  IN  IF c.use \in {"none", use} \/ ~cow \/ MixedWhenShared
      THEN [c EXCEPT !.use = use] ELSE [ZeroContext EXCEPT !.use = use]

AddedBulk(b, v, done) ==
  /\ Step
  /\ heap' = done.s.h
  /\ bitmaps' = [bitmaps EXCEPT ![b] = done.s.ra]
  /\ members' = [members EXCEPT ![b] = @ \cup {v}]
  /\ contexts' = [contexts EXCEPT ![b] = done.context]

AddBulk(b, v) == AddedBulk(b, v, add_bulk_impl(State(b), Context(b, "add"), v))

Searched(b, done) == /\ Step
                     /\ heap' = done.h
                     /\ contexts' = [contexts EXCEPT ![b] = done.context]
                     /\ UNCHANGED <<bitmaps, members>>

ContainsBulk(b, v) ==
  Searched(b, roaring_bitmap_contains_bulk(State(b), Context(b, "search"), v))

\* roaring_bitmap_overwrite: ra_overwrite frees what b had and turns the
\* containers of a into shared ones, or clones them.
ShareEntry(s, key, c) == [h |-> c.h, ra |-> Append(s.ra, Entry(key, c.ref, c.type))]

ra_overwrite ==
  LET cleared == FoldLeft(LAMBDA h, e : container_free(h, e.ref, e.type), heap, bitmaps["b"])
  IN  FoldLeft(LAMBDA s, e : ShareEntry(s, e.key,
                               get_copy_of_container(s.h, e.ref, e.type, cow)),
               [h |-> cleared, ra |-> <<>>], bitmaps["a"])

Overwritten(done) ==
  /\ Step
  /\ heap' = done.h
  /\ bitmaps' = [bitmaps EXCEPT !["b"] = done.ra, !["a"] = IF cow THEN done.ra ELSE @]
  /\ members' = [members EXCEPT !["b"] = members["a"]]
  /\ contexts' = [contexts EXCEPT !["b"] = ZeroContext,
                                  !["a"] = IF cow /\ ~KeptOverCopy THEN ZeroContext ELSE @]

Overwrite == Overwritten(ra_overwrite)

Next == \/ \E b \in Bitmaps, v \in Universe :
             AddOne(b, v) \/ RemoveOne(b, v) \/ AddBulk(b, v) \/ ContainsBulk(b, v)
        \/ \E b \in Bitmaps, v, w \in Universe : AddMany(b, v, w) \/ RemoveMany(b, v, w)
        \/ Overwrite

Spec == Init /\ [][Next]_vars
-----------------------------------------------------------------------------
Contents(b) ==
  UNION { { e.key * ChunkSize + v : v \in Values(heap, e.ref) } : e \in ToSet(bitmaps[b]) }

\* Each bitmap holds what the calls on it have put there, whatever the calls on
\* the other one did, and no container is empty (add_bulk_impl,
\* roaring_bitmap_add_many, roaring_bitmap_remove_many).
HoldsMembers ==
  \A b \in Bitmaps : /\ Contents(b) = members[b]
                     /\ \A e \in ToSet(bitmaps[b]) : Values(heap, e.ref) # {}

\* No call uses a container after it was freed, and each object that is alive is
\* owned: an entry of a bitmap holds it, or a shared container does whose counter
\* is the number of its entries.
NothingDangles == Owned(heap, bitmaps)

\* A context that is still valid points at the container that its bitmap holds
\* for the key, at that index and with that type.
ContextCurrent ==
  \A b \in Bitmaps :
    LET c == contexts[b]
    IN  c.container # NullRef =>
          /\ c.idx < Len(bitmaps[b])
          /\ bitmaps[b][c.idx + 1] = Entry(c.key, c.container, c.typecode)

\* A search that goes on from the container of the last one finds what a new
\* search would find (roaring_bitmap_contains_bulk).
BulkSearchAgrees ==
  \A b \in Bitmaps, v \in Universe :
    roaring_bitmap_contains_bulk(State(b), Context(b, "search"), v).found = (v \in members[b])
=============================================================================
