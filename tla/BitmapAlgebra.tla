--------------------------- MODULE BitmapAlgebra ---------------------------
(***************************************************************************)
(* Three bitmaps and the set operations between them, with and without     *)
(* copy-on-write.  The first two start with any containers on a few keys;  *)
(* the third may be a copy of either, so that operands come shared, and it *)
(* receives every result.  The sets that the calls are documented to build *)
(* are kept in lockstep.                                                   *)
(***************************************************************************)
EXTENDS BitmapQueries

CONSTANTS KeyCount,       \* 2^16 in the code
          Chunks,         \* what a chunk may hold at first; {} stands for no entry
          ChainKeys,      \* bound: only bitmaps on these first keys see more than one call
          MaxSteps,       \* bound: how many calls are made on those
          FlagKept,       \* the caller turns on the COW flag of the answers it gets
          KeysMayFail     \* a key array may fail to grow

AlgebraAssumption ==
  /\ KeyCount \in Nat \ {0} /\ ChainKeys \in 0 .. KeyCount /\ MaxSteps \in Nat \ {0}
  /\ Chunks \subseteq SUBSET (0 .. ChunkSize - 1)
  /\ FlagKept \in BOOLEAN /\ KeysMayFail \in BOOLEAN

VARIABLES heap,      \* the containers
          bitmaps,   \* the bitmaps [ra, cow]
          members,   \* the sets that they should hold
          cow,       \* whether the program uses copy-on-write
          steps,     \* how many calls were made
          limit      \* how many calls may be made

vars == <<heap, bitmaps, members, cow, steps, limit>>

Bitmaps == 1 .. 3
Result == 3
Keys == 0 .. KeyCount - 1
Universe == 0 .. KeyCount * ChunkSize - 1

State == [h |-> heap, bm |-> bitmaps]

\* Objects are numbered in the order in which the bitmaps reach them, so that
\* the history does not tell apart states that the program cannot.
Renumbered(s) ==
  LET entries == Ra(s, 1) \o Ra(s, 2) \o Ra(s, 3)
      refs == [i \in DOMAIN entries |-> entries[i].ref]
              \o [i \in DOMAIN entries |-> Target(s.h, entries[i])]
              \o [i \in DOMAIN s.h.objs |-> i]
      order == [r \in { q \in DOMAIN s.h.objs : Alive(s.h, q) } |->
                  Min({ i \in DOMAIN refs : refs[i] = r })]
      number == [r \in 0 .. Len(s.h.objs) |->
                   IF r \in DOMAIN order
                   THEN Cardinality({ q \in DOMAIN order : order[q] <= order[r] }) ELSE NullRef]
      old == [n \in 1 .. Cardinality(DOMAIN order) |-> CHOOSE r \in DOMAIN order : number[r] = n]
      moved(obj) == IF obj.type = "shared" THEN [obj EXCEPT !.inner = number[@]] ELSE obj
  IN  [h |-> [s.h EXCEPT !.objs = [n \in DOMAIN old |-> moved(s.h.objs[old[n]])]],
       bm |-> [x \in Bitmaps |->
                 [s.bm[x] EXCEPT !.ra = [i \in DOMAIN @ |-> [@[i] EXCEPT !.ref = number[@]]]]]]

\* A bitmap with a container for each key that has values.
Built(s, x, chunks) ==
  LET c(h, key) == Store(h, BitsetOrArray(BitsetOf(chunks[key])))
  IN  FoldLeft(LAMBDA t, key : IF chunks[key] = {} THEN t ELSE ra_append(t, x, key, c(t.h, key)),
               s, Indexes(0, KeyCount))
SetOf(chunks) == UNION { { key * ChunkSize + v : v \in chunks[key] } : key \in Keys }

\* Whether the bitmaps are on the first keys alone.
Chained(chunks1, chunks2) == \A key \in ChainKeys .. KeyCount - 1 :
                               chunks1[key] = {} /\ chunks2[key] = {}

Init ==
  \E chunks1, chunks2 \in [Keys -> Chunks], flag \in BOOLEAN :
  \E copied \in IF Chained(chunks1, chunks2) THEN 0 .. 2 ELSE {0} :
    LET empty == [ra |-> <<>>, cow |-> flag]
        none == [h |-> EmptyHeap, bm |-> <<empty, empty, empty>>]
        two == Built(Built(none, 1, chunks1), 2, chunks2)
        s == IF copied = 0 THEN two ELSE roaring_bitmap_overwrite(two, 3, copied, NoFailure).s
        sets == <<SetOf(chunks1), SetOf(chunks2)>>
    IN  /\ heap = Renumbered(s).h
        /\ bitmaps = Renumbered(s).bm
        /\ members = Append(sets, IF copied = 0 THEN {} ELSE sets[copied])
        /\ cow = flag
        /\ steps = 0
        /\ limit = IF Chained(chunks1, chunks2) THEN MaxSteps ELSE 1
-----------------------------------------------------------------------------
(* Calls.                                                                  *)

Become(s, sets) == /\ steps < limit /\ steps' = steps + 1 /\ UNCHANGED limit
                   /\ heap' = s.h /\ bitmaps' = s.bm
                   /\ members' = sets
Finish(s, sets) == Become(Renumbered(s), sets)

\* The answer takes the place of the third bitmap, which is freed.
Assign(r, set) ==
  LET freed == roaring_bitmap_free(r.s, Result)
      assigned == [freed EXCEPT !.bm[Result] = freed.bm[r.x]]
  IN  /\ Finish(IF FlagKept THEN roaring_bitmap_set_copy_on_write(assigned, Result, cow)
                ELSE assigned, [members EXCEPT ![Result] = set])
      /\ UNCHANGED cow

And(x1, x2) == Assign(roaring_bitmap_and(State, x1, x2), members[x1] \cap members[x2])
Or(x1, x2) == Assign(roaring_bitmap_or(State, x1, x2), members[x1] \cup members[x2])
Xor(x1, x2) == Assign(roaring_bitmap_xor(State, x1, x2), SymDiff(members[x1], members[x2]))
Andnot(x1, x2) == Assign(roaring_bitmap_andnot(State, x1, x2), members[x1] \ members[x2])

Changed(s, x, set) == Finish(s, [members EXCEPT ![x] = set]) /\ UNCHANGED cow

AndInplace(x1, x2, reuse) ==
  Changed(roaring_bitmap_and_inplace(State, x1, x2, reuse), x1, members[x1] \cap members[x2])
OrInplace(x1, x2, reuse) ==
  Changed(roaring_bitmap_or_inplace(State, x1, x2, reuse), x1, members[x1] \cup members[x2])
\* These two assert that the bitmaps differ.
XorInplace(x1, x2, reuse) ==
  Changed(roaring_bitmap_xor_inplace(State, x1, x2, reuse), x1, SymDiff(members[x1], members[x2]))
AndnotInplace(x1, x2, reuse) ==
  Changed(roaring_bitmap_andnot_inplace(State, x1, x2, reuse), x1, members[x1] \ members[x2])

OrMany(xs, reuse) ==
  Assign(roaring_bitmap_or_many(State, xs, reuse), UNION { members[x] : x \in ToSet(xs) })
XorMany(xs, reuse) ==
  Assign(roaring_bitmap_xor_many(State, xs, reuse), FoldLeft(SymDiff, {}, [i \in DOMAIN xs |-> members[xs[i]]]))
OrManyHeap(xs, reuse) ==
  Assign(roaring_bitmap_or_many_heap(State, xs, reuse), UNION { members[x] : x \in ToSet(xs) })

\* A copy that fails leaves nothing, and a bitmap that could not be overwritten
\* is empty.
Copy(x, failing) ==
  /\ \/ failing = NoFailure
     \/ ~cow /\ failing \in 0 .. Size(State, x) - 1
  /\ Assign(roaring_bitmap_copy(State, x, failing), IF failing = NoFailure THEN members[x] ELSE {})
Overwrite(dest, src, failing) ==
  /\ \/ failing = NoFailure
     \/ ~cow /\ failing \in 0 .. Size(State, src) - 1
     \/ KeysMayFail /\ failing = KeysFail /\ Size(State, dest) < Size(State, src)
  /\ Changed(roaring_bitmap_overwrite(State, dest, src, failing).s, dest,
             IF failing = NoFailure THEN members[src] ELSE {})

Clear(x) == Changed(roaring_bitmap_clear(State, x), x, {})

\* The program gives up copy-on-write for all its bitmaps.
TurnCowOff ==
  /\ cow /\ cow' = FALSE
  /\ Finish(FoldLeft(LAMBDA t, x : roaring_bitmap_set_copy_on_write(t, x, FALSE),
                     State, <<1, 2, 3>>), members)

\* Enough bitmaps for two temporary ones to meet in the heap.
Lists == {<<>>, <<2>>, <<1, 2>>, <<2, 3, 1>>, <<2, 3, 2, 3>>, <<3, 1, 2, 3>>}

PairCall ==
  \E x1, x2 \in Bitmaps : And(x1, x2) \/ Or(x1, x2) \/ Xor(x1, x2) \/ Andnot(x1, x2)
InplaceCall ==
  \E x1, x2 \in Bitmaps, reuse \in BOOLEAN :
    \/ AndInplace(x1, x2, reuse)
    \/ x1 # x2 /\ (OrInplace(x1, x2, reuse) \/ AndnotInplace(x1, x2, reuse))
XorInplaceCall ==
  \E x1, x2 \in Bitmaps, reuse \in BOOLEAN : x1 # x2 /\ XorInplace(x1, x2, reuse)
ManyCall == \E xs \in Lists, reuse \in BOOLEAN : OrMany(xs, reuse) \/ XorMany(xs, reuse)
HeapCall == \E xs \in Lists, reuse \in BOOLEAN : OrManyHeap(xs, reuse)
SingleCall ==
  \/ \E x, y \in Bitmaps, failing \in -2 .. KeyCount - 1 :
       Copy(x, failing) \/ (x # y /\ Overwrite(x, y, failing))
  \/ \E x \in Bitmaps : Clear(x)
  \/ TurnCowOff

Next == PairCall \/ InplaceCall \/ XorInplaceCall \/ ManyCall \/ HeapCall \/ SingleCall

Spec == Init /\ [][Next]_vars
-----------------------------------------------------------------------------
Contents(x) ==
  UNION { { e.key * ChunkSize + v : v \in Elements(Read(heap, e)) } : e \in ToSet(Ra(State, x)) }

\* roaring_bitmap_internal_validate, but for the flag.
Valid(x) ==
  /\ \A i \in 1 .. Size(State, x) - 1 : Ra(State, x)[i].key < Ra(State, x)[i + 1].key
  /\ \A e \in ToSet(Ra(State, x)) :
       /\ container_internal_validate(Read(heap, e))
       /\ e.type = Object(heap, e.ref).type

\* Every bitmap holds the set that the calls are documented to build, whatever
\* it shares with the others, its keys ascend, and its containers are the ones
\* that roaring_bitmap_internal_validate accepts.
HoldsMembers == \A x \in Bitmaps : Contents(x) = members[x] /\ Valid(x)

\* No container is used after it was freed, none is lost, and each shared one
\* counts the entries that hold it: every call frees, moves or shares exactly
\* what it took.
NothingDangles == Owned(heap, [x \in Bitmaps |-> bitmaps[x].ra])

\* roaring_bitmap_internal_validate: shared containers are only used when the
\* bitmap is COW.
SharedOnlyInCow ==
  \A x \in Bitmaps : ~bitmaps[x].cow => \A e \in ToSet(Ra(State, x)) : e.type # "shared"

-----------------------------------------------------------------------------
\* The queries are about the bitmaps alone: they are checked before any call, where
\* a copy shares its containers and a bitmap that was not copied has its own.
BeforeCalls == steps = 0 /\ cow

\* Queries on one bitmap agree with its set: counts, ranks, positions, ends
\* (roaring_bitmap_rank, _rank_many, _get_index, _select, _minimum, _maximum).
SingleQueriesAgree ==
  BeforeCalls => \A bm \in Bitmaps :
    LET set == members[bm]
        rank(x) == Cardinality({ v \in set : v <= x })
    IN  /\ roaring_bitmap_get_cardinality(State, bm) = Cardinality(set)
        /\ roaring_bitmap_minimum(State, bm) = IF set = {} THEN NoValue ELSE Min(set)
        /\ roaring_bitmap_maximum(State, bm) = IF set = {} THEN 0 ELSE Max(set)
        /\ \A x \in Universe :
             /\ roaring_bitmap_rank(State, bm, x) = rank(x)
             /\ roaring_bitmap_get_index(State, bm, x) = IF x \in set THEN rank(x) - 1 ELSE -1
             /\ LET v == roaring_bitmap_select(State, bm, x)
                IN  IF x < Cardinality(set) THEN v \in set /\ rank(v) = x + 1 ELSE v = NoValue
             /\ LET xs == Indexes(x, KeyCount * ChunkSize)
                IN  roaring_bitmap_rank_many(State, bm, xs) = [i \in DOMAIN xs |-> rank(xs[i])]

\* Queries on two bitmaps agree with their sets, however the keys interleave
\* (roaring_bitmap_equals, _is_subset, _intersect, _and_cardinality).
PairQueriesAgree ==
  BeforeCalls => \A x1, x2 \in Bitmaps :
    LET m1 == members[x1]
        m2 == members[x2]
    IN  /\ roaring_bitmap_equals(State, x1, x2) <=> m1 = m2
        /\ roaring_bitmap_is_subset(State, x1, x2) <=> m1 \subseteq m2
        /\ roaring_bitmap_is_strict_subset(State, x1, x2) <=> m1 \subseteq m2 /\ m1 # m2
        /\ roaring_bitmap_intersect(State, x1, x2) <=> m1 \cap m2 # {}
        /\ roaring_bitmap_and_cardinality(State, x1, x2) = Cardinality(m1 \cap m2)
        /\ roaring_bitmap_or_cardinality(State, x1, x2) = Cardinality(m1 \cup m2)
        /\ roaring_bitmap_andnot_cardinality(State, x1, x2) = Cardinality(m1 \ m2)
        /\ roaring_bitmap_xor_cardinality(State, x1, x2) = Cardinality(SymDiff(m1, m2))

\* The heap of roaring_bitmap_or_many_heap gives its elements in the order of
\* their sizes, also after one was put back (create_pq, pq_poll, pq_add).
PollsSmallest ==
  LET RECURSIVE sizes(_)
      sizes(pq) == IF pq = <<>> THEN <<>>
                   ELSE LET p == pq_poll(pq) IN <<p.top.size>> \o sizes(p.rest)
      ascending(list) == \A i \in 1 .. Len(list) - 1 : list[i] <= list[i + 1]
  IN  BeforeCalls => \A a, b, c, d \in Bitmaps :
        LET pq == create_pq(State, <<a, b, c, d, a>>)
            back == pq_add(pq_poll(pq).rest, pq[Len(pq)])
        IN  ascending(sizes(pq)) /\ ascending(sizes(back))
=============================================================================
