--------------------------- MODULE SetOperations ---------------------------
(***************************************************************************)
(* The operations of roaring.c on two and on many bitmaps: how the key     *)
(* arrays are merged, which containers are computed, copied, shared or     *)
(* moved, and who frees which (roaring_priority_queue.c included).  What   *)
(* is computed from two containers is Container's.                         *)
(*                                                                         *)
(* A state is [h, bm]: the heap and the bitmaps [ra, cow].  A bitmap is    *)
(* its index in bm; temporary bitmaps are appended.  Whether a function in *)
(* place can keep the memory of its first container when the type stays is *)
(* left open: reuse.                                                       *)
(***************************************************************************)
EXTENDS ContainerHeap, ContainerQueries

Ra(s, x) == s.bm[x].ra
is_cow(s, x) == s.bm[x].cow
Size(s, x) == Len(Ra(s, x))
At(s, x, i) == Ra(s, x)[i + 1]
KeyAt(s, x, i) == At(s, x, i).key

\* The container of an entry; what a dangling pointer reads is of no interest.
Target(h, e) == IF e.type = "shared" /\ Alive(h, e.ref) THEN Object(h, e.ref).inner ELSE e.ref
Read(h, e) == IF Alive(h, Target(h, e)) THEN Object(h, Target(h, e)) ELSE Array({}, 0)
Uses(h, e) == Touch(h, Target(h, e))

roaring_bitmap_create(s, cow) == [s EXCEPT !.bm = Append(@, [ra |-> <<>>, cow |-> cow])]
Newest(s) == Len(s.bm)
Answer(s) == [s |-> s, x |-> Newest(s)]
-----------------------------------------------------------------------------
(* The key array.                                                          *)

ra_append(s, x, key, c) ==
  [h |-> c.h, bm |-> [s.bm EXCEPT ![x].ra = Append(@, Entry(key, c.ref, c.type))]]

ra_set_container_at_index(s, x, i, c) ==
  [h |-> c.h, bm |-> [s.bm EXCEPT ![x].ra[i + 1].ref = c.ref, ![x].ra[i + 1].type = c.type]]

ra_replace_key_and_container_at_index(s, x, i, key, c) ==
  [h |-> c.h, bm |-> [s.bm EXCEPT ![x].ra[i + 1] = Entry(key, c.ref, c.type)]]

ra_insert_new_key_value_at(s, x, i, key, c) ==
  [h |-> c.h, bm |-> [s.bm EXCEPT ![x].ra = InsertAt(@, i + 1, Entry(key, c.ref, c.type))]]

ra_remove_at_index(s, x, i) == [s EXCEPT !.bm[x].ra = RemoveAt(@, i + 1)]
ra_downsize(s, x, new_length) == [s EXCEPT !.bm[x].ra = SubSeq(@, 1, new_length)]
ra_copy_range(s, x, begin, end, new_begin) ==
  [s EXCEPT !.bm[x].ra = SubSeq(@, 1, new_begin) \o SubSeq(@, begin + 1, end)
                          \o SubSeq(@, new_begin + end - begin + 1, Len(@))]

Freeing(h, e) == container_free(h, e.ref, e.type)
FreeRange(s, x, begin, end) ==
  [s EXCEPT !.h = FoldLeft(Freeing, @, SubSeq(Ra(s, x), begin + 1, end))]
ra_clear_containers(s, x) == FreeRange(s, x, 0, Size(s, x))
ra_clear_without_containers(s, x) == [s EXCEPT !.bm[x].ra = <<>>]
roaring_bitmap_free(s, x) == ra_clear_without_containers(ra_clear_containers(s, x), x)
roaring_bitmap_clear(s, x) == roaring_bitmap_free(s, x)

\* Mutant: skipped entries are forgotten.
ra_advance_until_freeing_Leaks(s, x, key, pos) ==
  LET later == { i \in pos .. Size(s, x) - 1 : KeyAt(s, x, i) >= key }
  IN  [s |-> s, pos |-> IF later = {} THEN Size(s, x) ELSE Min(later)]

\* Skipped entries are freed: [s, pos].
ra_advance_until_freeing(s, x, key, pos) ==
  LET later == { i \in pos .. Size(s, x) - 1 : KeyAt(s, x, i) >= key }
      next == IF later = {} THEN Size(s, x) ELSE Min(later)
  IN  [s |-> FreeRange(s, x, pos, next), pos |-> next]

\* A shared container is not cloned.
container_clone(h, e) ==
  LET made == New(h, Object(h, e.ref))
  IN  IF e.type = "shared" THEN Handle(h, NullRef, e.type)
      ELSE Handle(made.h, made.ref, e.type)

\* Entry i of x is put behind dest: x is told when it has become shared.
Told(s, x, i, c) == IF is_cow(s, x) THEN ra_set_container_at_index(s, x, i, c) ELSE s
CopyOf(s, x, e) == get_copy_of_container(s.h, e.ref, e.type, is_cow(s, x))
AppendTold(s, dest, x, i, c) == ra_append(Told(s, x, i, c), dest, KeyAt(s, x, i), c)
CopyAt(s, dest, x, i) == AppendTold(s, dest, x, i, CopyOf(s, x, At(s, x, i)))

ra_append_copy(s, dest, x, i) ==
  IF is_cow(s, x) THEN CopyAt(s, dest, x, i)
  ELSE ra_append(s, dest, KeyAt(s, x, i), container_clone(s.h, At(s, x, i)))

Indexes(begin, end) == [k \in 1 .. end - begin |-> begin + k - 1]

ra_append_copy_range(s, dest, x, begin, end) ==
  FoldLeft(LAMBDA t, i : ra_append_copy(t, dest, x, i), s, Indexes(begin, end))

ra_append_move_range(s, dest, x, begin, end) ==
  [s EXCEPT !.bm[dest].ra = @ \o SubSeq(Ra(s, x), begin + 1, end)]

ra_unshare_container_at_index(s, x, i) ==
  ra_set_container_at_index(s, x, i,
    get_writable_copy_if_shared(s.h, At(s, x, i).ref, At(s, x, i).type))

roaring_unshare_all(s, x) ==
  FoldLeft(LAMBDA t, i : ra_unshare_container_at_index(t, x, i), s, Indexes(0, Size(s, x)))

\* Mutant: the flag is cleared and the containers stay shared.
roaring_bitmap_set_copy_on_write_StaysShared(s, x, cow) == [s EXCEPT !.bm[x].cow = cow]

roaring_bitmap_set_copy_on_write(s, x, cow) ==
  [IF is_cow(s, x) /\ ~cow THEN roaring_unshare_all(s, x) ELSE s EXCEPT !.bm[x].cow = cow]
-----------------------------------------------------------------------------
(* Copies.  failing says which allocation fails: none, the one of the key  *)
(* array, or the clone at an index.                                        *)

NoFailure == -1
KeysFail == -2

\* On failure dest is empty, or what it was if it is the key array that failed.
\* A shared container in a bitmap without copy-on-write fails, too.
OverwriteCleared(s, cleared, source, dest, failing) ==
  LET empty == ra_clear_without_containers(cleared, dest)
      copied(n) == ra_append_copy_range(empty, dest, source, 0, n)
      failures == { i \in 0 .. Size(s, source) - 1 :
                      \/ i = failing
                      \/ ~is_cow(s, source) /\ At(s, source, i).type = "shared" }
  IN  IF Size(s, source) > 0 /\ failing = KeysFail THEN [s |-> cleared, ok |-> FALSE]
      ELSE IF failures # {}
           THEN [s |-> roaring_bitmap_free(copied(Min(failures)), dest), ok |-> FALSE]
      ELSE [s |-> copied(Size(s, source)), ok |-> TRUE]

ra_overwrite(s, source, dest, failing) ==
  OverwriteCleared(s, ra_clear_containers(s, dest), source, dest, failing)

roaring_bitmap_overwrite(s, dest, src, failing) ==
  ra_overwrite(roaring_bitmap_set_copy_on_write(s, dest, is_cow(s, src)), src, dest, failing)

\* The copy is the newest bitmap, an empty one that is freed if it failed.
CopyDone(done, x, cow) ==
  Answer(IF done.ok THEN roaring_bitmap_set_copy_on_write(done.s, x, cow)
         ELSE roaring_bitmap_free(done.s, x))

roaring_bitmap_copy(s, r, failing) ==
  LET made == roaring_bitmap_create(s, FALSE)
  IN  CopyDone(ra_overwrite(made, r, Newest(made), failing), Newest(made), is_cow(s, r))

Copied(s, r) == roaring_bitmap_copy(s, r, NoFailure)
-----------------------------------------------------------------------------
(* Two containers.                                                         *)

\* roaring_bitmap_lazy_or with bitsetconversion.
LazyOrAsBitset(c1, c2) ==
  IF ~IsBitset(c1) /\ ~IsBitset(c2) THEN container_lazy_ior(container_to_bitset(c1), c2)
  ELSE container_lazy_or(c1, c2)

Store(h, c) == LET made == New(h, c) IN Handle(made.h, made.ref, c.type)

\* What Op computes from two containers, as a new object.
NewResult(h, Op(_, _), e1, e2) ==
  Store(Uses(Uses(h, e1), e2), Op(Read(h, e1), Read(h, e2)))

\* The first container makes room for the result: in place (IOp) unless it is
\* shared, freed if the result is another object.
Replaced(e, new) == Handle(Freeing(new.h, e), new.ref, new.type)
UpdatedAs(h, e, c, reuse) ==
  IF reuse /\ c.type = e.type THEN Handle(Write(h, e.ref, c), e.ref, e.type)
  ELSE Replaced(e, Store(h, c))
Updated(h, IOp(_, _), Op(_, _), e1, e2, reuse) ==
  IF e1.type = "shared" THEN Replaced(e1, NewResult(h, Op, e1, e2))
  ELSE UpdatedAs(Uses(Uses(h, e1), e2), e1, IOp(Read(h, e1), Read(h, e2)), reuse)

IAnd(h, e1, e2, reuse) == Updated(h, container_iand, container_and, e1, e2, reuse)
IAndnot(h, e1, e2, reuse) == Updated(h, container_iandnot, container_andnot, e1, e2, reuse)
IOr(h, e1, e2, reuse) == Updated(h, container_ior, container_or, e1, e2, reuse)
IXor(h, e1, e2, reuse) == Updated(h, container_ixor, container_xor, e1, e2, reuse)
LazyIOr(h, e1, e2, reuse) == Updated(h, container_lazy_ior, container_lazy_or, e1, e2, reuse)
LazyIXor(h, e1, e2, reuse) == Updated(h, container_lazy_ixor, container_lazy_xor, e1, e2, reuse)

Nonzero(c) == container_nonzero_cardinality(Object(c.h, c.ref))
Dropped(s, c) == [s EXCEPT !.h = container_free(c.h, c.ref, c.type)]
AppendUnlessEmpty(s, x, key, c) == IF Nonzero(c) THEN ra_append(s, x, key, c) ELSE Dropped(s, c)
-----------------------------------------------------------------------------
(* Two bitmaps, into a new one.                                            *)

roaring_bitmap_and(s, x1, x2) ==
  LET made == roaring_bitmap_create(s, is_cow(s, x1) \/ is_cow(s, x2))
      answer == Newest(made)
      RECURSIVE walk(_, _, _)
      walk(t, pos1, pos2) ==
        LET s1 == KeyAt(t, x1, pos1)
            s2 == KeyAt(t, x2, pos2)
        IN  IF pos1 >= Size(t, x1) \/ pos2 >= Size(t, x2) THEN t
            ELSE IF s1 = s2
                 THEN walk(AppendUnlessEmpty(t, answer, s1,
                             NewResult(t.h, container_and, At(t, x1, pos1), At(t, x2, pos2))),
                           pos1 + 1, pos2 + 1)
            ELSE IF s1 < s2 THEN walk(t, ra_advance_until(Ra(t, x1), s2, pos1), pos2)
            ELSE walk(t, pos1, ra_advance_until(Ra(t, x2), s1, pos2))
  IN  Answer(walk(made, 0, 0))

\* roaring_bitmap_or, _xor, _lazy_or and _lazy_xor: what only one of them has is
\* copied, the rest of the longer one at the end.
MergeInto(s, Op(_, _), may_vanish, x1, x2) ==
  LET made == roaring_bitmap_create(s, is_cow(s, x1) \/ is_cow(s, x2))
      answer == Newest(made)
      length1 == Size(s, x1)
      length2 == Size(s, x2)
      RECURSIVE walk(_, _, _)
      walk(t, pos1, pos2) ==
        LET s1 == KeyAt(t, x1, pos1)
            s2 == KeyAt(t, x2, pos2)
            both == NewResult(t.h, Op, At(t, x1, pos1), At(t, x2, pos2))
        IN  IF pos1 = length1 THEN ra_append_copy_range(t, answer, x2, pos2, length2)
            ELSE IF pos2 = length2 THEN ra_append_copy_range(t, answer, x1, pos1, length1)
            ELSE IF s1 = s2
                 THEN walk(IF may_vanish
                           THEN AppendUnlessEmpty(t, answer, s1, both)
                           ELSE ra_append(t, answer, s1, both), pos1 + 1, pos2 + 1)
            ELSE IF s1 < s2 THEN walk(CopyAt(t, answer, x1, pos1), pos1 + 1, pos2)
            ELSE walk(CopyAt(t, answer, x2, pos2), pos1, pos2 + 1)
  IN  IF length1 = 0 THEN Copied(s, x2)
      ELSE IF length2 = 0 THEN Copied(s, x1)
      ELSE Answer(walk(made, 0, 0))

roaring_bitmap_or(s, x1, x2) == MergeInto(s, container_or, FALSE, x1, x2)
roaring_bitmap_xor(s, x1, x2) == MergeInto(s, container_xor, TRUE, x1, x2)
roaring_bitmap_lazy_or(s, x1, x2, bitsetconversion) ==
  IF bitsetconversion THEN MergeInto(s, LazyOrAsBitset, FALSE, x1, x2)
  ELSE MergeInto(s, container_lazy_or, FALSE, x1, x2)
roaring_bitmap_lazy_xor(s, x1, x2) == MergeInto(s, container_lazy_xor, TRUE, x1, x2)

roaring_bitmap_andnot(s, x1, x2) ==
  LET made == roaring_bitmap_create(s, is_cow(s, x1) \/ is_cow(s, x2))
      answer == Newest(made)
      length1 == Size(s, x1)
      RECURSIVE walk(_, _, _)
      walk(t, pos1, pos2) ==
        LET s1 == KeyAt(t, x1, pos1)
            s2 == KeyAt(t, x2, pos2)
            next1 == ra_advance_until(Ra(t, x1), s2, pos1)
        IN  IF pos1 = length1 THEN t
            ELSE IF pos2 = Size(t, x2)
                 THEN ra_append_copy_range(t, answer, x1, pos1, length1)
            ELSE IF s1 = s2
                 THEN walk(AppendUnlessEmpty(t, answer, s1,
                             NewResult(t.h, container_andnot, At(t, x1, pos1), At(t, x2, pos2))),
                           pos1 + 1, pos2 + 1)
            ELSE IF s1 < s2
                 THEN walk(ra_append_copy_range(t, answer, x1, pos1, next1), next1, pos2)
            ELSE walk(t, pos1, ra_advance_until(Ra(t, x2), s1, pos2))
  IN  IF length1 = 0 THEN Answer(made)
      ELSE IF Size(s, x2) = 0 THEN Copied(s, x1)
      ELSE Answer(walk(made, 0, 0))
-----------------------------------------------------------------------------
(* Two bitmaps, into the first.                                            *)

\* The entries of x before kept are final, the ones from pos1 are still to be
\* read: [s, kept].
Keep(s, x, kept, key, c) ==
  IF Nonzero(c) THEN [s |-> ra_replace_key_and_container_at_index(s, x, kept, key, c),
                      kept |-> kept + 1]
  ELSE [s |-> Dropped(s, c), kept |-> kept]

roaring_bitmap_and_inplace(s, x1, x2, reuse) ==
  LET length1 == Size(s, x1)
      RECURSIVE walk(_, _, _)
      walk(r, pos1, pos2) ==
        LET t == r.s
            s1 == KeyAt(t, x1, pos1)
            s2 == KeyAt(t, x2, pos2)
            skip == ra_advance_until_freeing(t, x1, s2, pos1)
        IN  IF pos1 = length1 \/ pos2 >= Size(t, x2)
            THEN ra_downsize(FreeRange(t, x1, pos1, length1), x1, r.kept)
            ELSE IF s1 = s2
                 THEN walk(Keep(t, x1, r.kept, s1,
                                IAnd(t.h, At(t, x1, pos1), At(t, x2, pos2), reuse)),
                           pos1 + 1, pos2 + 1)
            ELSE IF s1 < s2 THEN walk([r EXCEPT !.s = skip.s], skip.pos, pos2)
            ELSE walk(r, pos1, ra_advance_until(Ra(t, x2), s1, pos2))
  IN  IF x1 = x2 THEN s ELSE walk([s |-> s, kept |-> 0], 0, 0)

roaring_bitmap_andnot_inplace(s, x1, x2, reuse) ==
  LET length1 == Size(s, x1)
      rest(t, pos1, kept) ==
        ra_downsize(IF pos1 < length1 /\ pos1 > kept
                    THEN ra_copy_range(t, x1, pos1, length1, kept) ELSE t,
                    x1, kept + (length1 - pos1))
      RECURSIVE walk(_, _, _)
      walk(r, pos1, pos2) ==
        LET t == r.s
            s1 == KeyAt(t, x1, pos1)
            s2 == KeyAt(t, x2, pos2)
            e1 == At(t, x1, pos1)
        IN  IF pos1 = length1 \/ pos2 = Size(t, x2) THEN rest(t, pos1, r.kept)
            ELSE IF s1 = s2
                 THEN walk(Keep(t, x1, r.kept, s1,
                                IAndnot(t.h, e1, At(t, x2, pos2), reuse)),
                           pos1 + 1, pos2 + 1)
            ELSE IF s1 < s2
                 THEN walk([s |-> ra_replace_key_and_container_at_index(t, x1, r.kept, s1,
                                    Handle(t.h, e1.ref, e1.type)), kept |-> r.kept + 1],
                           pos1 + 1, pos2)
            ELSE walk(r, pos1, ra_advance_until(Ra(t, x2), s1, pos2))
  IN  IF Size(s, x2) = 0 THEN s
      ELSE IF length1 = 0 THEN roaring_bitmap_clear(s, x1)
      ELSE walk([s |-> s, kept |-> 0], 0, 0)

\* The key array of x1 is built anew: its first dst entries, then its entries
\* from left on merged with those of x2 from right on.
TakeOver(done, x1, merged) == [done EXCEPT !.bm[x1].ra = Ra(done, merged),
                                           !.bm[merged].ra = <<>>]

roaring_inplace_merge_bulk(s, x1, x2, dst, left, right, is_xor, reuse) ==
  LET made == roaring_bitmap_create(s, FALSE)
      merged == Newest(made)
      length1 == Size(s, x1)
      length2 == Size(s, x2)
      RECURSIVE walk(_, _, _)
      walk(t, l, r) ==
        LET e1 == At(t, x1, l)
            e2 == At(t, x2, r)
        IN  IF l = length1
            THEN IF r = length2 THEN t ELSE walk(CopyAt(t, merged, x2, r), l, r + 1)
            ELSE IF r = length2 THEN ra_append_move_range(t, merged, x1, l, length1)
            ELSE IF e1.key < e2.key
                 THEN walk(ra_append_move_range(t, merged, x1, l, l + 1), l + 1, r)
            ELSE IF e1.key > e2.key THEN walk(CopyAt(t, merged, x2, r), l, r + 1)
            ELSE walk(IF is_xor
                      THEN AppendUnlessEmpty(t, merged, e1.key, IXor(t.h, e1, e2, reuse))
                      ELSE ra_append(t, merged, e1.key,
                             IF container_is_full(Read(t.h, e1))
                             THEN Handle(t.h, e1.ref, e1.type)
                             ELSE IOr(t.h, e1, e2, reuse)), l + 1, r + 1)
  IN  TakeOver(walk(ra_append_move_range(made, merged, x1, 0, dst), left, right), x1, merged)

roaring_bitmap_or_inplace(s, x1, x2, reuse) ==
  LET length1 == Size(s, x1)
      RECURSIVE walk(_, _, _)
      walk(t, pos1, pos2) ==
        LET e1 == At(t, x1, pos1)
            e2 == At(t, x2, pos2)
        IN  IF pos1 = length1 THEN ra_append_copy_range(t, x1, x2, pos2, Size(t, x2))
            ELSE IF pos2 = Size(t, x2) THEN t
            ELSE IF e1.key = e2.key
                 THEN walk(IF container_is_full(Read(t.h, e1)) THEN t
                           ELSE ra_set_container_at_index(t, x1, pos1,
                                  IOr(t.h, e1, e2, reuse)), pos1 + 1, pos2 + 1)
            ELSE IF e1.key < e2.key THEN walk(t, pos1 + 1, pos2)
            ELSE roaring_inplace_merge_bulk(t, x1, x2, pos1, pos1, pos2, FALSE, reuse)
  IN  IF Size(s, x2) = 0 THEN s
      ELSE IF length1 = 0 THEN roaring_bitmap_overwrite(s, x1, x2, NoFailure).s
      ELSE walk(s, 0, 0)

roaring_bitmap_xor_inplace(s, x1, x2, reuse) ==
  LET length1 == Size(s, x1)
      RECURSIVE walk(_, _, _), settle(_, _, _, _)
      settle(t, pos1, pos2, c) ==
        IF Nonzero(c)
        THEN walk(ra_set_container_at_index(t, x1, pos1, c), pos1 + 1, pos2 + 1)
        ELSE roaring_inplace_merge_bulk(Dropped(t, c), x1, x2, pos1, pos1 + 1, pos2 + 1,
                                        TRUE, reuse)
      walk(t, pos1, pos2) ==
        LET e1 == At(t, x1, pos1)
            e2 == At(t, x2, pos2)
        IN  IF pos1 = length1 THEN ra_append_copy_range(t, x1, x2, pos2, Size(t, x2))
            ELSE IF pos2 = Size(t, x2) THEN t
            ELSE IF e1.key = e2.key
                 THEN settle(t, pos1, pos2, IXor(t.h, e1, e2, reuse))
            ELSE IF e1.key < e2.key THEN walk(t, pos1 + 1, pos2)
            ELSE roaring_inplace_merge_bulk(t, x1, x2, pos1, pos1, pos2, TRUE, reuse)
  IN  IF Size(s, x2) = 0 THEN s
      ELSE IF length1 = 0 THEN roaring_bitmap_overwrite(s, x1, x2, NoFailure).s
      ELSE walk(s, 0, 0)
-----------------------------------------------------------------------------
(* Lazy operations into the first, and the repair.                         *)

\* A container of x2 alone is put before entry i of x1.
InsertTold(s, x1, i, x2, j, c) ==
  ra_insert_new_key_value_at(Told(s, x2, j, c), x1, i, KeyAt(s, x2, j), c)
InsertCopyAt(s, x1, i, x2, j) == InsertTold(s, x1, i, x2, j, CopyOf(s, x2, At(s, x2, j)))

\* Mutant: a shared container is written to.
LazyTarget_Shared(h, e, bitsetconversion) ==
  IF e.type = "shared" THEN Handle(h, Object(h, e.ref).inner, Object(h, e.ref).typecode)
  ELSE Handle(h, e.ref, e.type)

\* The container that a lazy union may write: [h, ref, type].
LazyTarget(h, e, bitsetconversion) ==
  IF ~bitsetconversion \/ IsBitset(Read(h, e))
  THEN get_writable_copy_if_shared(h, e.ref, e.type)
  ELSE Replaced(e, Store(Uses(h, e), container_to_bitset(Read(h, e))))

LazyUpdated(c1, key, e2, reuse) ==
  LazyIOr(c1.h, Entry(key, c1.ref, c1.type), e2, reuse)

roaring_bitmap_lazy_or_inplace(s, x1, x2, bitsetconversion, reuse) ==
  LET RECURSIVE walk(_, _, _)
      walk(t, pos1, pos2) ==
        LET e1 == At(t, x1, pos1)
            e2 == At(t, x2, pos2)
        IN  IF pos1 = Size(t, x1) THEN ra_append_copy_range(t, x1, x2, pos2, Size(t, x2))
            ELSE IF pos2 = Size(t, x2) THEN t
            ELSE IF e1.key = e2.key
                 THEN walk(IF container_is_full(Read(t.h, e1)) THEN t
                           ELSE ra_set_container_at_index(t, x1, pos1,
                                  LazyUpdated(LazyTarget(t.h, e1, bitsetconversion), e1.key,
                                              e2, reuse)), pos1 + 1, pos2 + 1)
            ELSE IF e1.key < e2.key THEN walk(t, pos1 + 1, pos2)
            ELSE walk(InsertCopyAt(t, x1, pos1, x2, pos2), pos1 + 1, pos2 + 1)
  IN  IF Size(s, x2) = 0 THEN s
      ELSE IF Size(s, x1) = 0 THEN roaring_bitmap_overwrite(s, x1, x2, NoFailure).s
      ELSE walk(s, 0, 0)

roaring_bitmap_lazy_xor_inplace(s, x1, x2, reuse) ==
  LET RECURSIVE walk(_, _, _), settle(_, _, _, _)
      settle(t, pos1, pos2, c) ==
        IF Nonzero(c)
        THEN walk(ra_set_container_at_index(t, x1, pos1, c), pos1 + 1, pos2 + 1)
        ELSE walk(ra_remove_at_index(Dropped(t, c), x1, pos1), pos1, pos2 + 1)
      walk(t, pos1, pos2) ==
        LET e1 == At(t, x1, pos1)
            e2 == At(t, x2, pos2)
        IN  IF pos1 = Size(t, x1) THEN ra_append_copy_range(t, x1, x2, pos2, Size(t, x2))
            ELSE IF pos2 = Size(t, x2) THEN t
            ELSE IF e1.key = e2.key
                 THEN settle(t, pos1, pos2, LazyIXor(t.h, e1, e2, reuse))
            ELSE IF e1.key < e2.key THEN walk(t, pos1 + 1, pos2)
            ELSE walk(InsertCopyAt(t, x1, pos1, x2, pos2), pos1 + 1, pos2 + 1)
  IN  IF Size(s, x2) = 0 THEN s
      ELSE IF Size(s, x1) = 0 THEN roaring_bitmap_overwrite(s, x1, x2, NoFailure).s
      ELSE walk(s, 0, 0)

RepairUnshared(u, x, i) ==
  ra_set_container_at_index(u, x, i,
    UpdatedAs(u.h, At(u, x, i), container_repair_after_lazy(Read(u.h, At(u, x, i))), TRUE))
RepairAt(s, x, i) == RepairUnshared(ra_unshare_container_at_index(s, x, i), x, i)

roaring_bitmap_repair_after_lazy(s, x) ==
  FoldLeft(LAMBDA t, i : RepairAt(t, x, i), s, Indexes(0, Size(s, x)))
-----------------------------------------------------------------------------
(* Many bitmaps.                                                           *)

CROARING_LAZY_OR_BITSET_CONVERSION == TRUE

Repaired(r) == [r EXCEPT !.s = roaring_bitmap_repair_after_lazy(@, r.x)]

\* The rest of the list is added to the answer of the first two.
OrRest(first, xs, reuse) ==
  LET add(t, x) == roaring_bitmap_lazy_or_inplace(t, first.x, x,
                     CROARING_LAZY_OR_BITSET_CONVERSION, reuse)
  IN  Repaired([first EXCEPT !.s = FoldLeft(add, @, SubSeq(xs, 3, Len(xs)))])

roaring_bitmap_or_many(s, xs, reuse) ==
  LET conv == CROARING_LAZY_OR_BITSET_CONVERSION
  IN  CASE Len(xs) = 0 -> Answer(roaring_bitmap_create(s, FALSE))
        [] Len(xs) = 1 -> Copied(s, xs[1])
        [] OTHER -> OrRest(roaring_bitmap_lazy_or(s, xs[1], xs[2], conv), xs, reuse)

XorRest(first, xs, reuse) ==
  LET add(t, x) == roaring_bitmap_lazy_xor_inplace(t, first.x, x, reuse)
  IN  Repaired([first EXCEPT !.s = FoldLeft(add, @, SubSeq(xs, 3, Len(xs)))])

roaring_bitmap_xor_many(s, xs, reuse) ==
  CASE Len(xs) = 0 -> Answer(roaring_bitmap_create(s, FALSE))
    [] Len(xs) = 1 -> Copied(s, xs[1])
    [] OTHER -> XorRest(roaring_bitmap_lazy_xor(s, xs[1], xs[2]), xs, reuse)
-----------------------------------------------------------------------------
(* The heap of roaring_priority_queue.c: elements[0] is the first of the   *)
(* sequence.                                                               *)

Element(size, is_temporary, bitmap) ==
  [size |-> size, is_temporary |-> is_temporary, bitmap |-> bitmap]
compare(t1, t2) == t1.size < t2.size

roaring_bitmap_portable_size_in_bytes(s, x) ==
  LET n == Size(s, x)
      has_run == \E e \in ToSet(Ra(s, x)) : IsRun(Read(s.h, e))
      header == IF has_run THEN 4 + ((n + 7) \div 8) + (IF n < 4 THEN 4 * n ELSE 8 * n)
                ELSE 8 + 8 * n
      size(c) == CASE IsBitset(c) -> bitset_container_serialized_size_in_bytes
                   [] IsArray(c) -> array_container_serialized_size_in_bytes(c.card)
                   [] IsRun(c) -> run_container_serialized_size_in_bytes(Len(c.runs))
  IN  FoldLeft(LAMBDA sum, e : sum + size(Read(s.h, e)), header, Ra(s, x))

pq_add(pq, t) ==
  LET RECURSIVE up(_, _)
      up(es, i) ==
        LET p == (i - 1) \div 2
        IN  IF i > 0 /\ compare(t, es[p + 1]) THEN up([es EXCEPT ![i + 1] = es[p + 1]], p)
            ELSE [es EXCEPT ![i + 1] = t]
  IN  up(Append(pq, t), Len(pq))

percolate_down(pq, start) ==
  LET size == Len(pq)
      ai == pq[start + 1]
      RECURSIVE down(_, _)
      down(es, i) ==
        LET l == 2 * i + 1
            best == IF l + 1 < size /\ compare(es[l + 2], es[l + 1]) THEN l + 1 ELSE l
        IN  IF i < size \div 2 /\ compare(es[best + 1], ai)
            THEN down([es EXCEPT ![i + 1] = es[best + 1]], best)
            ELSE [es EXCEPT ![i + 1] = ai]
  IN  down(pq, start)

create_pq(s, xs) ==
  LET add(es, x) ==
        Append(es, Element(roaring_bitmap_portable_size_in_bytes(s, x), FALSE, x))
      elements == FoldLeft(add, <<>>, xs)
      half == Len(xs) \div 2
  IN  FoldLeft(percolate_down, elements, [k \in 1 .. half + 1 |-> half + 1 - k])

pq_poll(pq) ==
  [top |-> Head(pq),
   rest |-> IF Len(pq) = 1 THEN <<>>
            ELSE percolate_down(<<Last(pq)>> \o SubSeq(pq, 2, Len(pq) - 1), 0)]

\* Both inputs are consumed: their containers move to the answer.
Consumed(t, x) == ra_clear_without_containers(t, x)

FreeOther(c, e) == Handle(Freeing(c.h, e), c.ref, c.type)

\* The second of two containers goes into the first, and is freed.
AppendUnion(u, answer, into, from, reuse) ==
  ra_append(u, answer, into.key, FreeOther(LazyIOr(u.h, into, from, reuse), from))

\* Both are unshared already; a bitset is the one that is kept.
UniteUnshared(u, answer, e1, e2, reuse) ==
  LET swap == e2.type = "bitset" /\ e1.type # "bitset"
  IN  AppendUnion(u, answer, IF swap THEN e2 ELSE e1, IF swap THEN e1 ELSE e2, reuse)

Unshared(s, x1, pos1, x2, pos2) ==
  ra_unshare_container_at_index(ra_unshare_container_at_index(s, x1, pos1), x2, pos2)
UniteAt(u, answer, x1, pos1, x2, pos2, reuse) ==
  UniteUnshared(u, answer, At(u, x1, pos1), At(u, x2, pos2), reuse)

lazy_or_from_lazy_inputs(s, x1, x2, reuse) ==
  LET made == roaring_bitmap_create(s, FALSE)
      answer == Newest(made)
      RECURSIVE walk(_, _, _)
      walk(t, pos1, pos2) ==
        LET s1 == KeyAt(t, x1, pos1)
            s2 == KeyAt(t, x2, pos2)
        IN  IF pos1 = Size(t, x1) THEN ra_append_move_range(t, answer, x2, pos2, Size(t, x2))
            ELSE IF pos2 = Size(t, x2)
                 THEN ra_append_move_range(t, answer, x1, pos1, Size(t, x1))
            ELSE IF s1 = s2
                 THEN walk(UniteAt(Unshared(t, x1, pos1, x2, pos2), answer, x1, pos1,
                                   x2, pos2, reuse), pos1 + 1, pos2 + 1)
            ELSE IF s1 < s2
                 THEN walk(ra_append_move_range(t, answer, x1, pos1, pos1 + 1), pos1 + 1, pos2)
            ELSE walk(ra_append_move_range(t, answer, x2, pos2, pos2 + 1), pos1, pos2 + 1)
  IN  IF Size(s, x1) = 0 THEN [s |-> roaring_bitmap_free(s, x1), x |-> x2]
      ELSE IF Size(s, x2) = 0 THEN [s |-> roaring_bitmap_free(s, x2), x |-> x1]
      ELSE [s |-> Consumed(Consumed(walk(made, 0, 0), x1), x2), x |-> answer]

\* The union of the two elements that are polled, as an element: [s, element].
AsElement(r) ==
  [s |-> r.s, element |-> Element(roaring_bitmap_portable_size_in_bytes(r.s, r.x), TRUE, r.x)]

UniteElements(s, x1, x2, reuse) ==
  LET into(x, other) ==
        [s |-> roaring_bitmap_lazy_or_inplace(s, x.bitmap, other.bitmap, FALSE, reuse),
         x |-> x.bitmap]
  IN  AsElement(IF x1.is_temporary /\ x2.is_temporary
                THEN lazy_or_from_lazy_inputs(s, x1.bitmap, x2.bitmap, reuse)
                ELSE IF x1.is_temporary \/ x2.is_temporary
                     THEN into(IF x2.is_temporary THEN x2 ELSE x1,
                               IF x2.is_temporary THEN x1 ELSE x2)
                ELSE roaring_bitmap_lazy_or(s, x1.bitmap, x2.bitmap, FALSE))

roaring_bitmap_or_many_heap(s, xs, reuse) ==
  LET RECURSIVE unite(_, _), putback(_, _)
      putback(u, pq) == unite(u.s, pq_add(pq, u.element))
      unite(t, pq) ==
        LET p1 == pq_poll(pq)
            p2 == pq_poll(p1.rest)
        IN  IF Len(pq) = 1 THEN [s |-> t, x |-> p1.top.bitmap]
            ELSE putback(UniteElements(t, p1.top, p2.top, reuse), p2.rest)
  IN  CASE Len(xs) = 0 -> Answer(roaring_bitmap_create(s, FALSE))
        [] Len(xs) = 1 -> Copied(s, xs[1])
        [] OTHER -> Repaired(unite(s, create_pq(s, xs)))
=============================================================================
