--------------------------- MODULE BitmapQueries ---------------------------
(***************************************************************************)
(* The queries of roaring.c on one bitmap and on two.  They walk the key   *)
(* arrays of SetOperations and ask the containers.                         *)
(***************************************************************************)
EXTENDS SetOperations

High(v) == v \div ChunkSize
Low(v) == v % ChunkSize

C(s, x, i) == Read(s.h, At(s, x, i))
CardinalityAt(s, x, i) == container_get_cardinality(C(s, x, i))
CardinalityBefore(s, x, i) ==
  FoldLeft(LAMBDA sum, j : sum + CardinalityAt(s, x, j), 0, Indexes(0, i))

roaring_bitmap_get_cardinality(s, x) == CardinalityBefore(s, x, Size(s, x))

\* What the first entries hold, up to the one of the key or after it.
roaring_bitmap_rank(s, bm, x) ==
  LET before == Cardinality({ i \in DOMAIN Ra(s, bm) : Ra(s, bm)[i].key < High(x) })
      found == before < Size(s, bm) /\ KeyAt(s, bm, before) = High(x)
  IN  CardinalityBefore(s, bm, before)
        + (IF found THEN container_rank(C(s, bm, before), Low(x)) ELSE 0)

\* xs ascends.  A container answers for all the values at the front that have
\* its key, and the entries counted are not counted again.
roaring_bitmap_rank_many(s, bm, xs) ==
  LET RECURSIVE rank(_, _, _)
      rank(rest, i, size) ==
        LET same == SelectSeq(rest, LAMBDA x : High(x) = High(Head(rest)))
            lows == [k \in DOMAIN same |-> Low(same[k])]
        IN  IF rest = <<>> THEN <<>>
            ELSE IF i = Size(s, bm) THEN <<size>> \o rank(Tail(rest), i, size)
            ELSE IF High(Head(rest)) > KeyAt(s, bm, i)
                 THEN rank(rest, i + 1, size + CardinalityAt(s, bm, i))
            ELSE IF High(Head(rest)) < KeyAt(s, bm, i)
                 THEN <<size>> \o rank(Tail(rest), i, size)
            ELSE container_rank_many(C(s, bm, i), size, lows)
                   \o rank(SubSeq(rest, Len(same) + 1, Len(rest)), i, size)
  IN  rank(xs, 0, 0)

roaring_bitmap_get_index(s, bm, x) ==
  LET i == ra_get_index(Ra(s, bm), High(x))
      low == container_get_index(C(s, bm, i), Low(x))
  IN  IF i < 0 \/ low < 0 THEN -1 ELSE CardinalityBefore(s, bm, i) + low

roaring_bitmap_minimum(s, bm) ==
  IF Size(s, bm) = 0 THEN NoValue
  ELSE KeyAt(s, bm, 0) * ChunkSize + container_minimum(C(s, bm, 0))

roaring_bitmap_maximum(s, bm) ==
  LET last == Size(s, bm) - 1
  IN  IF Size(s, bm) = 0 THEN 0
      ELSE KeyAt(s, bm, last) * ChunkSize + container_maximum(C(s, bm, last))

\* Each container that does not hold the rank moves start_rank on.
roaring_bitmap_select(s, bm, rank) ==
  LET RECURSIVE select(_, _)
      select(i, start_rank) ==
        LET r == container_select(C(s, bm, i), start_rank, rank)
        IN  IF i = Size(s, bm) THEN NoValue
            ELSE IF r.found THEN KeyAt(s, bm, i) * ChunkSize + r.element
            ELSE select(i + 1, r.start)
  IN  select(0, 0)
-----------------------------------------------------------------------------
(* Two bitmaps.                                                            *)

roaring_bitmap_equals(s, r1, r2) ==
  /\ Size(s, r1) = Size(s, r2)
  /\ \A i \in 0 .. Size(s, r1) - 1 : KeyAt(s, r1, i) = KeyAt(s, r2, i)
  /\ \A i \in 0 .. Size(s, r1) - 1 : container_equals(C(s, r1, i), C(s, r2, i))

\* Mutant: the entries of r1 that are left when r2 ends are forgotten.
roaring_bitmap_is_subset_EndsWithR2(s, r1, r2) ==
  LET RECURSIVE walk(_, _)
      walk(pos1, pos2) ==
        LET s1 == KeyAt(s, r1, pos1)
            s2 == KeyAt(s, r2, pos2)
        IN  IF pos1 = Size(s, r1) \/ pos2 = Size(s, r2) THEN TRUE
            ELSE IF s1 = s2 THEN /\ container_is_subset(C(s, r1, pos1), C(s, r2, pos2))
                                 /\ walk(pos1 + 1, pos2 + 1)
            ELSE s1 > s2 /\ walk(pos1, ra_advance_until(Ra(s, r2), s1, pos2))
  IN  walk(0, 0)

roaring_bitmap_is_subset(s, r1, r2) ==
  LET RECURSIVE walk(_, _)
      walk(pos1, pos2) ==
        LET s1 == KeyAt(s, r1, pos1)
            s2 == KeyAt(s, r2, pos2)
        IN  IF pos1 = Size(s, r1) \/ pos2 = Size(s, r2) THEN pos1 = Size(s, r1)
            ELSE IF s1 = s2 THEN /\ container_is_subset(C(s, r1, pos1), C(s, r2, pos2))
                                 /\ walk(pos1 + 1, pos2 + 1)
            ELSE s1 > s2 /\ walk(pos1, ra_advance_until(Ra(s, r2), s1, pos2))
  IN  walk(0, 0)

roaring_bitmap_is_strict_subset(s, r1, r2) ==
  /\ roaring_bitmap_get_cardinality(s, r2) > roaring_bitmap_get_cardinality(s, r1)
  /\ roaring_bitmap_is_subset(s, r1, r2)

roaring_bitmap_intersect(s, x1, x2) ==
  LET RECURSIVE walk(_, _)
      walk(pos1, pos2) ==
        LET s1 == KeyAt(s, x1, pos1)
            s2 == KeyAt(s, x2, pos2)
        IN  IF pos1 = Size(s, x1) \/ pos2 = Size(s, x2) THEN FALSE
            ELSE IF s1 = s2 THEN \/ container_intersect(C(s, x1, pos1), C(s, x2, pos2))
                                 \/ walk(pos1 + 1, pos2 + 1)
            ELSE IF s1 < s2 THEN walk(ra_advance_until(Ra(s, x1), s2, pos1), pos2)
            ELSE walk(pos1, ra_advance_until(Ra(s, x2), s1, pos2))
  IN  walk(0, 0)

roaring_bitmap_and_cardinality(s, x1, x2) ==
  LET RECURSIVE walk(_, _)
      walk(pos1, pos2) ==
        LET s1 == KeyAt(s, x1, pos1)
            s2 == KeyAt(s, x2, pos2)
        IN  IF pos1 = Size(s, x1) \/ pos2 = Size(s, x2) THEN 0
            ELSE IF s1 = s2 THEN container_and_cardinality(C(s, x1, pos1), C(s, x2, pos2))
                                   + walk(pos1 + 1, pos2 + 1)
            ELSE IF s1 < s2 THEN walk(ra_advance_until(Ra(s, x1), s2, pos1), pos2)
            ELSE walk(pos1, ra_advance_until(Ra(s, x2), s1, pos2))
  IN  walk(0, 0)

\* The other counts come from the one of the intersection.
roaring_bitmap_or_cardinality(s, x1, x2) ==
  roaring_bitmap_get_cardinality(s, x1) + roaring_bitmap_get_cardinality(s, x2)
    - roaring_bitmap_and_cardinality(s, x1, x2)
roaring_bitmap_andnot_cardinality(s, x1, x2) ==
  roaring_bitmap_get_cardinality(s, x1) - roaring_bitmap_and_cardinality(s, x1, x2)
roaring_bitmap_xor_cardinality(s, x1, x2) ==
  roaring_bitmap_get_cardinality(s, x1) + roaring_bitmap_get_cardinality(s, x2)
    - 2 * roaring_bitmap_and_cardinality(s, x1, x2)
=============================================================================
