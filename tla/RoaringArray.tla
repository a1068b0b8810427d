---------------------------- MODULE RoaringArray ----------------------------
(***************************************************************************)
(* The two-level bitmap: roaring_array_t, the sorted array of the high     *)
(* halves ("keys") of the values with one container per key, and the range *)
(* operations of roaring.c on it.  A container is the set of low halves    *)
(* that it holds: module Container is about how it holds them.  Indices    *)
(* are the C ones: entry i of the code is ra[i + 1] here.                  *)
(***************************************************************************)
EXTENDS Integers, SequencesExt, FiniteSetsExt

CONSTANTS KeyCount,      \* 2^16 in the code
          ChunkSize      \* 2^16 in the code

ASSUME RoaringArrayAssumption ==
  KeyCount \in Nat \ {0} /\ ChunkSize \in Nat \ {0, 1}

Universe == KeyCount * ChunkSize      \* 2^32: how many values a uint32_t has
U32(x) == x % Universe
High(x) == x \div ChunkSize
Low(x) == x % ChunkSize
LowMax == ChunkSize - 1

Keys == 0 .. KeyCount - 1
Lows == 0 .. LowMax

Entry(key, container) == [key |-> key, container |-> container]

MembersOf(ra) == UNION { { e.key * ChunkSize + v : v \in e.container } : e \in ToSet(ra) }

\* What the memory past the last entry, or a moved entry, holds: nothing that
\* may be read.
Junk == Entry(-1, {-1})
-----------------------------------------------------------------------------
(* roaring_array.c and array_util.h.                                       *)

count_less(ra, len, key) == Cardinality({ i \in 1 .. len : ra[i].key < key })
count_greater(ra, len, key) == Cardinality({ i \in 1 .. len : ra[i].key > key })

\* The index of key or, when it is absent, -(where it belongs) - 1.
ra_get_index(ra, key) ==
  LET less == count_less(ra, Len(ra), key)
  IN  IF less < Len(ra) /\ ra[less + 1].key = key THEN less ELSE -less - 1

ra_insert_new_key_value_at(ra, i, key, container) ==
  InsertAt(ra, i + 1, Entry(key, container))

ra_remove_at_index(ra, i) == RemoveAt(ra, i + 1)

\* Moves the last count entries; a gap keeps what its memory held.
ra_shift_tail(ra, count, distance) ==
  LET size == Len(ra) + distance
  IN  [i \in 1 .. size |->
         IF i > size - count THEN ra[i - distance]
         ELSE IF i <= Len(ra) THEN ra[i] ELSE Junk]

\* Entries with a key below, and above, key.
ra_append_copies_until(ans, ra, key) == ans \o SubSeq(ra, 1, count_less(ra, Len(ra), key))
ra_append_copies_after(ans, ra, key) ==
  LET i == ra_get_index(ra, key)
      start == IF i >= 0 THEN i + 1 ELSE -i - 1
  IN  ans \o SubSeq(ra, start + 1, Len(ra))

roaring_bitmap_add(ra, x) ==
  LET i == ra_get_index(ra, High(x))
  IN  IF i >= 0 THEN [ra EXCEPT ![i + 1].container = @ \cup {Low(x)}]
      ELSE ra_insert_new_key_value_at(ra, -i - 1, High(x), {Low(x)})

roaring_bitmap_remove(ra, x) ==
  LET i == ra_get_index(ra, High(x))
      rest == ra[i + 1].container \ {Low(x)}
  IN  IF i < 0 THEN ra
      ELSE IF rest # {} THEN [ra EXCEPT ![i + 1].container = rest]
      ELSE ra_remove_at_index(ra, i)
-----------------------------------------------------------------------------
(* Ranges.                                                                 *)

\* Mutant: the last chunk of a range of several is taken whole.
PartOf_WholeLastChunk(min, max, key) ==
  (IF key = High(min) THEN Low(min) ELSE 0)
    .. (IF key = High(max) /\ key = High(min) THEN Low(max) ELSE LowMax)

\* The part of the range min .. max that falls into the chunk of key.
PartOf(min, max, key) ==
  (IF key = High(min) THEN Low(min) ELSE 0) .. (IF key = High(max) THEN Low(max) ELSE LowMax)

\* Opens a gap in front of the larger keys for the keys that the range adds, and
\* fills it from the back, merging with the entries that it finds at src.
roaring_bitmap_add_range_closed(ra, min, max) ==
  LET required == High(max) - High(min) + 1
      suffix == count_greater(ra, Len(ra), High(max))
      prefix == count_less(ra, Len(ra) - suffix, High(min))
      common == Len(ra) - prefix - suffix
      wide == IF required > common THEN ra_shift_tail(ra, suffix, required - common)
              ELSE ra
      step(s, key) ==
        LET merge == s.src >= 0 /\ s.ra[s.src + 1].key = key
            old == IF merge THEN s.ra[s.src + 1].container ELSE {}
        IN  [ra  |-> [s.ra EXCEPT ![s.dst + 1] = Entry(key, old \cup PartOf(min, max, key))],
             src |-> IF merge THEN s.src - 1 ELSE s.src,
             dst |-> s.dst - 1]
      keys == [i \in 1 .. required |-> High(max) - i + 1]
  IN  IF min > max THEN ra
      ELSE FoldLeft(step, [ra |-> wide, src |-> prefix + common - 1,
                           dst |-> Len(wide) - suffix - 1], keys).ra

\* Removes from the entries at src, keeps at dst the ones that are left, and
\* closes the gap.
roaring_bitmap_remove_range_closed(ra, min, max) ==
  LET first == count_less(ra, Len(ra), High(min))
      end == Len(ra) - count_greater(ra, Len(ra), High(max))
      step(s, src) ==
        LET e == s.ra[src + 1]
            rest == e.container \ PartOf(min, max, e.key)
        IN  IF rest = {} THEN s
            ELSE [ra  |-> [s.ra EXCEPT ![s.dst + 1] = Entry(e.key, rest)],
                  dst |-> s.dst + 1]
      done == FoldLeft(step, [ra |-> ra, dst |-> first],
                       [i \in 1 .. end - first |-> first + i - 1])
  IN  IF min > max THEN ra
      ELSE IF end > done.dst
           THEN ra_shift_tail(done.ra, Len(ra) - end, done.dst - end)
      ELSE done.ra

\* insert_flipped_container and insert_fully_flipped_container.
insert_flipped_container(ans, ra, hb, lb_start, lb_end) ==
  LET i == ra_get_index(ra, hb)
      j == ra_get_index(ans, hb)
      flipped == SymDiff(ra[i + 1].container, lb_start .. lb_end)
  IN  IF i < 0 THEN ra_insert_new_key_value_at(ans, -j - 1, hb, lb_start .. lb_end)
      ELSE IF flipped # {} THEN ra_insert_new_key_value_at(ans, -j - 1, hb, flipped)
      ELSE ans

\* inplace_flip_container and inplace_fully_flip_container.
inplace_flip_container(ra, hb, lb_start, lb_end) ==
  LET i == ra_get_index(ra, hb)
      flipped == SymDiff(ra[i + 1].container, lb_start .. lb_end)
  IN  IF i < 0 THEN ra_insert_new_key_value_at(ra, -i - 1, hb, lb_start .. lb_end)
      ELSE IF flipped # {} THEN [ra EXCEPT ![i + 1].container = flipped]
      ELSE ra_remove_at_index(ra, i)

\* The order in which both flips visit the keys of a range: flip(a, hb, s, e)
\* flips s .. e of the chunk of hb.  A partial first and a partial last chunk are
\* taken out of the loop over the full ones.
FlipChunks(flip(_, _, _, _), a, start, end) ==
  LET hb_start == IF Low(start) > 0 THEN High(start) + 1 ELSE High(start)
      hb_end == IF Low(end) # LowMax THEN High(end) - 1 ELSE High(end)
      first == IF Low(start) > 0 THEN flip(a, High(start), Low(start), LowMax) ELSE a
      full == FoldLeft(LAMBDA b, hb : flip(b, hb, 0, LowMax), first,
                       [i \in 1 .. hb_end - hb_start + 1 |-> hb_start + i - 1])
  IN  IF High(start) = High(end) THEN flip(a, High(start), Low(start), Low(end))
      ELSE IF Low(end) # LowMax THEN flip(full, hb_end + 1, 0, Low(end))
      ELSE full

roaring_bitmap_flip_closed(ra, start, end) ==
  LET flip(ans, hb, s, e) == insert_flipped_container(ans, ra, hb, s, e)
      flipped == FlipChunks(flip, ra_append_copies_until(<<>>, ra, High(start)), start, end)
  IN  IF start > end THEN ra ELSE ra_append_copies_after(flipped, ra, High(end))

roaring_bitmap_flip_inplace_closed(ra, start, end) ==
  IF start > end THEN ra ELSE FlipChunks(inplace_flip_container, ra, start, end)

\* The low part of a shifted chunk joins the high part of the one before it.
offset_append_with_merge(ans, k, container) ==
  IF ans = <<>> \/ Last(ans).key # k THEN Append(ans, Entry(k, container))
  ELSE [ans EXCEPT ![Len(ans)].container = @ \cup container]

roaring_bitmap_add_offset(ra, offset) ==
  LET container_offset == offset \div ChunkSize      \* rounds down, as >> does
      in_offset == offset - container_offset * ChunkSize
      step(ans, e) ==
        LET k == e.key + container_offset
            moved == { v + in_offset : v \in e.container }
            lo == IF k \in Keys THEN moved \cap Lows ELSE {}
            hi == IF k + 1 \in Keys THEN { v - ChunkSize : v \in moved \ Lows } ELSE {}
            low == IF lo = {} THEN ans
                   ELSE IF in_offset = 0 THEN Append(ans, Entry(k, lo))
                   ELSE offset_append_with_merge(ans, k, lo)
        IN  IF hi = {} THEN low ELSE Append(low, Entry(k + 1, hi))
  IN  FoldLeft(step, <<>>, ra)

\* The loop of roaring_bitmap_from_range with a step below ChunkSize, a chunk a
\* turn: min_tmp moves to the first multiple of step in the next chunk.
from_range_chunks(min, max, step) ==
  LET turn(s, i) ==
        LET key == High(s.min_tmp)
            container_min == Low(s.min_tmp)
            container_max == IF max - key * ChunkSize < ChunkSize
                             THEN max - key * ChunkSize ELSE ChunkSize
            gap == container_max - container_min + step - 1
            container == { v \in container_min .. container_max - 1 :
                             (v - container_min) % step = 0 }
        IN  IF s.min_tmp >= max THEN s
            ELSE [ra      |-> Append(s.ra, Entry(key, container)),
                  min_tmp |-> s.min_tmp + gap - (gap % step)]
  IN  FoldLeft(turn, [ra |-> <<>>, min_tmp |-> min], [i \in 1 .. KeyCount |-> i]).ra
-----------------------------------------------------------------------------
(* Queries on ranges.                                                      *)

container_rank(container, x) == Cardinality({ v \in container : v <= x })

roaring_bitmap_range_cardinality_closed(ra, start, end) ==
  LET i == ra_get_index(ra, High(start))
      upTo(e) == IF e.key = High(end) THEN container_rank(e.container, Low(end))
                 ELSE Cardinality(e.container)
      skipped == IF i >= 0 /\ Low(start) # 0
                 THEN container_rank(ra[i + 1].container, Low(start) - 1) ELSE 0
      from == IF i >= 0 THEN i ELSE -i - 1
      counted == SubSeq(ra, from + 1, count_less(ra, Len(ra), High(end) + 1))
  IN  IF start > end THEN 0
      ELSE FoldLeft(LAMBDA card, e : card + upTo(e), 0, counted) - skipped

\* Mutant: whether a chunk inside the range is missing is not looked at.
contains_range_closed_OverGaps(ra, start, end) ==
  LET is == ra_get_index(ra, High(start))
      ie == ra_get_index(ra, High(end))
      from(i) == IF i = is THEN Low(start) ELSE 0
      to(i) == IF i = ie THEN Low(end) ELSE LowMax
  IN  start > end \/ /\ is >= 0 /\ ie >= 0
                     /\ \A i \in is .. ie : (from(i) .. to(i)) \subseteq ra[i + 1].container

\* Chunks strictly inside the range need only be full; that none is missing is
\* seen from the distance of the two indices.
roaring_bitmap_contains_range_closed(ra, start, end) ==
  LET span == High(end) - High(start)
      is == ra_get_index(ra, High(start))
      ie == ra_get_index(ra, High(end))
      contains(i, s, e) == (s .. e) \subseteq ra[i + 1].container
  IN  IF start > end THEN TRUE
      ELSE IF start = end
           THEN is >= 0 /\ Low(start) \in ra[is + 1].container
      ELSE /\ Len(ra) >= span + 1
           /\ is >= 0 /\ ie >= 0 /\ ie - is = span
           /\ IF span = 0 THEN contains(is, Low(start), Low(end))
              ELSE /\ contains(is, Low(start), LowMax)
                   /\ contains(ie, 0, Low(end))
                   /\ \A i \in is + 1 .. ie - 1 : Cardinality(ra[i + 1].container) = ChunkSize
-----------------------------------------------------------------------------
(* The half-open ranges of 64-bit arguments that the public calls take:    *)
(* the closed call gets the ends cut down to 32 bits.                      *)

EmptyRange(start, end) == start >= end \/ start > Universe

roaring_bitmap_add_range(ra, min, max) ==
  IF EmptyRange(min, max) THEN ra
  ELSE roaring_bitmap_add_range_closed(ra, U32(min), U32(max - 1))

roaring_bitmap_remove_range(ra, min, max) ==
  IF EmptyRange(min, max) THEN ra
  ELSE roaring_bitmap_remove_range_closed(ra, U32(min), U32(max - 1))

roaring_bitmap_flip(ra, start, end) ==
  IF EmptyRange(start, end) THEN ra
  ELSE roaring_bitmap_flip_closed(ra, U32(start), U32(end - 1))

roaring_bitmap_flip_inplace(ra, start, end) ==
  IF EmptyRange(start, end) THEN ra
  ELSE roaring_bitmap_flip_inplace_closed(ra, U32(start), U32(end - 1))

roaring_bitmap_range_cardinality(ra, start, end) ==
  IF EmptyRange(start, end) THEN 0
  ELSE roaring_bitmap_range_cardinality_closed(ra, U32(start), U32(end - 1))

roaring_bitmap_contains_range(ra, start, end) ==
  IF EmptyRange(start, end) THEN TRUE
  ELSE roaring_bitmap_contains_range_closed(ra, U32(start), U32(end - 1))
=============================================================================
