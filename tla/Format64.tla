------------------------------ MODULE Format64 ------------------------------
(***************************************************************************)
(* The serialized forms of a 64-bit bitmap (roaring64.c).  The portable    *)
(* one is a list of 32-bit bitmaps, one for each bucket of keys with the   *)
(* same high 32 bits; the frozen one is the memory of the bitmap.  Buffers *)
(* and readers are those of BitmapFormat, bitmaps those of Roaring64.      *)
(***************************************************************************)
EXTENDS BitmapFormat

CONSTANTS KeyCount,     \* 2^48: how many keys there are
          BucketKeys    \* 2^16: how many of them share their high 32 bits

ASSUME Format64Assumption == KeyCount \in 1 .. 255 /\ BucketKeys \in Nat \ {0}

R64 == INSTANCE Roaring64 WITH DoublingLimit <- 4, block_gap <- 1

High32(key) == key \div BucketKeys
Buckets(r) == Values2Seq({ High32(key) : key \in DOMAIN r.art })
count_high32(r) == Len(Buckets(r))

Entries(r, keys) == [i \in DOMAIN keys |-> Entry(keys[i] % BucketKeys, R64!get_container(r, keys[i]))]

\* The 32-bit bitmap of a bucket, which borrows the containers.
Bitmap32(r, high32) ==
  Entries(r, SelectSeq(R64!InKeyOrder(r), LAMBDA key : High32(key) = high32))

At8(buf, at) == At4(buf, at)
Exceeds32Bits(buf, at) == At4(buf, at + 4) # 0
-----------------------------------------------------------------------------
(* The portable format.                                                    *)

roaring64_bitmap_portable_size_in_bytes(r) ==
  FoldLeft(LAMBDA size, high32 : size + 4 + ra_portable_size_in_bytes(Bitmap32(r, high32)),
           8, Buckets(r))

roaring64_bitmap_portable_serialize(r) ==
  FoldLeft(LAMBDA buf, high32 :
             buf \o Bytes(4, high32) \o ra_portable_serialize(Bitmap32(r, high32)),
           Bytes(8, count_high32(r)), Buckets(r))

\* Whether the number of buckets can be read.
CanCount(buf, maxbytes) == 8 <= maxbytes /\ ~Exceeds32Bits(buf, 0)

roaring64_bitmap_portable_deserialize_size(buf, maxbytes) ==
  LET step(read_bytes, bucket) ==
        LET at == read_bytes + 4
            size == ra_portable_deserialize_size(Skip(buf, at), maxbytes - at)
        IN  IF read_bytes = 0 \/ at > maxbytes \/ size = 0 THEN 0 ELSE at + size
  IN  IF ~CanCount(buf, maxbytes) THEN 0 ELSE FoldLeft(step, 8, Indices(At8(buf, 0)))

Failed(over) == [ok |-> FALSE, r |-> R64!roaring64_bitmap_create, read_bytes |-> 0,
                 previous |-> -1, over |-> over]
Started(r) == [ok |-> TRUE, r |-> r, read_bytes |-> 8, previous |-> -1, over |-> FALSE]

Ascending(ra) == \A i \in 1 .. Len(ra) - 1 : ra[i].key < ra[i + 1].key

MoveBucket(r, ra, high32) ==
  R64!move_from_roaring32_offset(r,
    [i \in DOMAIN ra |-> [key |-> ra[i].key, container |-> ra[i].c]], high32 * BucketKeys)

\* Buckets, and keys in a bucket, must ascend: the tree takes no key twice.
roaring64_bitmap_portable_deserialize_safe(buf, maxbytes) ==
  LET step(s, bucket) ==
        LET at == s.read_bytes + 4
            high32 == At4(buf, s.read_bytes)
            b == ra_portable_deserialize(Skip(buf, at), maxbytes - at)
        IN  IF ~s.ok THEN s
            ELSE IF at > maxbytes \/ high32 <= s.previous THEN Failed(s.over)
            ELSE IF ~b.ok \/ ~Ascending(b.ra) THEN Failed(s.over \/ b.over)
            ELSE [ok |-> TRUE, r |-> MoveBucket(s.r, b.ra, high32),
                  read_bytes |-> at + b.readbytes, previous |-> high32,
                  over |-> s.over \/ b.over]
  IN  IF ~CanCount(buf, maxbytes) THEN Failed(FALSE)
      ELSE FoldLeft(step, Started(R64!roaring64_bitmap_create), Indices(At8(buf, 0)))
-----------------------------------------------------------------------------
(* A view of the portable format: the containers stay in the buffer.       *)

\* The arrays are allocated for this number of containers and do not grow.
alloc_frozen_bitmap(capacity) ==
  [art |-> <<>>, containers |-> [i \in 1 .. capacity |-> R64!Vacant],
   typecodes |-> [i \in 1 .. capacity |-> R64!Unset], first_free |-> 0]

\* One bucket at the start of buf, whose header is h and whose size is consumed:
\* [ok, r, consumed, over].
ViewBucket(r, high32, buf, maxbytes, consumed, h) ==
  LET none(over) == [ok |-> FALSE, r |-> r, consumed |-> 0, over |-> over]
      step(s, i) ==
        LET payload == IF h.has_offsets THEN At4(buf, h.offsets + 4 * i) ELSE s.at
            size == SizeAt(h, buf, i, payload)
        IN  IF \/ ~s.ok
               \/ KeyOf(h, buf, i) <= s.last_key
               \/ h.has_offsets /\ payload >= consumed
               \/ KindOf(h, buf, i) = "run" /\ payload + 2 > consumed
               \/ payload + size > consumed
               \/ s.r.first_free >= R64!capacity(s.r)
            THEN [s EXCEPT !.ok = FALSE]
            ELSE [ok |-> TRUE, last_key |-> KeyOf(h, buf, i), at |-> s.at + size,
                  r |-> R64!add_container(s.r, high32 * BucketKeys + KeyOf(h, buf, i),
                                          ReadAt(h, buf, i, payload)),
                  over |-> s.over \/ ~Inside(buf, payload, size)]
      done == FoldLeft(step, [ok |-> TRUE, last_key |-> -1, at |-> h.at, r |-> r,
                              over |-> h.over], Indices(h.size))
  IN  IF consumed = 0 \/ consumed > maxbytes \/ ~h.ok THEN none(FALSE)
      ELSE IF ~done.ok THEN none(done.over)
      ELSE [ok |-> TRUE, r |-> done.r, consumed |-> consumed, over |-> done.over]

ViewSized(r, high32, buf, maxbytes, consumed) ==
  ViewBucket(r, high32, buf, maxbytes, consumed, ReadHeader(buf, consumed))

view_one_portable32(r, high32, buf, maxbytes) ==
  ViewSized(r, high32, buf, maxbytes, ra_portable_deserialize_size(buf, maxbytes))

\* The first pass counts the containers of all buckets: [ok, at, n, previous].
CountContainers(buf, maxbytes) ==
  LET step(s, bucket) ==
        LET at == s.at + 4
            high32 == At4(buf, s.at)
            size == ra_portable_deserialize_size(Skip(buf, at), maxbytes - at)
            h == ReadHeader(Skip(buf, at), maxbytes - at)
        IN  IF ~s.ok \/ at > maxbytes \/ high32 <= s.previous \/ size = 0
            THEN [s EXCEPT !.ok = FALSE]
            ELSE [ok |-> TRUE, at |-> at + size, n |-> s.n + h.size, previous |-> high32]
  IN  FoldLeft(step, [ok |-> TRUE, at |-> 8, n |-> 0, previous |-> -1], Indices(At8(buf, 0)))

roaring64_bitmap_portable_deserialize_frozen(buf, maxbytes) ==
  LET counted == CountContainers(buf, maxbytes)
      step(s, bucket) ==
        LET at == s.read_bytes + 4
            high32 == At4(buf, s.read_bytes)
            view == view_one_portable32(s.r, high32, Skip(buf, at), maxbytes - at)
        IN  IF ~s.ok THEN s
            ELSE IF at > maxbytes \/ high32 <= s.previous THEN Failed(s.over)
            ELSE IF ~view.ok THEN Failed(s.over \/ view.over)
            ELSE [ok |-> TRUE, r |-> view.r, read_bytes |-> at + view.consumed,
                  previous |-> high32, over |-> s.over \/ view.over]
  IN  IF ~CanCount(buf, maxbytes) \/ ~counted.ok THEN Failed(FALSE)
      ELSE FoldLeft(step, Started(alloc_frozen_bitmap(counted.n)), Indices(At8(buf, 0)))
-----------------------------------------------------------------------------
(* The frozen format: flags, capacity, element counts, the sizes of the    *)
(* three zones, the tree, and the zones.  Padding depends on how many      *)
(* bytes came before.                                                      *)

CROARING_BITSET_ALIGNMENT == 64
AlignOfHalves == 2      \* alignof(rle16_t) and alignof(uint16_t)

align_size(size, alignment) == ((size + alignment - 1) \div alignment) * alignment
pad_align(buf, alignment) ==
  buf \o [i \in 1 .. align_size(Len(buf), alignment) - Len(buf) |-> 0]

\* The tree in bytes, of which the bitmap needs the leaves: its root, its
\* counts, and a key and a value for each leaf.
art_size_in_bytes(art) == 16 + 16 * Cardinality(DOMAIN art)
art_serialize(art) ==
  LET keys == Values2Seq(DOMAIN art)
      leaf(key) == Bytes(8, key) \o Bytes(8, art[key].index * 256 + TypeCode[art[key].type])
  IN  Bytes(8, 0) \o Bytes(8, Len(keys)) \o Joined([i \in DOMAIN keys |-> leaf(keys[i])])

\* The bytes of the tree at a place, 0 if there are too few.
art_frozen_view(buf, at, maxbytes) ==
  LET size == 16 + 16 * At8(buf, at + 8)
  IN  IF maxbytes < 8 \/ maxbytes < 16 \/ maxbytes < size THEN 0 ELSE size

container_get_element_count(c) == IF IsRun(c) THEN Len(c.runs) ELSE c.card
container_get_frozen_size(c) ==
  CASE IsBitset(c) -> BITSET_SIZE_IN_BYTES
    [] IsArray(c) -> 2 * container_get_element_count(c)
    [] IsRun(c) -> 4 * container_get_element_count(c)

TotalSize(r, type) ==
  LET of(key) == container_get_frozen_size(R64!get_container(r, key))
  IN  MapThenSumSet(of, { key \in DOMAIN r.art : r.art[key].type = type })

roaring64_bitmap_frozen_size_in_bytes(r) ==
  LET counts == 1 + 8 + 2 * R64!capacity(r) + 3 * 8
      art == align_size(counts, 8) + art_size_in_bytes(r.art)
      bitsets == align_size(art, CROARING_BITSET_ALIGNMENT) + TotalSize(r, "bitset")
      arrays == align_size(bitsets, AlignOfHalves) + TotalSize(r, "array")
      runs == align_size(arrays, AlignOfHalves) + TotalSize(r, "run")
  IN  IF ~R64!is_shrunken(r) THEN 0 ELSE align_size(runs, CROARING_BITSET_ALIGNMENT)

\* Mutant: the counts are written in the order of the slots.
ElementCounts_BySlot(r) ==
  Halves([i \in 1 .. R64!capacity(r) |-> U16(container_get_element_count(r.containers[i]) - 1)])

ElementCounts(r) ==
  LET keys == R64!InKeyOrder(r)
  IN  Halves([i \in DOMAIN keys |->
                U16(container_get_element_count(R64!get_container(r, keys[i])) - 1)])

roaring64_bitmap_frozen_serialize(r) ==
  LET all == Entries(r, R64!InKeyOrder(r))
      head == <<0>> \o Bytes(8, R64!capacity(r)) \o ElementCounts(r)
              \o Bytes(8, TotalSize(r, "bitset")) \o Bytes(8, TotalSize(r, "run"))
              \o Bytes(8, TotalSize(r, "array"))
      tree == pad_align(head, 8) \o art_serialize(r.art)
      bitsets == pad_align(tree, CROARING_BITSET_ALIGNMENT) \o Zone(all, "bitset")
      runs == pad_align(bitsets, AlignOfHalves) \o Zone(all, "run")
      arrays == pad_align(runs, AlignOfHalves) \o Zone(all, "array")
  IN  IF ~R64!is_shrunken(r) THEN <<>> ELSE pad_align(arrays, CROARING_BITSET_ALIGNMENT)

\* The container that starts at a place, and the bytes it takes.
container_frozen_view_at(type, elem_count, buf, at) ==
  CASE type = TypeCode.bitset -> bitset_container_read(elem_count, buf, at)
    [] type = TypeCode.array -> array_container_read(elem_count, buf, at)
    [] type = TypeCode.run -> RunsAt(elem_count, buf, at)

\* maxbytes is what is left of the buffer, except that the padding before the
\* tree is not taken off.
roaring64_bitmap_frozen_view(buf, maxbytes) ==
  LET capacity == At8(buf, 1)
      left == maxbytes - 1 - 8
      sizes == 1 + 8 + 2 * capacity
      left2 == left - 2 * capacity - 3 * 8
      art == align_size(sizes + 3 * 8, 8)
      art_size == art_frozen_view(buf, art, left2)
      leaves == At8(buf, art + 8)
      before == art + art_size
      bitsets == align_size(before, CROARING_BITSET_ALIGNMENT)
      runs == align_size(bitsets + At8(buf, sizes), AlignOfHalves)
      arrays == align_size(runs + At8(buf, sizes + 8), AlignOfHalves)
      end == arrays + At8(buf, sizes + 16)
      step(s, i) ==
        LET key == At8(buf, art + 16 + 16 * i)
            leaf == At8(buf, art + 16 + 16 * i + 8)
            index == leaf \div 256
            type == leaf % 256
            at == s.at[type]
            c == container_frozen_view_at(type, At2(buf, 9 + 2 * i) + 1, buf, at)
            size == container_get_frozen_size(c)
        IN  IF ~s.ok \/ i >= capacity \/ index >= capacity \/ type \notin 1 .. 3
            THEN [s EXCEPT !.ok = FALSE]
            ELSE [ok |-> TRUE, at |-> [s.at EXCEPT ![type] = @ + size],
                  r |-> [R64!set_container_at(s.r, index, c) EXCEPT
                           !.art = (key :> R64!create_leaf(index, c.type)) @@ @],
                  over |-> s.over \/ ~Inside(buf, at, size)]
      done == FoldLeft(step, [ok |-> TRUE, at |-> <<bitsets, arrays, runs>>,
                              r |-> alloc_frozen_bitmap(capacity),
                              over |-> ~Inside(buf, art, art_size)], Indices(leaves))
  IN  IF \/ maxbytes < 1 + 8
         \/ capacity > left \div 2
         \/ left - 2 * capacity < 3 * 8
         \/ art_size = 0
         \/ left2 - art_size < end - before
      THEN Failed(FALSE)
      ELSE IF ~done.ok THEN Failed(done.over)
      ELSE [Failed(done.over) EXCEPT !.ok = TRUE, !.r = [done.r EXCEPT !.first_free = capacity]]
=============================================================================
