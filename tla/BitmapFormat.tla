---------------------------- MODULE BitmapFormat ----------------------------
(***************************************************************************)
(* The serialized forms of a 32-bit bitmap (roaring_array.c, roaring.c):   *)
(* portable, native and frozen, byte by byte, with the functions that      *)
(* write them, size them, read them back and view them where they lie.     *)
(* A buffer is a sequence of bytes; offsets are the C ones, so byte `at'   *)
(* of the code is buf[at + 1].  A reader keeps two accounts: the bytes     *)
(* that it has claimed, which it compares with the length it was given,    *)
(* and the cursor it reads at.  `over' says that it read past the buffer.  *)
(* An entry of the key array is a key, a container and whether the         *)
(* container is shared.                                                    *)
(***************************************************************************)
EXTENDS Container

CONSTANT FROZEN_COOKIE   \* 13766 in the code, a value of a chunk there

SERIAL_COOKIE_NO_RUNCONTAINER == 12346
SERIAL_COOKIE == 12347
NO_OFFSET_THRESHOLD == 4
CROARING_SERIALIZATION_ARRAY_UINT32 == 1
CROARING_SERIALIZATION_CONTAINER == 2

ASSUME FormatAssumption ==
  /\ 8 * BITSET_SIZE_IN_BYTES = ChunkSize /\ ChunkSize <= 65536   \* a bit for every value
  /\ FROZEN_COOKIE \in Values /\ FROZEN_COOKIE < 32768

Entry(key, c) == [key |-> key, c |-> c, shared |-> FALSE]
MembersOf(ra) == UNION { { e.key * ChunkSize + v : v \in Elements(e.c) } : e \in ToSet(ra) }

Byte(v, b) == IF b >= 4 THEN 0 ELSE (v \div 256^b) % 256
Bytes(n, v) == [j \in 1 .. n |-> Byte(v, j - 1)]
Halves(numbers) == [j \in 1 .. 2 * Len(numbers) |->
                      Byte(numbers[(j + 1) \div 2], (j + 1) % 2)]
BitByte(bits) == MapThenSumSet(LAMBDA b : 2^b, bits)

Inside(buf, at, n) == at + n <= Len(buf)
At2(buf, at) == IF Inside(buf, at, 2) THEN buf[at + 1] + 256 * buf[at + 2] ELSE 0
At4(buf, at) == IF Inside(buf, at, 4)
                THEN At2(buf, at) + 65536 * At2(buf, at + 2) ELSE 0
BitAt(buf, at, i) ==
  /\ Inside(buf, at + i \div 8, 1)
  /\ (buf[at + i \div 8 + 1] \div 2^(i % 8)) % 2 = 1
Skip(buf, n) == SubSeq(buf, n + 1, Len(buf))

\* The sums s[i] of the sizes of the first i - 1 of n parts.
Starts(sizes, n, from) ==
  LET s[i \in 1 .. n + 1] == IF i = 1 THEN from ELSE s[i - 1] + sizes[i - 1] IN s

Joined(parts) == FoldLeft(LAMBDA all, part : all \o part, <<>>, parts)
-----------------------------------------------------------------------------
(* Containers.                                                             *)

container_size_in_bytes(c) ==
  CASE IsBitset(c) -> BITSET_SIZE_IN_BYTES
    [] IsArray(c) -> 2 * c.card
    [] IsRun(c) -> 2 + 4 * Len(c.runs)

RunHalves(runs) ==
  [j \in 1 .. 2 * Len(runs) |-> IF j % 2 = 1 THEN runs[(j + 1) \div 2].value
                                ELSE runs[j \div 2].length]

\* The memory of a container, without the count that precedes runs.
Payload(c) ==
  CASE IsBitset(c) -> [j \in 1 .. BITSET_SIZE_IN_BYTES |->
                         BitByte({ b \in 0 .. 7 : 8 * (j - 1) + b \in c.set })]
    [] IsArray(c) -> Halves(Values2Seq(c.set))
    [] IsRun(c) -> Halves(RunHalves(c.runs))

container_write(c) == IF IsRun(c) THEN Bytes(2, Len(c.runs)) \o Payload(c) ELSE Payload(c)

bitset_container_read(card, buf, at) ==
  Bitset({ v \in Values : BitAt(buf, at, v) }, card)
array_container_read(card, buf, at) ==
  Array({ At2(buf, at + 2 * i) : i \in 0 .. card - 1 }, card)
RunsAt(n_runs, buf, at) ==
  Run([i \in 1 .. n_runs |-> Rle(At2(buf, at + 4 * (i - 1)), At2(buf, at + 4 * (i - 1) + 2))])
run_container_read(buf, at) == RunsAt(At2(buf, at), buf, at + 2)
-----------------------------------------------------------------------------
(* The portable format.                                                    *)

ra_has_run_container(ra) == \E e \in ToSet(ra) : IsRun(e.c)

FlagBytes(size) == (size + 7) \div 8

ra_portable_header_size(ra) ==
  LET size == Len(ra)
  IN  IF ra_has_run_container(ra)
      THEN IF size < NO_OFFSET_THRESHOLD THEN 4 + FlagBytes(size) + 4 * size
           ELSE 4 + FlagBytes(size) + 8 * size
      ELSE 4 + 4 + 8 * size

ra_portable_size_in_bytes(ra) ==
  ra_portable_header_size(ra)
    + MapThenSumSet(LAMBDA k : container_size_in_bytes(ra[k].c), DOMAIN ra)

Descriptions(ra) ==
  Halves([j \in 1 .. 2 * Len(ra) |->
            LET e == ra[(j + 1) \div 2]
            IN  IF j % 2 = 1 THEN e.key ELSE U16(container_get_cardinality(e.c) - 1)])

RunFlags(ra) ==
  [j \in 1 .. FlagBytes(Len(ra)) |->
     BitByte({ b \in 0 .. 7 : LET i == 8 * (j - 1) + b + 1
                              IN  i <= Len(ra) /\ IsRun(ra[i].c) })]

ra_portable_serialize(ra) ==
  LET size == Len(ra)
      hasrun == ra_has_run_container(ra)
      first == IF ~hasrun THEN 4 + 4 + 4 * size + 4 * size
               ELSE IF size < NO_OFFSET_THRESHOLD THEN 4 + 4 * size + FlagBytes(size)
               ELSE 4 + 8 * size + FlagBytes(size)
      offset == Starts([k \in 1 .. size |-> container_size_in_bytes(ra[k].c)], size, first)
  IN  (IF hasrun THEN Bytes(4, SERIAL_COOKIE + (size - 1) * 65536) \o RunFlags(ra)
       ELSE Bytes(4, SERIAL_COOKIE_NO_RUNCONTAINER) \o Bytes(4, size))
      \o Descriptions(ra)
      \o (IF ~hasrun \/ size >= NO_OFFSET_THRESHOLD
          THEN Joined([k \in 1 .. size |-> Bytes(4, offset[k])]) ELSE <<>>)
      \o Joined([k \in 1 .. size |-> container_write(ra[k].c)])

\* What every reader does first: it claims the parts of the header one after
\* another and stops at the first that does not fit, or at a wrong cookie.
\* `at' is the cursor, `claimed' the account of bytes.
NoHeader == [ok |-> FALSE]
ReadHeader(buf, maxbytes) ==
  LET cookie == At4(buf, 0)
      hasrun == cookie % 65536 = SERIAL_COOKIE
      size == IF hasrun THEN cookie \div 65536 + 1 ELSE At4(buf, 4)
      claimed == IF hasrun THEN 4 + FlagBytes(size) ELSE 4 + 4
      offsets == IF ~hasrun \/ size >= NO_OFFSET_THRESHOLD THEN 4 * size ELSE 0
  IN  IF \/ 4 > maxbytes
         \/ ~hasrun /\ cookie # SERIAL_COOKIE_NO_RUNCONTAINER
         \/ ~hasrun /\ 4 + 4 > maxbytes
         \/ size > 65536
         \/ claimed > maxbytes
         \/ claimed + 4 * size > maxbytes
         \/ claimed + 4 * size + offsets > maxbytes
      THEN NoHeader
      ELSE [ok |-> TRUE, size |-> size, hasrun |-> hasrun,
            flags |-> 4, keyscards |-> claimed, offsets |-> claimed + 4 * size,
            has_offsets |-> offsets > 0,
            at |-> claimed + 4 * size + offsets,
            over |-> ~Inside(buf, 0, claimed + 4 * size)]

KeyOf(h, buf, k) == At2(buf, h.keyscards + 4 * k)
CardOf(h, buf, k) == At2(buf, h.keyscards + 4 * k + 2) + 1

KindOf(h, buf, k) ==
  IF h.hasrun /\ BitAt(buf, h.flags, k) THEN "run"
  ELSE IF CardOf(h, buf, k) > DEFAULT_MAX_SIZE THEN "bitset" ELSE "array"

\* The bytes of container k when it starts at byte `at'.
SizeAt(h, buf, k, at) ==
  CASE KindOf(h, buf, k) = "bitset" -> BITSET_SIZE_IN_BYTES
    [] KindOf(h, buf, k) = "array" -> 2 * CardOf(h, buf, k)
    [] KindOf(h, buf, k) = "run" -> 2 + 4 * At2(buf, at)

ReadAt(h, buf, k, at) ==
  CASE KindOf(h, buf, k) = "bitset" -> bitset_container_read(CardOf(h, buf, k), buf, at)
    [] KindOf(h, buf, k) = "array" -> array_container_read(CardOf(h, buf, k), buf, at)
    [] KindOf(h, buf, k) = "run" -> run_container_read(buf, at)

Indices(n) == [k \in 1 .. n |-> k - 1]

\* The size of the bitmap when its header is h, 0 when it is not all there.
SizeFrom(h, buf, maxbytes) ==
  LET step(total, k) ==
        IF total = 0 \/ (KindOf(h, buf, k) = "run" /\ total + 2 > maxbytes) THEN 0
        ELSE LET next == total + SizeAt(h, buf, k, total)
             IN  IF next > maxbytes THEN 0 ELSE next
  IN  IF ~h.ok THEN 0 ELSE FoldLeft(step, h.at, Indices(h.size))

ra_portable_deserialize_size(buf, maxbytes) ==
  SizeFrom(ReadHeader(buf, maxbytes), buf, maxbytes)

NothingRead(over) == [ok |-> FALSE, ra |-> <<>>, readbytes |-> 0, at |-> 0, over |-> over]
HeaderRead(h) ==
  [ok |-> TRUE, ra |-> <<>>, readbytes |-> h.at, at |-> h.at, over |-> h.over]

\* Container k is read at the cursor, which moves by the size of what was read.
TakeAt(s, h, buf, k, at, claimed) ==
  LET c == ReadAt(h, buf, k, at)
      size == container_size_in_bytes(c)
  IN  [ok |-> TRUE, ra |-> Append(s.ra, Entry(KeyOf(h, buf, k), c)),
       readbytes |-> claimed, at |-> at + size,
       over |-> s.over \/ ~Inside(buf, at, size)]

\* Mutant: the count of the runs is read before there is known to be one.
ReadFrom_CountFirst(h, buf, maxbytes) ==
  LET step(s, k) ==
        LET claimed == s.readbytes + SizeAt(h, buf, k, s.at)
            over == s.over \/ (KindOf(h, buf, k) = "run" /\ ~Inside(buf, s.at, 2))
        IN  IF ~s.ok THEN s
            ELSE IF claimed > maxbytes THEN NothingRead(over)
            ELSE TakeAt(s, h, buf, k, s.at, claimed)
  IN  IF ~h.ok THEN NothingRead(FALSE)
      ELSE FoldLeft(step, HeaderRead(h), Indices(h.size))

\* The containers after the header h, one after another.
ReadFrom(h, buf, maxbytes) ==
  LET step(s, k) ==
        LET claimed == s.readbytes + SizeAt(h, buf, k, s.at)
        IN  IF ~s.ok THEN s
            ELSE IF KindOf(h, buf, k) = "run" /\ s.readbytes + 2 > maxbytes
                 THEN NothingRead(s.over)
            ELSE IF claimed > maxbytes THEN NothingRead(s.over)
            ELSE TakeAt(s, h, buf, k, s.at, claimed)
  IN  IF ~h.ok THEN NothingRead(FALSE)
      ELSE FoldLeft(step, HeaderRead(h), Indices(h.size))

ra_portable_deserialize(buf, maxbytes) == ReadFrom(ReadHeader(buf, maxbytes), buf, maxbytes)

\* Mutant: the containers of a bitmap with runs are expected one after another.
ViewFrom_NoOffsets(h, buf) ==
  LET data == IF h.hasrun THEN h.offsets ELSE h.at
  IN  IF ~h.ok THEN NothingRead(FALSE)
      ELSE FoldLeft(LAMBDA s, k : TakeAt(s, h, buf, k, s.at, 0),
                    [HeaderRead(h) EXCEPT !.at = data], Indices(h.size))

\* The containers by their offsets, or one after another when there are none.
ViewFrom(h, buf) ==
  LET step(s, k) ==
        TakeAt(s, h, buf, k,
               IF h.has_offsets THEN At4(buf, h.offsets + 4 * k) ELSE s.at, 0)
  IN  IF ~h.ok THEN NothingRead(FALSE)
      ELSE FoldLeft(step, HeaderRead(h), Indices(h.size))

\* The view is given no length, so it gets whole buffers only.
roaring_bitmap_portable_deserialize_frozen(buf) == ViewFrom(ReadHeader(buf, Len(buf)), buf)
-----------------------------------------------------------------------------
(* The native format: the shorter of the portable one and a list of all    *)
(* the values, after a byte that says which.                               *)

CardinalityOf(ra) == MapThenSumSet(LAMBDA k : container_get_cardinality(ra[k].c), DOMAIN ra)
SizeAsArray(ra) == 4 * CardinalityOf(ra) + 4

roaring_bitmap_size_in_bytes(ra) ==
  LET portablesize == ra_portable_size_in_bytes(ra)
  IN  1 + (IF portablesize < SizeAsArray(ra) THEN portablesize ELSE SizeAsArray(ra))

roaring_bitmap_serialize(ra) ==
  IF ra_portable_size_in_bytes(ra) < SizeAsArray(ra)
  THEN <<CROARING_SERIALIZATION_CONTAINER>> \o ra_portable_serialize(ra)
  ELSE <<CROARING_SERIALIZATION_ARRAY_UINT32>> \o Bytes(4, CardinalityOf(ra))
         \o Joined([k \in DOMAIN ra |->
              LET values == Values2Seq(Elements(ra[k].c))
              IN  Joined([i \in DOMAIN values |->
                            Bytes(4, ra[k].key * ChunkSize + values[i])])])

\* roaring_bitmap_add_bulk of the values in turn, which come in order.
AddValue(ra, value) ==
  LET key == value \div ChunkSize
      low == value % ChunkSize
      i == Len(ra)
  IN  IF ra # <<>> /\ ra[i].key = key
      THEN [ra EXCEPT ![i].c = container_add(@, low)]
      ELSE Append(ra, Entry(key, ArrayOf({low})))

roaring_bitmap_deserialize_safe(buf, maxbytes) ==
  LET card == At4(buf, 1)
      values == [i \in 1 .. card |-> At4(buf, 5 + 4 * (i - 1))]
  IN  IF maxbytes < 1 THEN NothingRead(FALSE)
      ELSE IF buf[1] = CROARING_SERIALIZATION_CONTAINER
           THEN ra_portable_deserialize(Skip(buf, 1), maxbytes - 1)
      ELSE IF buf[1] # CROARING_SERIALIZATION_ARRAY_UINT32
              \/ maxbytes < 1 + 4 \/ maxbytes < 1 + 4 + 4 * card
           THEN NothingRead(FALSE)
      ELSE [NothingRead(~Inside(buf, 5, 4 * card)) EXCEPT
              !.ok = TRUE, !.ra = FoldLeft(AddValue, <<>>, values)]
-----------------------------------------------------------------------------
(* The frozen format: the memory of the containers by type, bitsets first, *)
(* then keys, counts, types and, at the end, the header.  The switch on    *)
(* the types has no case for a shared container.                           *)

TypeCode == [bitset |-> 1, array |-> 2, run |-> 3]

Freezable(ra) == \A e \in ToSet(ra) : ~e.shared

FrozenSize(c) == IF IsRun(c) THEN 4 * Len(c.runs) ELSE container_size_in_bytes(c)
FrozenCount(c) == U16(IF IsRun(c) THEN Len(c.runs) ELSE c.card - 1)

roaring_bitmap_frozen_size_in_bytes(ra) ==
  MapThenSumSet(LAMBDA i : FrozenSize(ra[i].c), DOMAIN ra) + 5 * Len(ra) + 4

Zone(ra, type) == Joined([i \in DOMAIN ra |-> IF ra[i].c.type = type THEN Payload(ra[i].c)
                                                                     ELSE <<>>])

roaring_bitmap_frozen_serialize(ra) ==
  Zone(ra, "bitset") \o Zone(ra, "run") \o Zone(ra, "array")
    \o Halves([i \in DOMAIN ra |-> ra[i].key])
    \o Halves([i \in DOMAIN ra |-> FrozenCount(ra[i].c)])
    \o [i \in DOMAIN ra |-> TypeCode[ra[i].c.type]]
    \o Bytes(4, Len(ra) * 32768 + FROZEN_COOKIE)

FrozenSizeAt(type, count) ==
  CASE type = TypeCode.bitset -> BITSET_SIZE_IN_BYTES
    [] type = TypeCode.run -> 4 * count
    [] type = TypeCode.array -> 2 * (count + 1)

FrozenReadAt(type, count, buf, at) ==
  CASE type = TypeCode.bitset -> bitset_container_read(count + 1, buf, at)
    [] type = TypeCode.run -> RunsAt(count, buf, at)
    [] type = TypeCode.array -> array_container_read(count + 1, buf, at)

\* One cursor a zone: a container starts where the ones of its type before end.
roaring_bitmap_frozen_view(buf, length) ==
  LET header == At2(buf, length - 4)
      n == header \div 32768 + 2 * At2(buf, length - 2)
      type(i) == buf[length - 4 - n + i]
      count(i) == At2(buf, length - 4 - 3 * n + 2 * (i - 1))
      size(i) == FrozenSizeAt(type(i), count(i))
      data(indices) == MapThenSumSet(size, indices)
      zone(code) == { i \in 1 .. n : type(i) = code }
      begin(code) ==
        CASE code = TypeCode.bitset -> 0
          [] code = TypeCode.run -> data(zone(TypeCode.bitset))
          [] code = TypeCode.array -> data(zone(TypeCode.bitset) \cup zone(TypeCode.run))
      at == [i \in 1 .. n |-> begin(type(i)) + data({ j \in zone(type(i)) : j < i })]
  IN  IF \/ length < 4
         \/ header % 32768 # FROZEN_COOKIE
         \/ length < 4 + 5 * n
         \/ \E i \in 1 .. n : type(i) \notin 1 .. 3
         \/ length # data(1 .. n) + 5 * n + 4
      THEN NothingRead(FALSE)
      ELSE [NothingRead(\E i \in 1 .. n : ~Inside(buf, at[i], size(i))) EXCEPT
              !.ok = TRUE,
              !.ra = [i \in 1 .. n |->
                        Entry(At2(buf, length - 4 - 5 * n + 2 * (i - 1)),
                              FrozenReadAt(type(i), count(i), buf, at[i]))]]
-----------------------------------------------------------------------------
(* roaring_bitmap_to_bitset: a plain bitset of words that ends with the    *)
(* word of the largest value.  Its bits, and the words it was written in.  *)

WordBits == 8      \* 64 in the code

Word(v) == v \div WordBits
WordsPerChunk == ChunkSize \div WordBits

WordsCopied(new_array_size, key) ==
  Min({ WordsPerChunk, new_array_size - key * WordsPerChunk })

roaring_bitmap_to_bitset(ra) ==
  LET max_value == IF ra = <<>> THEN 0 ELSE Max(MembersOf(ra))
      new_array_size == Word(max_value) + 1
      base(e) == e.key * WordsPerChunk
      written(e) ==
        IF IsBitset(e.c) THEN base(e) .. base(e) + WordsCopied(new_array_size, e.key) - 1
        ELSE { base(e) + Word(v) : v \in Elements(e.c) }
      bits(e) == { v \in Values : v \in Elements(e.c) /\ base(e) + Word(v) \in written(e) }
  IN  [size |-> new_array_size,
       words |-> UNION { written(e) : e \in ToSet(ra) },
       bits |-> UNION { { e.key * ChunkSize + v : v \in bits(e) } : e \in ToSet(ra) }]
=============================================================================
