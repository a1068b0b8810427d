---------------------------- MODULE BitmapFiles ----------------------------
(***************************************************************************)
(* A 32-bit bitmap that is changed, written to a file in one of the three  *)
(* formats, and read back after a restart.  A write may be torn: the file  *)
(* then holds a prefix of the bytes.                                       *)
(***************************************************************************)
EXTENDS BitmapFormat

CONSTANTS KeyCount,       \* 2^16: how many keys there are
          Spans,          \* the ranges that are added and removed, as {min, max}
          MaxChanges,     \* bound on the changes to the bitmap
          FreezeShared    \* whether bitmaps with shared containers are frozen

FilesAssumption ==
  /\ KeyCount \in 1 .. ChunkSize
  /\ \A s \in Spans : s # {} /\ s \subseteq 0 .. KeyCount * ChunkSize - 1

VARIABLES ra,        \* the key array of the bitmap
          members,   \* the values it holds
          changes,   \* how many changes were made
          file       \* the file, with what was written to it
vars == <<ra, members, changes, file>>

Formats == {"portable", "native", "frozen"}
NoFile == [format |-> "none", bytes |-> <<>>, of |-> <<>>, length |-> 0, defined |-> TRUE]

Whole == file.format # "none" /\ Len(file.bytes) = file.length
Torn == file.format # "none" /\ Len(file.bytes) < file.length
-----------------------------------------------------------------------------
(* The bitmap.                                                             *)

LowestIn(min, key) == IF key = min \div ChunkSize THEN min % ChunkSize ELSE 0
HighestIn(max, key) == IF key = max \div ChunkSize THEN max % ChunkSize ELSE ChunkSize - 1
KeysIn(min, max) == min \div ChunkSize .. max \div ChunkSize

\* The entries of a function from keys to containers, in key order.
InOrder(f) == LET keys == Values2Seq(DOMAIN f) IN [i \in DOMAIN keys |-> f[keys[i]]]
ByKey(r) == [key \in { e.key : e \in ToSet(r) } |-> CHOOSE e \in ToSet(r) : e.key = key]

\* The containers of the range are unshared, extended or made.
roaring_bitmap_add_range_closed(r, min, max) ==
  LET f == ByKey(r)
      made(key) == LET lo == LowestIn(min, key)
                       hi == HighestIn(max, key)
                   IN  Entry(key, IF key \in DOMAIN f THEN container_add_range(f[key].c, lo, hi)
                                  ELSE container_from_range(lo, hi + 1, 1))
  IN  InOrder([key \in DOMAIN f \cup KeysIn(min, max) |->
                 IF key \in KeysIn(min, max) THEN made(key) ELSE f[key]])

roaring_bitmap_remove_range_closed(r, min, max) ==
  LET cut(e) == IF e.key \notin KeysIn(min, max) THEN e
                ELSE Entry(e.key, container_remove_range(e.c, LowestIn(min, e.key),
                                                         HighestIn(max, e.key)))
  IN  SelectSeq([i \in DOMAIN r |-> cut(r[i])], LAMBDA e : e.c # NULL)

roaring_bitmap_run_optimize(r) ==
  [i \in DOMAIN r |-> Entry(r[i].key, convert_run_optimize(r[i].c))]

roaring_bitmap_remove_run_compression(r) ==
  [i \in DOMAIN r |->
     IF IsRun(r[i].c)
     THEN Entry(r[i].key, convert_to_bitset_or_array_container(r[i].c.runs)) ELSE r[i]]

\* roaring_bitmap_copy of a copy-on-write bitmap leaves its containers shared.
roaring_bitmap_copy(r) == [i \in DOMAIN r |-> [r[i] EXCEPT !.shared = TRUE]]

Init == ra = <<>> /\ members = {} /\ changes = 0 /\ file = NoFile

Changed(r, m) == /\ changes < MaxChanges
                 /\ r # ra
                 /\ ra' = r /\ members' = m /\ changes' = changes + 1
                 /\ file' = NoFile

AddRange(min, max) == Changed(roaring_bitmap_add_range_closed(ra, min, max),
                              members \cup (min .. max))
RemoveRange(min, max) == Changed(roaring_bitmap_remove_range_closed(ra, min, max),
                                 members \ (min .. max))
RunOptimize == Changed(roaring_bitmap_run_optimize(ra), members)
RemoveRuns == Changed(roaring_bitmap_remove_run_compression(ra), members)
Share == Changed(roaring_bitmap_copy(ra), members)
-----------------------------------------------------------------------------
(* The file.                                                               *)

Serialized(format, r) ==
  CASE format = "portable" -> ra_portable_serialize(r)
    [] format = "native" -> roaring_bitmap_serialize(r)
    [] format = "frozen" -> roaring_bitmap_frozen_serialize(r)

SizeInBytes(format, r) ==
  CASE format = "portable" -> ra_portable_size_in_bytes(r)
    [] format = "native" -> roaring_bitmap_size_in_bytes(r)
    [] format = "frozen" -> roaring_bitmap_frozen_size_in_bytes(r)

\* The frozen writer has no defined outcome for a shared container.
Write(format) ==
  LET defined == format = "frozen" => Freezable(ra)
      bytes == IF defined THEN Serialized(format, ra) ELSE <<>>
  IN  /\ file = NoFile
      /\ defined \/ FreezeShared
      /\ file' = [format |-> format, bytes |-> bytes, of |-> ra, length |-> Len(bytes),
                  defined |-> defined]
      /\ UNCHANGED <<ra, members, changes>>

Tear(n) == /\ Whole /\ n < file.length
           /\ file' = [file EXCEPT !.bytes = SubSeq(@, 1, n)]
           /\ UNCHANGED <<ra, members, changes>>

\* What a reader that knows the length of the file returns.
Read == CASE file.format = "portable" -> ra_portable_deserialize(file.bytes, Len(file.bytes))
          [] file.format = "native" -> roaring_bitmap_deserialize_safe(file.bytes, Len(file.bytes))
          [] file.format = "frozen" -> roaring_bitmap_frozen_view(file.bytes, Len(file.bytes))

\* A restart loads the bitmap.  A frozen view is not to be changed, so the
\* program goes on with a copy, which clones what it views.
Restart == /\ Whole /\ file.defined /\ file.of = ra
           /\ Read.ok
           /\ ra' = Read.ra
           /\ file' = NoFile
           /\ UNCHANGED <<members, changes>>

\* The file is given up, a torn one always.
Discard == file # NoFile /\ file' = NoFile /\ UNCHANGED <<ra, members, changes>>

Next == \/ \E s \in Spans : AddRange(Min(s), Max(s)) \/ RemoveRange(Min(s), Max(s))
        \/ RunOptimize \/ RemoveRuns \/ Share
        \/ \E format \in Formats : Write(format)
        \/ \E n \in 0 .. file.length - 1 : Tear(n)
        \/ Restart \/ Discard

Spec == Init /\ [][Next]_vars
-----------------------------------------------------------------------------
(* Properties.                                                             *)

TypeOK == /\ members \subseteq 0 .. KeyCount * ChunkSize - 1
          /\ \A e \in ToSet(ra) : e.key \in 0 .. KeyCount - 1 /\ e.shared \in BOOLEAN
          /\ file.bytes \in Seq(0 .. 255)

\* Whatever the bitmap went through, restarts from each format included, it
\* holds the values that were put into it.
HoldsMembers == MembersOf(ra) = members

\* A writer fills exactly the bytes that the size function of its format
\* announced, which is what a caller allocates for it.
WritesItsSize ==
  Whole /\ file.defined => file.length = SizeInBytes(file.format, file.of)

\* The bitmap that a reader makes of a whole file has the keys, values and
\* container types of the one that was written, claims every byte of it and
\* reads no other.  (A native list of values is rebuilt value by value.)
RoundTrip ==
  Whole /\ file.defined =>
    LET r == Read
    IN  /\ r.ok /\ ~r.over
        /\ MembersOf(r.ra) = MembersOf(file.of)
        /\ \A e \in ToSet(r.ra) : container_get_cardinality(e.c) = Cardinality(Elements(e.c))
        /\ \/ file.format = "native" /\ file.bytes[1] = CROARING_SERIALIZATION_ARRAY_UINT32
           \/ r.ra = [i \in DOMAIN file.of |-> [file.of[i] EXCEPT !.shared = FALSE]]
        /\ file.format = "portable" => r.readbytes = file.length /\ r.at = file.length

\* A torn file does no harm.  The portable and native readers recognise it.  The
\* frozen view looks for the header at the end, so a prefix whose last four bytes
\* happen to be the cookie can pass for a file; but it accepts none that is not
\* exactly as long as the bitmap in it asks for.  No reader reads past the end.
TornRejected ==
  Torn => /\ LET r == Read
             IN  /\ ~r.over
                 /\ r.ok => /\ file.format = "frozen"
                            /\ roaring_bitmap_frozen_size_in_bytes(r.ra) = Len(file.bytes)
          /\ file.format = "portable" =>
               ra_portable_deserialize_size(file.bytes, Len(file.bytes)) = 0

\* Bytes that follow a portable bitmap are left alone: the size that is found
\* is the size that was written.
SizeFound ==
  Whole /\ file.format = "portable" =>
    \A extra \in {0, 1, 9} :
      LET buf == file.bytes \o [i \in 1 .. extra |-> 255]
      IN  /\ ra_portable_deserialize_size(buf, Len(buf)) = file.length
          /\ ra_portable_deserialize(buf, Len(buf)).readbytes = file.length

\* A view that finds the containers by the offsets of the header sees what a
\* reader that goes from one to the next copies.
ViewsAgree ==
  Whole /\ file.format = "portable" =>
    LET view == roaring_bitmap_portable_deserialize_frozen(file.bytes)
    IN  view.ok /\ ~view.over /\ view.ra = Read.ra

\* The plain bitset has a bit for every value, and no word past its end is
\* written.
BitsetAgrees ==
  file = NoFile =>
    LET b == roaring_bitmap_to_bitset(ra)
    IN  b.bits = members /\ \A w \in b.words : w < b.size
=============================================================================
