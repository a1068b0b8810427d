------------------------------ MODULE Files64 ------------------------------
(***************************************************************************)
(* A 64-bit bitmap that is changed, written to a file in one of its two    *)
(* formats, and read back after a restart.  A write may be torn.           *)
(***************************************************************************)
EXTENDS Format64

CONSTANTS Spans,        \* the ranges that are added and removed, as {min, max}
          MaxChanges,   \* bound on the changes to the bitmap
          TearFrozen    \* whether frozen files are torn, too

Files64Assumption ==
  /\ MaxChanges \in Nat /\ TearFrozen \in BOOLEAN
  /\ \A s \in Spans : s # {} /\ s \subseteq 0 .. KeyCount * ChunkSize - 1

VARIABLES r,         \* the bitmap
          members,   \* the values it holds
          changes,   \* how many changes were made
          file       \* the file, with the bitmap that was written to it

vars == <<r, members, changes, file>>

NoFile == [format |-> "none", bytes |-> <<>>, length |-> 0]
Whole == file.format # "none" /\ Len(file.bytes) = file.length
Torn == file.format # "none" /\ Len(file.bytes) < file.length

Init == r = R64!roaring64_bitmap_create /\ members = {} /\ changes = 0 /\ file = NoFile

Changed(bitmap, set) == /\ changes < MaxChanges /\ file = NoFile
                        /\ bitmap # r
                        /\ r' = bitmap /\ members' = set /\ changes' = changes + 1
                        /\ UNCHANGED file

AddRange(min, max) == Changed(R64!roaring64_bitmap_add_range_closed(r, min, max),
                              members \cup (min .. max))
RemoveRange(min, max) == Changed(R64!roaring64_bitmap_remove_range_closed(r, min, max),
                                 members \ (min .. max))
RunOptimize == Changed(R64!roaring64_bitmap_run_optimize(r), members)

\* This does not count as a change: a bitmap must be packed to be frozen.
ShrinkToFit == /\ file = NoFile /\ ~R64!is_shrunken(r)
               /\ r' = R64!roaring64_bitmap_shrink_to_fit(r)
               /\ UNCHANGED <<members, changes, file>>

Write(format) ==
  LET bytes == IF format = "portable" THEN roaring64_bitmap_portable_serialize(r)
               ELSE roaring64_bitmap_frozen_serialize(r)
  IN  /\ file = NoFile
      /\ format = "frozen" => R64!is_shrunken(r)
      /\ file' = [format |-> format, bytes |-> bytes, length |-> Len(bytes)]
      /\ UNCHANGED <<r, members, changes>>

Tear(n) == /\ Whole /\ n < file.length
           /\ file.format = "frozen" => TearFrozen
           /\ file' = [file EXCEPT !.bytes = SubSeq(@, 1, n)]
           /\ UNCHANGED <<r, members, changes>>

Read == IF file.format = "portable"
        THEN roaring64_bitmap_portable_deserialize_safe(file.bytes, Len(file.bytes))
        ELSE roaring64_bitmap_frozen_view(file.bytes, Len(file.bytes))

\* A frozen view is readonly, so the program goes on with a copy of it.
GoOnWith(read) ==
  /\ read.ok
  /\ r' = IF file.format = "portable" THEN read.r ELSE R64!roaring64_bitmap_copy(read.r)

Restart == /\ Whole
           /\ GoOnWith(Read)
           /\ file' = NoFile
           /\ UNCHANGED <<members, changes>>

Discard == file # NoFile /\ file' = NoFile /\ UNCHANGED <<r, members, changes>>

Next == \/ \E s \in Spans : AddRange(Min(s), Max(s)) \/ RemoveRange(Min(s), Max(s))
        \/ RunOptimize \/ ShrinkToFit
        \/ \E format \in {"portable", "frozen"} : Write(format)
        \/ \E n \in 0 .. file.length - 1 : Tear(n)
        \/ Restart \/ Discard

Spec == Init /\ [][Next]_vars
-----------------------------------------------------------------------------
(* Properties.                                                             *)

ByKey(bitmap) == [key \in DOMAIN bitmap.art |-> R64!get_container(bitmap, key)]
Contents(bitmap) ==
  UNION { { key * ChunkSize + v : v \in Elements(R64!get_container(bitmap, key)) } :
          key \in DOMAIN bitmap.art }

\* Whatever the bitmap went through, restarts from both formats included, it
\* holds the values that were put into it and passes the library's validation.
HoldsMembers == Contents(r) = members /\ R64!roaring64_bitmap_internal_validate(r)

\* A writer fills exactly the bytes that the size function announced, which is
\* what a caller allocates: padding and all.
WritesItsSize ==
  Whole => file.length = IF file.format = "portable"
                         THEN roaring64_bitmap_portable_size_in_bytes(r)
                         ELSE roaring64_bitmap_frozen_size_in_bytes(r)

\* A reader of a whole file finds each container under its key again, whatever
\* slot it had, and reads nothing past the end.
SameAs(read, bitmap) == read.ok /\ ~read.over /\ ByKey(read.r) = ByKey(bitmap)
RoundTrip == Whole => SameAs(Read, r)

\* A portable file that was cut short is recognised by every reader, and none
\* reads past its end to find out.
Rejects(read) == ~read.ok /\ ~read.over
TornRejected ==
  Torn /\ file.format = "portable" =>
    /\ Rejects(Read)
    /\ Rejects(roaring64_bitmap_portable_deserialize_frozen(file.bytes, Len(file.bytes)))
    /\ roaring64_bitmap_portable_deserialize_size(file.bytes, Len(file.bytes)) = 0

\* A view of a portable file sees what a reader copies, and both stop where the
\* size function says that the bitmap ends, whatever follows.
Agree(view, copy) ==
  /\ SameAs(view, copy.r)
  /\ view.read_bytes = file.length /\ copy.read_bytes = file.length
ViewsAgree ==
  Whole /\ file.format = "portable" =>
    LET buf == file.bytes \o [i \in 1 .. 9 |-> 255]
    IN  /\ Agree(roaring64_bitmap_portable_deserialize_frozen(buf, Len(buf)),
                 roaring64_bitmap_portable_deserialize_safe(buf, Len(buf)))
        /\ roaring64_bitmap_portable_deserialize_size(buf, Len(buf)) = file.length
=============================================================================
