------------------------------ MODULE MCFiles ------------------------------
(***************************************************************************)
(* The other forms that a bitmap is kept in, in one instance for TLC: the  *)
(* files of a 32-bit bitmap (BitmapFiles) and of a 64-bit one (Files64),   *)
(* and the uncompressed bitset (PlainBitset).  A behaviour is of the one   *)
(* that scope names.                                                       *)
(***************************************************************************)
EXTENDS Format64

CONSTANTS Spans64, Spans32, MaxChanges,
          TearFrozen,      \* of Files64
          FreezeShared,    \* of BitmapFiles
          Unusual          \* of PlainBitset

VARIABLES scope,           \* the machine that the behaviour is of
          members,
          changes, file,   \* of Files64 and BitmapFiles
          r,               \* of Files64
          ra,              \* of BitmapFiles
          bitset, memory   \* of PlainBitset

vars == <<scope, members, changes, file, r, ra, bitset, memory>>

F64 == INSTANCE Files64 WITH Spans <- Spans64
\* Ten keys: enough for a file with and without the table of offsets.
F32 == INSTANCE BitmapFiles WITH KeyCount <- 10, Spans <- Spans32
Plain == INSTANCE PlainBitset WITH WordBits <- 3, MaxWords <- 3

ASSUME FilesAssumption ==
  F64!Files64Assumption /\ F32!FilesAssumption /\ Plain!BitsetAssumption

\* The value of the variables that a machine does not have.
None == "none"

Init ==
  \/ scope = "files64" /\ F64!Init /\ ra = None /\ bitset = None /\ memory = None
  \/ scope = "files32" /\ F32!Init /\ r = None /\ bitset = None /\ memory = None
  \/ scope = "bitset" /\ Plain!Init /\ changes = None /\ file = None /\ r = None /\ ra = None

Next ==
  \/ scope = "files64" /\ F64!Next /\ UNCHANGED <<scope, ra, bitset, memory>>
  \/ scope = "files32" /\ F32!Next /\ UNCHANGED <<scope, r, bitset, memory>>
  \/ scope = "bitset" /\ Plain!Next /\ UNCHANGED <<scope, changes, file, r, ra>>

Spec == Init /\ [][Next]_vars
-----------------------------------------------------------------------------
\* Whatever a bitmap went through, restarts from each of its formats included,
\* it holds the values that were put into it; so does a bitset, whatever stale
\* words its buffer had when it grew, shrank or was shifted, and its counts, ends,
\* searches, iterations and comparisons say so (bitset_next_set_bits,
\* bitset_maximum, bitset_contains_all).
HoldsMembers ==
  /\ scope = "files64" => F64!HoldsMembers
  /\ scope = "files32" => F32!HoldsMembers
  /\ scope = "bitset" => /\ Plain!HoldsMembers /\ Plain!TypeOK
                         /\ Plain!SingleQueriesAgree /\ Plain!WalksAgree
                         /\ Plain!PairQueriesAgree

\* A writer fills exactly the bytes that the size function of its format
\* announced, which is what a caller allocates for it, padding and all; a reader
\* of the whole file makes the bitmap that was written, with the same containers,
\* and reads nothing past the end, in every format.
RoundTrip ==
  /\ scope = "files64" => F64!WritesItsSize /\ F64!RoundTrip
  /\ scope = "files32" => F32!TypeOK /\ F32!WritesItsSize /\ F32!RoundTrip

\* No reader takes a torn file for a bitmap, nor reads past its end to find out; the
\* frozen view of a 32-bit bitmap, whose header comes last, may accept a prefix, but
\* one that is exactly as long as the bitmap it shows.  (The frozen format of a
\* 64-bit bitmap is left out.)
TornRejected ==
  /\ scope = "files64" => F64!TornRejected
  /\ scope = "files32" => F32!TornRejected

\* A view of a portable file, which finds the containers where they are, sees what
\* a reader that goes from one to the next copies; the size that is found in the
\* file is the size that was written, and bytes that follow are left alone; a
\* bitset that is made from a bitmap has a bit for every value, and no word past its
\* end is written (roaring_bitmap_portable_deserialize_frozen,
\* ra_portable_deserialize_size, roaring_bitmap_to_bitset).
ViewsAgree ==
  /\ scope = "files64" => F64!ViewsAgree
  /\ scope = "files32" => F32!ViewsAgree /\ F32!SizeFound /\ F32!BitsetAgrees

\* No call on a bitset leaves its buffer or uses one that was given back
\* (bitset_grow, bitset_shift_left, bitset_shift_right).
MemorySafe == scope = "bitset" => Plain!MemorySafe
=============================================================================
