# CRoaring: a TLA+ verification project

CRoaring stores sets of 32-bit (and 64-bit) integers. The 32-bit values are cut
into chunks of 2^16: the high half of a value is its *key*, and a bitmap is a
sorted array of keys with one *container* per key that holds the low halves.
A container is a sorted array, a bitset of 8192 bytes or a sequence of runs,
whichever is small, or a reference-counted wrapper around one of these that
several bitmaps share (copy-on-write).

Paths below are relative to the repository (`src/` in `PROJECT.json` is its
root). Definitions carry the names of the functions they model; `PROJECT.json`
maps each of them to its lines.

## 1. Inventory

| Component | State | Operations | Depends on |
|---|---|---|---|
| copy-on-write (`containers.c`, `roaring_array.c`, refcounts of `portability.h`) | `shared_container_t`: container, counter; the slots that point to it | `get_copy_of_container`, `shared_container_extract_copy`, `shared_container_free`, every update of a bitmap that must unshare first | the only state that threads share |
| run container (`run.h`, `run.c`) | sorted `rle16_t` (value, length - 1), capacity | add, remove, add/remove range, union, intersection, xor, andnot, offset, rank, select, range queries | - |
| array container, `array_util` | sorted `uint16_t`, cardinality | the same, on sorted arrays; galloping and SIMD merges | - |
| bitset container, `bitset_util` | 1024 words, cardinality, which may be *unknown* (-1) | the same, on words | - |
| dispatch and conversions (`containers.h`, `convert.c`, `mixed_*.c`) | the type code next to each container pointer | one algorithm per pair of types; conversions at 4096 values; lazy operations and their repair | the three containers |
| key array (`roaring_array.c`) | keys, containers, type codes, allocation | insert, remove, shift, copy, search | containers |
| 32-bit bitmap (`roaring.c`) | a key array and flags | points, ranges, flips, offsets, set operations on two bitmaps, aggregations of many (`or_many_heap`: `roaring_priority_queue.c`), bulk contexts, statistics, comparisons | key array, containers |
| iterators (`roaring.c`, `containers.c`) | position in the key array and in the container | next, previous, seek, read blocks, skip | key array, containers |
| serialization (`roaring_array.c`, `roaring.c`) | buffers | portable, native and frozen formats | key array, containers |
| adaptive radix tree (`art.c`) | nodes of 4, 16, 48, 256 children with compressed prefixes | insert, erase, find, iterators, freeze | - |
| 64-bit bitmap (`roaring64.c`) | a tree from 48-bit keys to container slots, free list | as the 32-bit bitmap | tree, containers |
| `bitset.c` | uncompressed bitset: words, size, capacity | grow, trim, shift, set operations | - |
| C++ wrappers (`cpp/`) | `Roaring`, `Roaring64` (one C bitmap each); `Roaring64Map`: a `std::map` of bitmaps and a flag | delegates; `Roaring64Map`: points, ranges, set operations, iterators, files over the inner bitmaps | the C library |
| `isadetection.c`, `memory.c`, SIMD kernels | function pointers, CPU features | - | - |

**How parts interact.** Everything is a direct call: `roaring.c` looks up a key,
unshares the container if it is to be written, passes it with its type code to
`containers.h`, gets a container and a type code back, and stores or removes
the entry. There are no callbacks (except user iterators), messages or timers.
The only concurrency is between threads that own *different* bitmaps whose
slots lead to the *same* shared container.

**What is hard here.**

- *Sharing between threads*: load, increment and decrement of the counter by
  threads that clone, take and free the same container (module
  `SharedContainer`). Correct means: exact counts, no use after free, no leak,
  no data race, and no bitmap sees an update of another one.
- *Runs*: lengths are one less than counts, ends may be 2^16 in 16-bit types,
  neighbours merge and split; one algorithm rewrites its input in place. Correct
  means: the right set, in the one valid form that all searches rely on.
- *Types and lazy cardinalities*: about 60 pairs of types and operations; each
  result must have the type that its cardinality asks for, and no operation may
  calculate with the cardinality -1.
- *The key array*: a range call opens a gap in the array, then merges entries
  while it overwrites the array from the back; flips count partial first and
  last chunks apart; public calls take 64-bit ends, the inner ones 32-bit ends.
- *Caches that outlive what they were computed from*: bulk contexts keep a
  container or a leaf between calls, iterators keep frames of tree nodes, the
  64-bit iterator keeps the rest of a bitset word. Correct means: used only while
  it describes the bitmap.
- *Ownership*: operations in place move, copy, share, free or keep each
  container of two bitmaps; `or_many_heap` mixes inputs and temporaries; a copy
  may run out of memory half-way. Correct means: nothing freed twice, used after
  it was freed or lost, and the flag of copy-on-write wherever something is shared.
- *Memory with holes*: nodes of the tree and containers of the 64-bit bitmap
  live in arrays with free lists; growth, shrinking and removal move them.
- *Files*: sizes, offsets, flags and alignment are computed by the writer, the
  size calls, the readers and the views, each on its own; a torn file must
  not be taken for another bitmap, and the frozen format keeps its header at the end.
- *Words*: the uncompressed bitset shifts across words with unsigned indices and
  leaves old words behind its end.
- *Empty inner bitmaps* in `Roaring64Map`: every loop has to allow for them.

The hazards, line by line, are in `PROJECT.json`.

## 2. Modules

| Module | Models | Used by |
|---|---|---|
| `IndependentBitmaps` | abstract: every bitmap is a value of its own; an operation changes one value | the refinement in `SharedContainer` |
| `SharedContainer` | copy-on-write with threads, one access to shared memory per step | `MCSharedContainer` (TLC), `SharedContainerProofs` (TLAPS) |
| `RunContainer` | the functions of `run.h` / `run.c`, as operators on sequences of runs | `RunChunk`, `Container` |
| `RunChunk` | state machine: a run container in lockstep with the set it stands for | `MCContainers` |
| `Container` | dispatch, conversions, lazy operations, comparisons | `ContainerChunk` |
| `ContainerChunk` | state machine: the container of one key, of any type, in lockstep with its set | `MCContainers` |
| `RoaringArray` | the key array and the range calls of `roaring.c`, as operators on the sequence of entries | `BitmapRanges` |
| `BitmapRanges` | state machine: a bitmap under range calls, in lockstep with its set; the loop of `from_range` | TLC, directly |
| `ContainerQueries` | queries on one and two containers, word by word, entry by entry or run by run | `ContainerCursor`, `BitmapQueries`, `Roaring64` |
| `SortedCursor` | abstract: a cursor into a sorted set; every iterator refines it | the refinements in `MCContainers`, `MCBitmap64` |
| `ContainerCursor` | the iterator of one container, per type | `ContainerWalk`, `Iterator32`, `Iterator64` |
| `ContainerWalk` | state machine: an iterator over any container | `MCContainers` |
| `Iterator32` | operators and state machine: the iterator of a 32-bit bitmap and the calls that list values | `MCContainers` |
| `ContainerHeap` | containers and shared containers as objects on a heap, with counts | `BulkContext`, `SetOperations` |
| `BulkContext` | state machine: two bitmaps and the contexts of bulk calls | `MCBitmaps` |
| `SetOperations` | set operations on two and many bitmaps as merges of key arrays over the heap; the priority queue | `BitmapAlgebra` |
| `BitmapQueries` | rank, select, comparisons and cardinalities of bitmaps | `BitmapAlgebra` |
| `BitmapAlgebra` | state machine: three bitmaps under all set operations, copies and aggregations | `MCBitmaps` |
| `BitmapFormat` | the portable, native and frozen formats byte by byte: writers, sizes, readers, views | `BitmapFiles`, `Format64` |
| `BitmapFiles` | state machine: change, write, tear, restart, read | `MCFiles` |
| `OrderedMap` | abstract: a map with ordered keys and a cursor | the refinement in `ArtMap` |
| `ArtNodes`, `ArtTree` | node types with their slots and free lists; paths, prefixes, iterators, shrinking, the serialized form | `ArtMap` |
| `ArtMap` | state machine: a tree and an iterator; refines `OrderedMap` | `MCArtMap` (TLC) |
| `Roaring64` | the 64-bit bitmap: leaves, container slots, every operation | `Bitmap64`, `Iterator64`, `Format64` |
| `Bitmap64` | state machine: a 64-bit bitmap in lockstep with its set; bulk contexts | `MCBitmap64` |
| `Iterator64` | the iterator of a 64-bit bitmap with its word cache | `MCBitmap64` |
| `Format64`, `Files64` | the two 64-bit formats; the state machine of files | `MCFiles` |
| `PlainBitset` | the uncompressed bitset and its state machine | `MCFiles` |
| `Roaring64Map`, `Maps64` | the C++ map of bitmaps; the state machine of two of them | TLC, directly |
| `SharedContainerProofs` | proofs: the invariants of copy-on-write; it implements `IndependentBitmaps` | TLAPS |
| `FoldFacts` | proofs: folds over sequences and sets; segments of a sequence and what inserting, removing and joining does to them | `RoaringArrayProofs`, `BulkContextProofs`, `Maps64Proofs`, `PlainBitsetProofs` |
| `Maps64Proofs` | proofs: contents and flags of two maps | `Maps64QueryProofs` |
| `Maps64QueryProofs` | proofs: queries, iterators and files of these maps | TLAPS |
| `RoaringArrayProofs` | proofs: what a segment of a key array holds, and what each call of `RoaringArray` does to it | `BitmapRangesProofs` |
| `BitmapRangesProofs` | proofs: contents of a bitmap under range calls, and its queries | TLAPS |
| `BulkContextProofs` | proofs: contents, ownership and contexts of two bitmaps that share containers | TLAPS |
| `PlainBitsetProofs` | proofs: contents and memory of the uncompressed bitset | TLAPS |
| `MCSharedContainer`, `MCContainers`, `MCBitmaps`, `MCFiles`, `MCBitmap64`, `MCArtMap` | instances for TLC | the runs |

**`SharedContainer`.** A bitmap is one slot: `NULL`, a container or a wrapper.
`heap[c]` is the set of elements of a container, empty when it is free (no
allocated container is ever empty). A thread inside a call has a `pc` that
names the access it is about to finish: `take` and `clone` are the two branches
of `shared_container_extract_copy` after its load of the counter, `drop` and
`release` the decrement of `shared_container_free` and what follows it, `share` is
`get_copy_of_container`, `compute` and `write` are container operations that
make a new container or change a private one. The load of the counter and the
action on its value are separate steps, so other threads get in between. A
bitmap has one owner at a time and may be handed over between calls: this is
what the documentation asks of callers. A read or a write of a container lasts
while the thread's `pc` stays there, so `NoDataRace` is a statement about overlaps.

**`RunContainer`, `Container`.** Runs are sequences of `[value, length]` as in
memory. Arrays and bitsets are the set of values they hold and their
cardinality *field*, which the operations update, trust or leave unknown just
as the code does. The decisions (which loop, which type, which early return)
follow the code; word-parallel and vectorized loops are the set operation they
compute. In-place negation works on the buffer itself.

**`RoaringArray`.** Here a container is a set. Indices, `-i - 1` results of
searches, gaps with undefined content (`Junk`) and 32-bit truncations are the
code's; `U32` is the cast to `uint32_t`.

**`ContainerQueries`, `ContainerCursor`.** Here the order of an array and the
words of a bitset matter: a bitset is scanned `WordBits` values at a time, an
array by the searches of `array_util.h`. An iterator is the index and the value of
`roaring_container_iterator_t`, with what the code leaves in them at the ends.

**`ContainerHeap`, `SetOperations`, `BulkContext`.** A container is an object
with an address; a freed object stays freed, and any use of it sets `touched`.
Entries of a key array are address and type code, as in the code. An operation
in place may work in the memory of its first container or make a new one:
`reuse` takes both. `SetOperations` walks the key arrays as the loops do and calls
`Container` for a common key. Copies may fail at any container.

**`ArtNodes`, `ArtTree`, `ArtMap`.** A reference is a type and an index into the
array of nodes of that type; free slots form the list that the code threads
through them. Key length, fan-out and the sizes of the node types are
constants. `ArtMap` starts from every tree that insertions build.

**`Roaring64`.** The tree is replaced by the ordered map that `ArtMap` is shown to
implement; leaves (slot and type code), the array of containers with its holes
and `first_free` are the code's. A bulk context is zeroed by every call but the bulk ones, as
the documentation asks. `Usable` in `Bitmap64` is narrower than the documentation, which
lets a context be used across all bulk calls: it leaves out those that go through a leaf
that `remove_bulk` erased and kept in the context (section 4).

**`BitmapFormat`, `Format64`.** Files are sequences of bytes. A reader has two
accounts, the bytes it has claimed and the cursor it reads at, as
`ra_portable_deserialize` has; `over` records a read behind the end. `Tear` cuts a
file at any byte, `Restart` forgets the bitmap and reads the file.

**`PlainBitset`.** A word is the set of its bits. Words behind `arraysize` keep
what was there, and words that `realloc` adds hold anything. An access outside of
the buffer, or to a buffer that was given back, ends the behaviour in
`memory`; `Unusual` names the three kinds of calls that lead there and that the
passing run leaves out.

**`Roaring64Map`.** An inner `Roaring` is the set of its values and its
copy-on-write flag; an iterator of the `std::map` is a key or `Highs` for `end()`.
An exception is an outcome: `Throws` in the place of a number, `"throws"` beside
`"true"` and `"false"` for `isStrictSubset`, which counts both maps when the first is a
subset of the second.

**The MC modules.** `MCContainers`, `MCBitmaps`, `MCFiles` and `MCBitmap64` each put the
machines about one part of the library into one instance: a variable `scope`,
chosen by `Init` and never changed, says which machine a behaviour is of, and the
variables of the others are `None`. Each property says for which scopes it
speaks. Machines that extend the same operator modules have the same constants
there.

The state machines (`RunChunk`, `ContainerChunk`, `BitmapRanges`, `BulkContext`,
`BitmapAlgebra`, `BitmapFiles`, `Bitmap64`, `Files64`, `PlainBitset`, `Maps64`) have the
same shape: an action calls the code's function on the representation and
applies the set operation of the documentation to a set. That both stay
equal is the functional correctness of the code, and since the state is what
*sequences* of calls reach, so is the validity of each intermediate form. The
iterators and the tree are instead shown to refine an abstract specification.

**Parts that are modelled once and used abstractly elsewhere.** `Roaring64` uses
the map of `OrderedMap` for the tree (refined by `ArtMap`), `RoaringArray` and
`Roaring64Map` use sets for containers and bitmaps (`Container`, `SetOperations` and
the others show that they behave as sets).

## 3. Runs

| Run | Shows | Distinct states; time |
|---|---|---|
| `SharedContainer_safety` | types, exact counters, no use after free, one holder per container, no leaked wrapper, no data race; and that the whole refines `IndependentBitmaps` (copy-on-write cannot be observed) | 77,484; 28 s |
| `SharedContainer_liveness` | an unreferenced wrapper is freed, every call returns | 351,892; 45 s |
| `SharedContainer_shrink` | *violation*: `shrink_to_fit` races (finding 1) | |
| `Containers` | contents, validity and cardinalities of runs and of containers of every type under every operation; minimal size after `run_optimize`; in-place negation; queries and comparisons; iterators over a container and over a bitmap refine `SortedCursor`, deliver what was asked and stay inside their containers; listings | 72,527; 214 s |
| `BitmapRanges` | contents, sorted keys, range queries, `from_range` returns | 4,466; 27 s |
| `BitmapRanges_wide` | *violation*: 64-bit ends above 2^32 (finding 2) | |
| `BitmapRanges_loop` | *violation*: `from_range` with a large step (finding 3) | |
| `Bitmaps` | every operation on pairs and triples of bitmaps, also two in a row: contents, memory, flags; queries and comparisons; the priority queue polls the smallest; bulk contexts stay current | 216,808; 157 s |
| `Files` | written sizes, round trips, torn files, size probe, views, work after a restart, for the three 32-bit and the two 64-bit formats; conversion to a bitset; values, memory, queries and walks of the uncompressed bitset | 165,401; 116 s |
| `ArtMap` | nodes through all types and back, prefixes over three levels, climbing iterators: refinement of `OrderedMap`, searches, validation, slots, free lists, shrinking, frozen views | 88,592; 219 s |
| `Bitmap64` | leaves, slots and holes agree; contents, counts, ranges, comparisons, packing; the iterator refines `SortedCursor` and its word cache describes its position | 43,161; 103 s |
| `Maps64` | values, cleanup, flags, queries, iterators, both formats of `Roaring64Map`, with and without copy-on-write, and with empty bitmaps from files of other writers | 34,825; 56 s |

**Bounds, and why they are enough.**

- `SharedContainer`: three bitmaps and two threads give a thread that drops a
  reference while the other clones, takes or copies, with a third reference that
  keeps the container alive or not. Two wrappers and four containers leave
  room for a container in every slot and one that a thread is building; a step
  that needs memory when there is none is not enabled, so the bound on addresses
  only cuts behaviours off, and the proofs do without it. In the liveness run two bitmaps
  need at most two containers in slots or wrappers and two more being built, so
  that memory never runs out and fairness is not weakened. Addresses, bitmaps
  and threads are symmetric in the safety run; the liveness run uses no symmetry.
- `Containers`: `2 * DEFAULT_MAX_SIZE < ChunkSize` as in the code (4096 and
  65536). With 8 values and a limit of 3, every type occurs below, at and above
  the limit and up to the full chunk; there are up to 4 runs, and runs that touch
  either end of the chunk. Operands are all valid containers, so every pair of
  types is dispatched. A bitset takes 7 bytes: an array of 3 values and one run
  (6 bytes) are smaller, two runs (10) and an array of 4 are larger, so that
  `run_optimize` decides each way. The thresholds `ARRAY_LAZY_LOWERBOUND` and
  `arbitrary_threshold` are 2, with values on both sides. Words of 2 bits give
  bits at both borders of a word, empty words and runs across words; three chunks
  give the iterator of a bitmap a first, a middle and a last one, each missing or
  of any type. Block sizes are below, at and above what is there.
- `BitmapRanges`: 4 keys give a range a first, a middle and a last chunk and a
  key beside it; 3 values per chunk give partial chunks at either end. All ends,
  offsets and steps in the 32-bit range are taken. Its callers pass ends up to
  2^32 and steps for which the loop of `from_range` does not wrap; the two
  violation runs are what happens to the others.
- `Bitmaps`: three keys make a merge start, end or go on with either
  bitmap; the sets `{}`, `{0}` and `{1, 2}` of a chunk give arrays and bitsets or
  runs, with results that are empty, equal or full. Containers are shared by
  copying beforehand. Bitmaps on the first two keys (`ChainKeys`) get two calls in
  a row, the others one; queries are compared before the first call, where all
  combinations of bitmaps are. Two keys with two values and four calls are enough
  to fill a bulk context, invalidate it by copy, growth or removal, and use it twice.
- `Files`: ten keys of a 32-bit bitmap are beyond the four containers up to which
  offsets are omitted and the eight whose flags fit into a byte; the chunk of 32
  values makes whole bytes of bitsets. `FROZEN_COOKIE` is 5, a value of the small chunk
  as 13766 is one of the real chunk: the frozen file of {5} then starts with the bytes
  5, 0, 0, 0, which are a header when the file is cut behind them, and the run does
  reach views of such a prefix. Buckets of three keys make ranges of a
  64-bit bitmap cross keys within and between buckets. The bitset of up to three words of
  three bits is explored completely; three words give a first, a middle and a
  last word to a shift.
- `ArtMap`: node sizes 2, 3, 4 and 6 children: each type is grown into, filled and
  shrunk out of; three levels give prefixes of zero, one and two bytes. Keys are of
  one of two families, six that differ in the last byte and six that branch on every
  level. Behaviours start from every tree that insertions build; four
  changes, the first of them also under an iterator (`CursorChanges`).
- `Bitmap64`: three calls from the given start bitmaps, whose last chunk may be
  missing or full; the doubling limit of the array of containers is crossed. The
  ends of ranges (`Ends`), the values an iterator seeks (`Targets`) and `Offsets`
  are at and beside chunk borders.
- `Maps64` is explored completely. Three high halves give a range a first, a
  middle and a last bitmap, and the largest possible key. `program` says whether the
  maps are copy-on-write and whether they may come from files of other writers.

**Deadlock** is checked except where a bound on the number of calls ends the
behaviours (`MaxChanges`, `MaxSteps`), and in the walks, which may stop at an end.

**Fairness.** `SharedContainer_liveness` assumes weak fairness of `Step(t)` for
every thread `t`: a thread inside a call is scheduled again. The code has no
lock and no wait, so a started step is never disabled by another thread, and an
operating system gives every runnable thread time. Nothing is assumed about
calls: a program may stop calling. `BitmapRanges` assumes that the loop of
`from_range`, once started, goes on (`WF_vars(Turn)`).

**Mutants.** Each property of a passing run has a mutant of a definition, the
operator with a suffixed name above the definition, with a mistake that the
code could have (a dropped unshare, a count off by one, a missing fusion of
runs, a container kept after it became empty), for which TLC reports that
property.

## 4. Findings

The three runs that expect a violation show where the code differs from its
documentation:

1. `shrink_to_fit` on one copy reallocates the buffer of the *shared*
   container (`container_shrink_to_fit` unwraps and does not unshare), while the
   README says that copies can be used in different threads.
2. The half-open range calls test `min > 2^32` where `min = 2^32` is also out
   of range, and do not cap `max`: `add_range(2^32, 2^32 + 1)` adds 0, and
   `add_range(0, 2^32 + 1)` adds only 0.
3. `from_range` with `step >= 2^16` counts in a `uint32_t`: for
   `max > 2^32 - step` the variable may wrap, so the call adds values that are
   not in the sequence, and does not return when `max = 2^32`.

Other differences were met while modelling. The models follow the code; the
passing runs leave these calls out, by the constant or the condition named, or the
property leaves the case out, and says so.

| Where | What the code does | Left out by |
|---|---|---|
| `art.c:1801` | `art_shrink_to_fit` of an emptied tree cuts the arrays without sorting the free list; `art_num_leaves` then counts free slots | `ShrinkEmpty = FALSE` |
| `art.c:2089` | `art_iterator_lower_bound` without a value "starts from the root", but takes the root from frame 0, which is another node after a search that found nothing or after the tree changed | the guard of `IteratorLowerBound` |
| `roaring64.c:744` | `roaring64_bitmap_contains_range` answers true at the first chunk beyond the range although chunks before it are missing | `RangesAgree` |
| `roaring64.c:968` | `roaring64_bitmap_remove_bulk` keeps the leaf that it has just removed | `Usable` in `Bitmap64` |
| `roaring.c:1523` | `roaring_bitmap_range_uint32_array` cuts offset and limit to 32 bits | offsets and limits below 2^32 |
| `roaring.c:125` | a context that `contains_bulk` filled with a shared container makes `add_bulk` give it back twice | `MixedWhenShared = FALSE` |
| `roaring.c:117` | a context used after `roaring_bitmap_copy` of a copy-on-write bitmap writes into the container of the copy | `KeptOverCopy = FALSE` |
| `roaring.c:3347` | `roaring_bitmap_frozen_view` accepts a prefix of a frozen file that ends with the bytes of a header for its length: the first four bytes of the file of {13766} are one of an empty bitmap. A caller who passes the length that was written (`roaring.h:842`) is not affected | `TornRejected` (an accepted prefix has the length its bitmap asks for) |
| `roaring.c:3233` | the frozen format has no case for shared containers | `FreezeShared = FALSE` |
| `roaring_priority_queue.c:113` | `or_many_heap` loses the copy-on-write flag | `FlagKept = TRUE` |
| `roaring_array.c:134` | `ra_overwrite` keeps entries with freed containers when the key array cannot grow | `KeysMayFail = FALSE` |
| `roaring64.c:2910` | `roaring64_bitmap_frozen_view` does not count the padding before the tree, and accepts a file that lost some of its last bytes | `TearFrozen = FALSE` |
| `bitset.c:102`, `:132`, `:478` | shifting left a bitset of no words, shifting right by more words than there are, trimming one without a set bit: accesses outside of the buffer or to a freed one | `Unusual = {}` |
| `roaring64map.hh:2078`, `:2118` | `move_equalorlarger` and the postfix `--` from `end()` stop at an empty inner bitmap | `WalksAgree` (not for `"foreign"`) |
| `roaring64map.hh:2133` | `end() == it` dereferences the end | iterators are compared inside the map |
| `roaring64map.hh:1694` | `fastunion` and `swap` leave the flag of the map unlike those of its bitmaps | `CallerSetsFlag = TRUE` |
| `roaring64map.hh:1229` | `runOptimize` joins by "and" what is documented as "at least one" | its answer is not compared |

Harmless: `roaring64_bitmap_portable_size_in_bytes` compares a high half that is
shifted twice, but counts the same buckets.

## 5. Proofs

All theorems hold for every value of the constants that the assumption of the
module allows; the runs check the same properties on one small instance.

| Theorem | Module | States | From |
|---|---|---|---|
| `InductiveInvariant`, `TypeCorrect`, `RefcountCorrect`, `MemorySafe`, `SingleOwner`, `WrappersKept`, `CopiesAreThreadSafe` | `SharedContainerProofs` | the six invariants of the safety run | `SharedContainerAssumption` |
| `AnswersCorrect`, `CopyOnWriteIsInvisible` | `SharedContainerProofs` | `SharedContainer` implements `IndependentBitmaps` | the same |
| `MapsHoldTheirMembers`, `EmptyBitmapsAtZeroOnly` | `Maps64Proofs` | contents of two `Roaring64Map`s; where inner bitmaps may be empty | `HalvesAssumption` |
| `InnersStayConsistent` | `Maps64Proofs` | flags and cleanup of the inner bitmaps | and `CallerSetsFlag = TRUE` |
| `QueriesCorrect` | `Maps64QueryProofs` | every query of one map and of two, and the iterators | `HalvesAssumption`, `Highs > 1` |
| `TornFilesRejected` | `Maps64QueryProofs` | both file formats, whole and cut off | `HalvesAssumption` |
| `RangesHoldMembers`, `RangeQueriesCorrect` | `BitmapRangesProofs` | contents of a bitmap under range calls; its two range queries | `RoaringArrayAssumption`, `MaxArgumentAssumption` |
| `SharedBitmapsHoldMembers`, `SharedBitmapsOwnContainers` | `BulkContextProofs` | contents of two bitmaps that share containers; ownership of every container | `BulkAssumption`, `ContextRules` |
| `ContextsStayCurrent`, `BulkSearchesCorrect` | `BulkContextProofs` | contexts describe their entries; bulk searches answer right | the same |
| `BitsetHoldsMembers` | `PlainBitsetProofs` | contents of an uncompressed bitset, whatever calls are made | `BitsetAssumption` |
| `BitsetMemorySafe` | `PlainBitsetProofs` | no call leaves its buffer | and `Unusual = {}` |

### Copy-on-write: the invariants

`SharedContainerAssumption`: addresses of containers and wrappers differ,
`NULL` is neither, there are finitely many bitmaps.

None of the six is inductive by itself. That a thread at `take` may free the
wrapper follows from `counter = 1`, which was true when it loaded the counter
and must still be: nobody else refers to the wrapper (`CountInv`), so nobody
else can increment it, and the thread's own slot still does (`OwnInv`:
operands are not handed over during a call). This is what `Control` records
for each `pc`. `DeadInv` says that a wrapper whose last reference is gone
belongs to exactly one thread, `ExclusiveInv` that no two of slots, wrappers
and answers hold the same container (so that a write is seen through one slot
only), `LiveInv` and `LeakInv` that held and allocated are the same. The proof
has one lemma per action, each with a step per conjunct, and lemmas on how the
set `Refs(w)` and its cardinality change when one or two slots change. The
race theorem then follows in one state: a container that a thread writes or
frees is private or unreferenced, so no other thread can reach it.

### Copy-on-write: the refinement

The abstract value of a bitmap is `VisibleContent`, what a reader finds through
slot and wrapper (for the destination of a copy in progress, what its owner has
not overwritten yet). A call takes effect in the abstract specification in one
step: the write into a private container, or the step that drops the reference
to the shared one and stores the new container. Every other step must leave all
visible contents alone, and does by `IInv`: a container that a thread takes,
clones, builds or frees is not reachable through any other slot. Storing is
correct because of one more invariant, `AnswerInv` (`AnswersCorrect`): what a
thread has built from values it read some steps ago is still the result of its
operation on the values there are *now*, since the operands cannot have changed
in between. The step of the refinement is proved action by action, and the
theorem is the refinement of the run word for word.

### Folds

The models use the folds of the community modules where the code loops. The
library's theorems about induction take operators and cannot be used, so
`FoldFacts` argues otherwise: a fold over a sequence or a set is the value of a
recursive function on the subsets of the index set, which exists by
well-foundedness of strict inclusion; `SetInduction` and `BoundedInduction` are
induction for *sets* of numbers. The lemmas used elsewhere are `FoldExists` (a
fold is the last of a chain of values, each made from the one before),
`FoldWithin` (what every step keeps, the fold has), `FoldKeeps`, and, for
`MapThenSumSet`, `SumSplits` and `SumsCount` (a sum of cardinalities of disjoint sets
is the cardinality of their union).

### `Roaring64Map`

`Inv` is `Fits` for both maps: the map is well formed, holds exactly the values
that the documented set operations give, has an empty inner bitmap only for key
0 (unless a file of another writer brought one), and all its flags are those of
the other map when callers keep these equal. The last part is not inductive call
by call as it stands: a union copies inner bitmaps with their flags from the
other map. `Close(m, r)` is the relation that each call in place keeps between
the map before and after (no flag that was not there, no new empty bitmap but at
0); `CloseFits` turns it into `Fits`. Loops over a range of inner bitmaps are
folds, whose invariant says which of them are done. `CallerSetsFlag = TRUE` is
assumed only for `InnersStayConsistent`: `roaring64map.hh:1694` in section 4 is
the counterexample without it.

Queries and files follow from `Inv` in one state. Nearly all are loops over the
inner bitmaps in the order of their keys. Each is a fold, its turn has a lemma
(`SelectTurns`, `CompareTurns`, `ReadTurns`, ...), and its invariant says what the
first `i` bitmaps have given: `MembersTo` are the values in them, `Firsts` their
keys. Where the argument is not immediate:

- a count of two maps throws when the running sum wraps around, so a full map must
  make it wrap and no other map may. Partial sums count disjoint sets of values, so
  they stay below 2^64 until the last (`AddsToInt`, `SumCorrect`). The code finds
  out by comparing the sum with one of its terms, and with a single inner bitmap
  that holds everything it would not: hence `Highs > 1`;
- `operator==` walks two maps with two cursors and skips empty bitmaps on both
  sides; `Matched` says that the values passed so far are the same on both sides
  and what is left may differ (`MatchSkips`, `SameBitmaps`);
- the postfix `operator--` at the end and `move_equalorlarger` do not skip empty
  bitmaps the way `++` does. They are right because `Inv` allows an empty bitmap at key 0 only
  (`ZeroOnly`): `LeastAt` and `GreatestAt` turn the neighbour among the keys into
  the neighbour among the values. The other steps, `begin()` and the prefix `--` from `end()`
  included, skip them, and are right for the maps of `"foreign"` too;
- `isStrictSubset` compares two counts, each of which may throw. A full map is a subset of
  full maps only, so the call throws exactly when the second map is full, also for a first map
  that is empty (`IsStrictSubsetCorrect`);
- `readSafe` checks before each field that the bytes left suffice. `RestBytes(m, f, i)`
  are those that bitmaps after the first `i` need, and `ReadUpTo` says that the loop
  still goes on exactly while enough are left: a file cut off anywhere is rejected,
  a whole one is read back, with whatever follows it left alone;
- `writeFrozen` pads each bitmap to 32 bytes from the start of the buffer. `IsEnds`
  are the places where bitmaps end; writer, size and view step through the same
  places (`WrittenTo`, `ViewedTo`), each by its own arithmetic.

### Range calls on the key array

`Covers(s, a, b, C, lo, hi)` says that entries `a..b` of an array are those of
the non-empty chunks `C[lo..hi]`, in order; `Holds` is the whole array.
`FoldFacts` has the calculus of segments of any sequence, `RoaringArrayProofs` that
of such segments (joining, cutting, shifting one by a gap) and the searches
(`ra_get_index`, the counts of keys below or above a bound). It shows, call by call, that from `Holds(r, C)` the call
yields `Holds(r', C')` for the chunks `C'` it should leave: the gap that
`add_range_closed` opens is filled from the back, so its fold invariant has a
segment on either side of the part not yet written and says that the entries
still to be merged are not overwritten; a removal and a flip have a first, a
middle and a last chunk; a shift splits a chunk over two keys and appends both.
`BitmapRangesProofs` goes from chunks to values (`ChunksOf`) and proves

- `IInv`: between calls the array holds `ChunksOf(members)`; inside `from_range`
  (`Looping`) it holds the part of `members` below the loop variable, `members` is
  the arithmetic progression asked for, and `max + step` is at most 2^32. The last
  conjunct is what the calls of finding 3 violate; it makes the truncation to
  `uint32_t` harmless;
- the queries: the fold of `range_cardinality` has counted the values of all
  chunks up to the last entry it looked at; `contains_range` compares a
  distance of indices with a distance of keys, and these are equal exactly when
  no chunk in between is missing (`OneEach`, `NoGap`, `AllThere`).

### Shared containers and bulk contexts

`SharedContainerProofs` is about one key and interleaved threads; `BulkContextProofs` is about
key arrays of any length, the objects they point at, and contexts that point at the
same objects. `IInv` says of each bitmap, beside the other one:

- `Sound(heap, R, O)`, where `R` and `O` are the objects that the entries of the one and of
  the other bitmap hold: a shared container is held by one entry or by one of each
  bitmap, its counter is that number, and it has a container that no entry holds
  and no other shared one has; any other container is held by one entry or by one
  shared container; nothing that was freed is held. `NothingDangles` counts holders,
  and cannot be carried through a call; `Sound` can, and implies it (`HoldersCount`,
  `WrappersCount`);
- the keys ascend, no object is held twice, every entry has the type of its object
  (`Ok`), no container is empty (`Filled`), the values are `members` (`Held`);
- without copy-on-write nothing is shared (`NoneShared`);
- the context is zero or that of the entry at its index (`Fits`), and unless it was
  used to search, the container is not a shared one (`Writes`).

`IInv` was model-checked first, with the bounds that `Bitmaps` has for `BulkContext`.
A call is a chain of small changes of the heap: an object is made, written, freed,
unwrapped (its shared container had one holder left), counted up or down. Each has a
lemma that takes `Sound` from one heap to the next (`Created`, `Written`, `FreedPlain`,
`Unwrapped`, `Recounted`, `Wrapped`) and says that the other bitmap's objects are as they
were (`Same`). The calls of `ContainerHeap` are chains of these (`FreeCorrect`,
`WritableCorrect`, `ShareCorrect`, `CloneCorrect`). `Became(z, u, o, S)` is what a call on a
bitmap may do: afterwards the bitmap holds `S`, and the bitmap with the array `o` what
it held before. `AddCorrect`, `RemoveCorrect`, `AddBulkCorrect`, `AddManyCorrect`,
`RemoveManyCorrect` and `SearchBulkCorrect` are the calls; `roaring_bitmap_overwrite` is two
folds, the first of which takes the entries of the old bitmap away one by one
(`Clearing`), while in the second each entry of the other bitmap is half a pair
(`Sharing`) or has its clone (`Cloning`).

`ContextRules` are the two rules for contexts of section 4
(`MixedWhenShared = FALSE`, `KeptOverCopy = FALSE`). Without the first,
`HoldsMembers`, `NothingDangles` and `BulkSearchAgrees` fail within four calls, without the
second all four properties do; TLC finds it on the instance of the run. They keep `Writes` true: an addition
through a context writes without asking whether the container is shared. The run
`Bitmaps` checks the four properties for the scope `"bulk"`, as conjuncts of its
`HoldsMembers`, `NothingDangles` and `ContextCurrent`.

### The uncompressed bitset

`IInv` says that in `sound` memory the bitset is well formed (`Bitsets`: no more
words in use than allocated, every word of the buffer a word) and
`Values(bitset) = members`. Nothing is said of the words behind `arraysize`: they
hold anything, so each call that takes such words in must be shown to write all
of them. Sets of values are compared word by word: `ValuesBy` is the criterion,
and splits a position into its word and its bit (`PositionOf`, `PositionAt`). The
lemmas about `bitset_resize` and `bitset_grow` state which words stay and which
are zero, from `DoubledEnough` (doubling reaches the size asked for). The
shifts move words in place, in an order that matters. Their loops are folds
(`LeftMoves`, `RightMoves`), and the fold invariants of `LeftMovesWords` and
`RightMovesWords` say which words have been replaced and that the words still to be
read have not.

`BitsetHoldsMembers` needs nothing of `Unusual`: a call that leaves the buffer
ends in `memory`, and up to there the contents are right. `BitsetMemorySafe` needs
`Unusual = {}`; each of the three kinds is a counterexample otherwise.
Second operands range over `Operands`, whose words are those with no bit, the
first, all and all but the first. Both hold for every number of words and of bits.
The run `Files` checks the two properties as the conjuncts of its `HoldsMembers` and
`MemorySafe` for the scope `"bitset"`.

### Only model-checked

- Liveness (`UnreferencedReclaimed`, `CallsReturn`, `FromRangeReturns`): fairness
  and ENABLED are out of the prover's reach.
- The refinements of `OrderedMap` by `ArtMap` and of `SortedCursor` by the
  iterators, and every property of `Containers`, `ArtMap`, `Bitmap64`, of the set
  operations in `Bitmaps` (scope `"algebra"`) and of the formats in `Files`: the algorithms there (runs, merges, trees, cursors,
  readers) are RECURSIVE operators, which the prover cannot expand, and what they
  compute needs induction over data.
- The queries of `PlainBitset` (`SingleQueriesAgree`, `WalksAgree`, `PairQueriesAgree`):
  sequences of all values, and sums of cardinalities.

## 6. Not modelled

- In `SharedContainer`: memory orderings weaker than sequential consistency
  (the counter uses C11 or compiler atomics); failing allocations; bitmaps with
  different copy-on-write flags, which the documentation forbids to mix; more than
  one key per bitmap (keys are independent there).
- In `Container`: vectorized and assembler versions of merges, population
  counts and decoding; they are the set operation they compute.
- In `RoaringArray` and `SetOperations`: how much the arrays grow; allocation
  failures where the code does not check for them.
- In `Iterator32`, `Iterator64`: changing the bitmap under the iterator, which
  the documentation leaves undefined.
- In the formats: files with bytes that no writer writes (the program `"foreign"` of
  `Maps64` has the empty bitmaps that other writers do write), byte order, the `std::map`
  stream operators.
- In `PlainBitset`: a refused allocation inside `bitset_shift_left`, whose result
  the code ignores.
- `roaring_bitmap_statistics`, `roaring64_bitmap_statistics`, the Jaccard index,
  printing: sums and text.
- `Roaring` and `Roaring64` (C++): each method is one call of the C library.
- Instruction-set detection, memory hooks, benchmarks: no algorithm to check.

## 7. Plan

What is left is proofs, in this order:

1. `RunContainer` with recursive functions or folds instead of RECURSIVE operators,
   so that validity after add and remove of a value can be proved for any chunk
   size.
2. `OrderedMap` and `SortedCursor`: that the cursor is always a member or at an
   end, the facts that the modules built on them use.
