-------------------------- MODULE SharedContainer --------------------------
(***************************************************************************)
(* Copy-on-write sharing of containers between bitmaps used by several     *)
(* threads.  A copy of a COW bitmap does not clone its containers: it      *)
(* wraps each of them in a shared_container_t with an atomic reference     *)
(* counter, and both bitmaps point to the wrapper.  Whoever wants to       *)
(* write first extracts a private container: it takes the wrapped one when *)
(* its reference is the last, and clones it otherwise.                     *)
(*                                                                         *)
(* A bitmap is reduced to the slot of one key; every bitmap has the COW    *)
(* flag, as the library requires of bitmaps that interact with a COW one.  *)
(* Each step of a thread makes at most one access to shared memory (the    *)
(* atomic load, increment or decrement of the counter, or the whole read   *)
(* or write of a container, which lasts as long as the thread's pc stays   *)
(* there).  Accesses are sequentially consistent.                          *)
(***************************************************************************)
EXTENDS Integers, FiniteSets

CONSTANTS Threads,      \* threads of the program
          Bitmaps,      \* roaring_bitmap_t objects
          Elements,     \* the integers of the chunk
          Containers,   \* addresses of array, bitset and run containers
          Wrappers,     \* addresses of shared_container_t objects
          NULL

VARIABLES
  slot,        \* slot[b]: ra->containers[i] of bitmap b, NULL without the key
  owner,       \* owner[b]: the thread that bitmap b has been passed to
  heap,        \* heap[c]: the elements of container c, {} when c is free
  container,   \* container[w]: sc->container, NULL when w is free
  counter,     \* counter[w]: sc->counter
  pc,          \* pc[t]: the access that thread t is in the middle of
  op,          \* op[t]: the operation that thread t executes, or NULL
  answer,      \* answer[t]: a container that t built and has not stored, or NULL
  dead         \* dead[t]: a wrapper whose last reference t dropped, or NULL

vars == <<slot, owner, heap, container, counter, pc, op, answer, dead>>

Kinds == {"add", "remove", "optimize", "or", "andnot", "copy", "clear", "read",
          "shrink"}

\* arg is the set of elements to add or remove, {} for the other kinds; an
\* operation with a single operand has src = dst.
Operations ==
  [kind : Kinds, dst : Bitmaps, src : Bitmaps, arg : SUBSET Elements]

ASSUME SharedContainerAssumption ==
  /\ Containers \cap Wrappers = {}
  /\ NULL \notin Containers \cup Wrappers \cup Operations
  /\ IsFiniteSet(Bitmaps)

PCs == {"idle", "take", "clone", "compute", "write", "drop", "release",
        "share", "read", "shrink"}

\* Every variable keeps its type: a slot, sc->container and the locals of a
\* thread hold an address of the right sort, and an operation is under way
\* exactly when its thread is not idle.
TypeOK ==
  /\ slot \in [Bitmaps -> Containers \cup Wrappers \cup {NULL}]
  /\ owner \in [Bitmaps -> Threads]
  /\ heap \in [Containers -> SUBSET Elements]
  /\ container \in [Wrappers -> Containers \cup {NULL}]
  /\ counter \in [Wrappers -> Nat]
  /\ pc \in [Threads -> PCs]
  /\ op \in [Threads -> Operations \cup {NULL}]
  /\ answer \in [Threads -> Containers \cup {NULL}]
  /\ dead \in [Threads -> Wrappers \cup {NULL}]
  /\ \A t \in Threads : pc[t] = "idle" <=> op[t] = NULL

Init ==
  /\ slot = [b \in Bitmaps |-> NULL]
  /\ owner \in [Bitmaps -> Threads]
  /\ heap = [c \in Containers |-> {}]
  /\ container = [w \in Wrappers |-> NULL]
  /\ counter = [w \in Wrappers |-> 0]
  /\ pc = [t \in Threads |-> "idle"]
  /\ op = [t \in Threads |-> NULL]
  /\ answer = [t \in Threads |-> NULL]
  /\ dead = [t \in Threads |-> NULL]
-----------------------------------------------------------------------------
IsShared(b) == slot[b] \in Wrappers

FreeContainers == { c \in Containers : heap[c] = {} }
FreeWrappers == { w \in Wrappers : container[w] = NULL }

\* The container behind a slot: container_unwrap_shared.
Unwrap(b) == IF IsShared(b) THEN container[slot[b]] ELSE slot[b]

\* The elements that bitmap b has in this chunk.
Content(b) == IF slot[b] = NULL THEN {} ELSE heap[Unwrap(b)]

Apply(o, dst, src) ==
  CASE o.kind = "add"    -> dst \cup o.arg
    [] o.kind = "remove" -> dst \ o.arg
    [] o.kind = "or"     -> dst \cup src
    [] o.kind = "andnot" -> dst \ src
    [] o.kind = "copy"   -> src
    [] o.kind = "clear"  -> {}
    [] OTHER             -> dst

\* Mutant: takes a container that one other bitmap still refers to.
is_unique_OffByOne(w) == counter[w] <= 2

croaring_refcount_is_unique(w) == counter[w] = 1

\* What a thread does after extract_copy or container_free has dropped its
\* reference: write into the private container, share the source, or return.
AfterDrop(o) ==
  IF o.kind \in {"add", "remove", "optimize"} THEN "write"
  ELSE IF o.kind = "copy" /\ slot[o.src] # NULL THEN "share"
  ELSE "idle"

\* Thread t goes on at l; at "idle" its operation is over.
Goto(t, l) ==
  /\ pc' = [pc EXCEPT ![t] = l]
  /\ op' = IF l = "idle" THEN [op EXCEPT ![t] = NULL] ELSE op

\* Thread t calls an operation on bitmaps it owns and goes on at l.
Start(t, o, l) ==
  /\ pc[t] = "idle"
  /\ o \in Operations
  /\ owner[o.dst] = t
  /\ owner[o.src] = t
  /\ pc' = [pc EXCEPT ![t] = l]
  /\ op' = IF l = "idle" THEN op ELSE [op EXCEPT ![t] = o]

Unary(kind, b, arg)    == [kind |-> kind, dst |-> b, src |-> b, arg |-> arg]
Binary(kind, dst, src) == [kind |-> kind, dst |-> dst, src |-> src, arg |-> {}]
-----------------------------------------------------------------------------
(* Operations that start by unsharing the container: roaring_bitmap_add,   *)
(* roaring_bitmap_remove, roaring_bitmap_run_optimize.                     *)

\* roaring_bitmap_add without a container for the key: a new array container.
AddNewKey(t, b, x) ==
  /\ slot[b] = NULL
  /\ Start(t, Unary("add", b, {x}), "idle")
  /\ \E c \in FreeContainers :
       /\ heap' = [heap EXCEPT ![c] = {x}]
       /\ slot' = [slot EXCEPT ![b] = c]
  /\ UNCHANGED <<owner, container, counter, answer, dead>>

\* Mutant: ra_unshare_container_at_index is not called.
StartWrite_WithoutUnsharing(t, o) ==
  /\ o.kind \in {"add", "remove", "optimize"}
  /\ slot[o.dst] # NULL
  /\ Start(t, o, "write")
  /\ UNCHANGED <<slot, owner, heap, container, counter, answer, dead>>

\* ra_unshare_container_at_index, up to the load of the counter.
StartWrite(t, o) ==
  /\ o.kind \in {"add", "remove", "optimize"}
  /\ slot[o.dst] # NULL
  /\ Start(t, o, IF ~IsShared(o.dst) THEN "write"
                 ELSE IF croaring_refcount_is_unique(slot[o.dst]) THEN "take"
                 ELSE "clone")
  /\ UNCHANGED <<slot, owner, heap, container, counter, answer, dead>>

\* shared_container_extract_copy, last reference: keep the container, free
\* the wrapper.
TakeContainer(t) ==
  LET b == op[t].dst
      w == slot[b]
  IN  /\ pc[t] = "take"
      /\ slot' = [slot EXCEPT ![b] = container[w]]
      /\ container' = [container EXCEPT ![w] = NULL]
      /\ counter' = [counter EXCEPT ![w] = 0]
      /\ Goto(t, "write")
      /\ UNCHANGED <<owner, heap, answer, dead>>

\* Mutant: hands out the shared container itself.
CloneContainer_WithoutClone(t) ==
  /\ pc[t] = "clone"
  /\ answer' = [answer EXCEPT ![t] = Unwrap(op[t].dst)]
  /\ Goto(t, "drop")
  /\ UNCHANGED <<slot, owner, heap, container, counter, dead>>

\* Mutant: waits for the other references to go away.
CloneContainer_Waits(t) ==
  /\ pc[t] = "clone"
  /\ croaring_refcount_is_unique(slot[op[t].dst])
  /\ Goto(t, "take")
  /\ UNCHANGED <<slot, owner, heap, container, counter, answer, dead>>

\* shared_container_extract_copy, other references: clone the container.
CloneContainer(t) ==
  /\ pc[t] = "clone"
  /\ \E c \in FreeContainers :
       /\ heap' = [heap EXCEPT ![c] = Content(op[t].dst)]
       /\ answer' = [answer EXCEPT ![t] = c]
  /\ Goto(t, "drop")
  /\ UNCHANGED <<slot, owner, container, counter, dead>>

\* container_add, container_remove, container_ior, ... on a container that is
\* not shared; a container left empty is freed and its key removed.
WriteContainer(t) ==
  LET o == op[t]
      c == slot[o.dst]
      result == Apply(o, Content(o.dst), Content(o.src))
  IN  /\ pc[t] = "write"
      /\ heap' = [heap EXCEPT ![c] = result]
      /\ slot' = IF result = {} THEN [slot EXCEPT ![o.dst] = NULL] ELSE slot
      /\ Goto(t, "idle")
      /\ UNCHANGED <<owner, container, counter, answer, dead>>
-----------------------------------------------------------------------------
(* Operations in place with a second bitmap: roaring_bitmap_or_inplace and *)
(* roaring_bitmap_andnot_inplace.  A shared destination is not extracted:  *)
(* the result is a new container, and the reference is dropped.            *)

StartInplace(t, o) ==
  /\ \/ o.kind = "or" /\ Content(o.dst) # Elements
     \/ o.kind = "andnot" /\ o.dst # o.src
  /\ slot[o.dst] # NULL
  /\ slot[o.src] # NULL
  /\ Start(t, o, IF IsShared(o.dst) THEN "compute" ELSE "write")
  /\ UNCHANGED <<slot, owner, heap, container, counter, answer, dead>>

\* Mutant: the operands of container_andnot in the wrong order.
ComputeContainer_Swapped(t) ==
  LET o == op[t]
      result == Apply(o, Content(o.src), Content(o.dst))
  IN  /\ pc[t] = "compute"
      /\ \/ /\ result = {}
            /\ UNCHANGED <<heap, answer>>
         \/ /\ result # {}
            /\ \E c \in FreeContainers :
                 /\ heap' = [heap EXCEPT ![c] = result]
                 /\ answer' = [answer EXCEPT ![t] = c]
      /\ Goto(t, "drop")
      /\ UNCHANGED <<slot, owner, container, counter, dead>>

\* container_or, container_andnot: an empty result is freed at once.
ComputeContainer(t) ==
  LET o == op[t]
      result == Apply(o, Content(o.dst), Content(o.src))
  IN  /\ pc[t] = "compute"
      /\ \/ /\ result = {}
            /\ UNCHANGED <<heap, answer>>
         \/ /\ result # {}
            /\ \E c \in FreeContainers :
                 /\ heap' = [heap EXCEPT ![c] = result]
                 /\ answer' = [answer EXCEPT ![t] = c]
      /\ Goto(t, "drop")
      /\ UNCHANGED <<slot, owner, container, counter, dead>>
-----------------------------------------------------------------------------
(* Dropping a reference: shared_container_free.                            *)

\* Mutant: tests the counter before the decrement for zero.
DropReference_TestsOldValue(t) ==
  LET b == op[t].dst
  IN  /\ pc[t] = "drop"
      /\ counter' = [counter EXCEPT ![slot[b]] = @ - 1]
      /\ slot' = [slot EXCEPT ![b] = answer[t]]
      /\ answer' = [answer EXCEPT ![t] = NULL]
      /\ Goto(t, AfterDrop(op[t]))
      /\ UNCHANGED <<owner, heap, container, dead>>

\* Mutant: one reference is dropped twice.
DropReference_Twice(t) ==
  LET b == op[t].dst
      w == slot[b]
      isZero == counter[w] = 1
  IN  /\ pc[t] = "drop"
      /\ counter' = [counter EXCEPT ![w] = @ - 2]
      /\ slot' = [slot EXCEPT ![b] = answer[t]]
      /\ answer' = [answer EXCEPT ![t] = NULL]
      /\ dead' = IF isZero THEN [dead EXCEPT ![t] = w] ELSE dead
      /\ Goto(t, IF isZero THEN "release" ELSE AfterDrop(op[t]))
      /\ UNCHANGED <<owner, heap, container>>

\* croaring_refcount_dec; the slot is overwritten with the answer, if any.
\* Only the owner reads the slot, so both happen in one step.
DropReference(t) ==
  LET b == op[t].dst
      w == slot[b]
      isZero == counter[w] = 1
  IN  /\ pc[t] = "drop"
      /\ counter' = [counter EXCEPT ![w] = @ - 1]
      /\ slot' = [slot EXCEPT ![b] = answer[t]]
      /\ answer' = [answer EXCEPT ![t] = NULL]
      /\ dead' = IF isZero THEN [dead EXCEPT ![t] = w] ELSE dead
      /\ Goto(t, IF isZero THEN "release" ELSE AfterDrop(op[t]))
      /\ UNCHANGED <<owner, heap, container>>

\* The last reference is gone: free the container, then the wrapper.
ReleaseShared(t) ==
  LET w == dead[t]
  IN  /\ pc[t] = "release"
      /\ heap' = [heap EXCEPT ![container[w]] = {}]
      /\ container' = [container EXCEPT ![w] = NULL]
      /\ dead' = [dead EXCEPT ![t] = NULL]
      /\ Goto(t, AfterDrop(op[t]))
      /\ UNCHANGED <<slot, owner, counter, answer>>

\* roaring_bitmap_clear and roaring_bitmap_free: container_free on the slot.
StartClear(t, o) ==
  /\ o.kind = "clear"
  /\ slot[o.dst] # NULL
  /\ IF IsShared(o.dst)
     THEN Start(t, o, "drop") /\ UNCHANGED <<heap, slot>>
     ELSE /\ Start(t, o, "idle")
          /\ heap' = [heap EXCEPT ![slot[o.dst]] = {}]
          /\ slot' = [slot EXCEPT ![o.dst] = NULL]
  /\ UNCHANGED <<owner, container, counter, answer, dead>>
-----------------------------------------------------------------------------
(* Copies.                                                                 *)

\* roaring_bitmap_copy into a fresh bitmap, roaring_bitmap_overwrite of a used
\* one (whose container is freed first), and the keys that the unions take
\* from one operand only.
StartCopy(t, o) ==
  LET next == IF slot[o.src] # NULL THEN "share" ELSE "idle"
  IN  /\ \/ o.kind = "copy" /\ (slot[o.dst] # NULL \/ slot[o.src] # NULL)
         \/ o.kind = "or" /\ slot[o.dst] = NULL /\ slot[o.src] # NULL
      /\ o.dst # o.src
      /\ IF IsShared(o.dst)
         THEN Start(t, o, "drop") /\ UNCHANGED <<heap, slot>>
         ELSE /\ Start(t, o, next)
              /\ slot' = [slot EXCEPT ![o.dst] = NULL]
              /\ heap' = IF slot[o.dst] = NULL THEN heap
                         ELSE [heap EXCEPT ![slot[o.dst]] = {}]
      /\ UNCHANGED <<owner, container, counter, answer, dead>>

\* Mutant: the reference of the source bitmap is not counted.
get_copy_of_container_CountsOne(t) ==
  LET o == op[t]
      w == slot[o.src]
  IN  /\ pc[t] = "share"
      /\ \/ /\ IsShared(o.src)
            /\ counter' = [counter EXCEPT ![w] = @ + 1]
            /\ slot' = [slot EXCEPT ![o.dst] = w]
            /\ UNCHANGED container
         \/ /\ ~IsShared(o.src)
            /\ \E n \in FreeWrappers :
                 /\ container' = [container EXCEPT ![n] = slot[o.src]]
                 /\ counter' = [counter EXCEPT ![n] = 1]
                 /\ slot' = [slot EXCEPT ![o.dst] = n, ![o.src] = n]
      /\ Goto(t, "idle")
      /\ UNCHANGED <<owner, heap, answer, dead>>

\* get_copy_of_container with copy_on_write: another reference to the wrapper,
\* or a new wrapper referenced by source and destination.
get_copy_of_container(t) ==
  LET o == op[t]
      w == slot[o.src]
  IN  /\ pc[t] = "share"
      /\ \/ /\ IsShared(o.src)
            /\ counter' = [counter EXCEPT ![w] = @ + 1]
            /\ slot' = [slot EXCEPT ![o.dst] = w]
            /\ UNCHANGED container
         \/ /\ ~IsShared(o.src)
            /\ \E n \in FreeWrappers :
                 /\ container' = [container EXCEPT ![n] = slot[o.src]]
                 /\ counter' = [counter EXCEPT ![n] = 2]
                 /\ slot' = [slot EXCEPT ![o.dst] = n, ![o.src] = n]
      /\ Goto(t, "idle")
      /\ UNCHANGED <<owner, heap, answer, dead>>
-----------------------------------------------------------------------------
(* Queries, and bitmaps passed between threads.                            *)

\* roaring_bitmap_contains and the other queries read behind the wrapper.
StartRead(t, o) ==
  /\ o.kind = "read"
  /\ slot[o.dst] # NULL
  /\ Start(t, o, "read")
  /\ UNCHANGED <<slot, owner, heap, container, counter, answer, dead>>

FinishRead(t) ==
  /\ pc[t] = "read"
  /\ Goto(t, "idle")
  /\ UNCHANGED <<slot, owner, heap, container, counter, answer, dead>>

InUse(b) == \E t \in Threads : pc[t] # "idle" /\ b \in {op[t].dst, op[t].src}

HandOver(b, t) ==
  /\ ~InUse(b)
  /\ owner[b] # t
  /\ owner' = [owner EXCEPT ![b] = t]
  /\ UNCHANGED <<slot, heap, container, counter, pc, op, answer, dead>>

\* roaring_bitmap_shrink_to_fit reallocates the buffer behind a shared
\* container without unsharing it.
StartShrink(t, o) ==
  /\ o.kind = "shrink"
  /\ slot[o.dst] # NULL
  /\ Start(t, o, "shrink")
  /\ UNCHANGED <<slot, owner, heap, container, counter, answer, dead>>

FinishShrink(t) ==
  /\ pc[t] = "shrink"
  /\ Goto(t, "idle")
  /\ UNCHANGED <<slot, owner, heap, container, counter, answer, dead>>
-----------------------------------------------------------------------------
Step(t) ==
  \/ TakeContainer(t) \/ CloneContainer(t) \/ WriteContainer(t)
  \/ ComputeContainer(t) \/ DropReference(t) \/ ReleaseShared(t)
  \/ get_copy_of_container(t) \/ FinishRead(t)

Call(t) ==
  \/ \E b \in Bitmaps, x \in Elements :
       \/ AddNewKey(t, b, x)
       \/ StartWrite(t, Unary("add", b, {x}))
       \/ StartWrite(t, Unary("remove", b, {x}))
  \/ \E b \in Bitmaps :
       \/ StartWrite(t, Unary("optimize", b, {}))
       \/ StartClear(t, Unary("clear", b, {}))
       \/ StartRead(t, Unary("read", b, {}))
  \/ \E b1, b2 \in Bitmaps :
       \/ StartInplace(t, Binary("or", b1, b2))
       \/ StartInplace(t, Binary("andnot", b1, b2))
       \/ StartCopy(t, Binary("or", b1, b2))
       \/ StartCopy(t, Binary("copy", b1, b2))

Next ==
  \/ \E t \in Threads : Step(t) \/ Call(t)
  \/ \E b \in Bitmaps, t \in Threads : HandOver(b, t)

Spec == Init /\ [][Next]_vars

\* A thread that is inside a library call keeps running.
FairSpec == Spec /\ \A t \in Threads : WF_vars(Step(t))

\* The same threads, some of which also call roaring_bitmap_shrink_to_fit.
ShrinkNext ==
  \/ Next
  \/ \E t \in Threads :
       \/ FinishShrink(t)
       \/ \E b \in Bitmaps : StartShrink(t, Unary("shrink", b, {}))

ShrinkSpec == Init /\ [][ShrinkNext]_vars
-----------------------------------------------------------------------------
(* Properties.                                                             *)

Refs(w) == { b \in Bitmaps : slot[b] = w }

\* Reference counting: while a wrapper is allocated, its counter is the number
\* of slots that point to it, whatever copies, extractions and releases of
\* other threads are under way (croaring_refcount_inc / _dec).
RefcountExact ==
  \A w \in Wrappers : container[w] # NULL => counter[w] = Cardinality(Refs(w))

\* No use after free: a slot, a wrapper and a thread's answer never lead to
\* memory that shared_container_free or container_free has released.
NoUseAfterFree ==
  /\ \A b \in Bitmaps :
       /\ IsShared(b) => container[slot[b]] # NULL
       /\ slot[b] # NULL => Content(b) # {}
  /\ \A w \in Wrappers : container[w] # NULL => heap[container[w]] # {}
  /\ \A t \in Threads : /\ answer[t] # NULL => heap[answer[t]] # {}
                        /\ pc[t] = "release" => container[dead[t]] # NULL

\* Who holds container c: slots, wrappers, and threads that have just built it.
Holders(c) == ({"slot"} \X { b \in Bitmaps : slot[b] = c })
                \cup ({"wrapper"} \X { w \in Wrappers : container[w] = c })
                \cup ({"thread"} \X { t \in Threads : answer[t] = c })

\* Ownership: no container has two holders, which would end in a double free or
\* in a write seen by two bitmaps, and an allocated one is held, not leaked.
OneHolder ==
  \A c \in Containers :
    /\ heap[c] # {} <=> Holders(c) # {}
    /\ \A h, k \in Holders(c) : h = k

\* No wrapper is leaked: an allocated wrapper is referenced by a slot, or the
\* thread that dropped the last reference is about to release it.
NoWrapperLeak ==
  \A w \in Wrappers :
    container[w] # NULL => Refs(w) # {} \/ \E t \in Threads : dead[t] = w

\* Containers that thread t is reading, and those it is writing or freeing.
Reads(t) ==
  CASE pc[t] \in {"clone", "read"} -> {Unwrap(op[t].dst)}
    [] pc[t] = "compute" -> {Unwrap(op[t].dst), Unwrap(op[t].src)}
    [] pc[t] = "write" -> {Unwrap(op[t].src)}
    [] OTHER -> {}

Writes(t) ==
  CASE pc[t] \in {"write", "shrink"} -> {Unwrap(op[t].dst)}
    [] pc[t] = "release" -> {container[dead[t]]}
    [] OTHER -> {}

\* Thread safety of copies (README.md, "Thread safety"): while a thread writes
\* or frees a container, no other thread reads, writes or frees it.
NoDataRace ==
  \A t, u \in Threads :
    t # u => Writes(t) \cap (Reads(u) \cup Writes(u)) = {}

\* Memory comes back: a wrapper that no slot refers to is eventually freed, so
\* the thread that dropped the last reference always gets to release it.
UnreferencedReclaimed ==
  \A w \in Wrappers : Refs(w) = {} ~> container[w] = NULL

\* Every library call returns, whatever the other threads do.
CallsReturn == \A t \in Threads : pc[t] # "idle" ~> pc[t] = "idle"

\* The content a user sees: an overwritten bitmap takes its new content when
\* its old container is dropped, before the new one is shared with it.
VisibleContent(b) ==
  LET overwriting == { t \in Threads : /\ pc[t] \in {"release", "share"}
                                       /\ op[t].kind = "copy"
                                       /\ op[t].dst = b }
  IN  IF overwriting = {} THEN Content(b)
      ELSE Content(op[CHOOSE t \in overwriting : TRUE].src)

Abstract == INSTANCE IndependentBitmaps
              WITH value <- [b \in Bitmaps |-> VisibleContent(b)]

\* Copy-on-write is invisible: threads that share containers behave as if
\* every bitmap were a value of its own.
RefinesIndependentBitmaps == Abstract!Spec
=============================================================================
