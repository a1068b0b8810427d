----------------------- MODULE SharedContainerProofs -----------------------
(***************************************************************************)
(* Safety of copy-on-write sharing, for any number of threads, bitmaps,    *)
(* addresses and elements.  IInv is the inductive invariant: the control   *)
(* state of each thread says what its slots hold, and every reference is   *)
(* counted once.                                                           *)
(***************************************************************************)
EXTENDS SharedContainer, FiniteSetTheorems, TLAPS

Writing == {"add", "remove", "optimize"}

\* A thread inside a call owns both operands.
OwnInv ==
  \A t \in Threads :
    pc[t] # "idle" => owner[op[t].dst] = t /\ owner[op[t].src] = t

\* What the point a thread has reached says about its operation and its slots.
Control(t) ==
  /\ pc[t] # "shrink"
  /\ pc[t] = "take" => /\ slot[op[t].dst] \in Wrappers
                       /\ counter[slot[op[t].dst]] = 1
                       /\ op[t].kind \in Writing
                       /\ op[t].src = op[t].dst
  /\ pc[t] = "clone" => /\ slot[op[t].dst] \in Wrappers
                        /\ op[t].kind \in Writing
                        /\ op[t].src = op[t].dst
  /\ pc[t] = "compute" => /\ slot[op[t].dst] \in Wrappers
                          /\ slot[op[t].src] # NULL
                          /\ op[t].kind \in {"or", "andnot"}
  /\ pc[t] = "drop" => /\ slot[op[t].dst] \in Wrappers
                       /\ op[t].kind \in Writing => answer[t] # NULL
                       /\ op[t].kind = "copy" => /\ answer[t] = NULL
                                                 /\ op[t].src # op[t].dst
  /\ pc[t] = "write" => /\ slot[op[t].dst] \in Containers
                        /\ slot[op[t].src] # NULL
  /\ pc[t] = "share" => /\ slot[op[t].dst] = NULL
                        /\ slot[op[t].src] # NULL
  /\ pc[t] = "read" => slot[op[t].dst] # NULL
  /\ pc[t] = "release" =>
       /\ dead[t] # NULL
       /\ op[t].kind \in Writing => slot[op[t].dst] \in Containers
       /\ op[t].kind = "copy" => /\ slot[op[t].dst] = NULL
                                 /\ op[t].src # op[t].dst
  /\ dead[t] # NULL => pc[t] = "release"
  /\ answer[t] # NULL => pc[t] = "drop"
  /\ pc[t] \in {"take", "clone", "drop", "write", "release"}
       /\ op[t].kind \in Writing => op[t].src = op[t].dst

ControlInv == \A t \in Threads : Control(t)

\* Allocated wrappers count their references; free ones have none.
CountInv ==
  \A w \in Wrappers :
    /\ container[w] # NULL => counter[w] = Cardinality(Refs(w))
    /\ container[w] = NULL => Refs(w) = {}

\* A dead wrapper is allocated, unreferenced and released by one thread; a
\* wrapper without references is dead.
DeadInv ==
  /\ \A t \in Threads :
       dead[t] # NULL => container[dead[t]] # NULL /\ Refs(dead[t]) = {}
  /\ \A t, u \in Threads : dead[t] # NULL /\ dead[t] = dead[u] => t = u
  /\ \A w \in Wrappers :
       container[w] # NULL => Refs(w) # {} \/ \E t \in Threads : dead[t] = w

\* What is held is allocated, and what is allocated is held.
LiveInv ==
  /\ \A b \in Bitmaps : slot[b] \in Containers => heap[slot[b]] # {}
  /\ \A w \in Wrappers : container[w] # NULL => heap[container[w]] # {}
  /\ \A t \in Threads : answer[t] # NULL => heap[answer[t]] # {}

Held(c) == \/ \E b \in Bitmaps : slot[b] = c
           \/ \E w \in Wrappers : container[w] = c
           \/ \E t \in Threads : answer[t] = c

LeakInv == \A c \in Containers : heap[c] # {} => Held(c)

\* No container is held twice.
ExclusiveInv ==
  /\ \A a, b \in Bitmaps : slot[a] \in Containers /\ slot[a] = slot[b] => a = b
  /\ \A v, w \in Wrappers :
       container[v] # NULL /\ container[v] = container[w] => v = w
  /\ \A t, u \in Threads : answer[t] # NULL /\ answer[t] = answer[u] => t = u
  /\ \A b \in Bitmaps, w \in Wrappers :
       slot[b] \in Containers => slot[b] # container[w]
  /\ \A b \in Bitmaps, t \in Threads :
       slot[b] \in Containers => slot[b] # answer[t]
  /\ \A w \in Wrappers, t \in Threads :
       container[w] # NULL => container[w] # answer[t]

IInv == /\ TypeOK
        /\ OwnInv
        /\ ControlInv
        /\ CountInv
        /\ DeadInv
        /\ LiveInv
        /\ LeakInv
        /\ ExclusiveInv
-----------------------------------------------------------------------------
(* Facts the action proofs share.                                          *)

\* The operands of a thread inside a call.
LEMMA Operands ==
  ASSUME TypeOK, NEW t \in Threads, pc[t] # "idle"
  PROVE  /\ op[t] \in Operations
         /\ op[t].dst \in Bitmaps
         /\ op[t].src \in Bitmaps
         /\ op[t].kind \in Kinds
         /\ op[t].arg \in SUBSET Elements
  BY DEF TypeOK, Operations

\* Sets of references are finite.
LEMMA RefsFinite ==
  ASSUME NEW w
  PROVE  IsFiniteSet(Refs(w)) /\ Cardinality(Refs(w)) \in Nat
  <1>1. Refs(w) \in SUBSET Bitmaps
    BY DEF Refs
  <1>2. IsFiniteSet(Refs(w))
    BY <1>1, FS_Subset, SharedContainerAssumption
  <1> QED
    BY <1>2, FS_CardinalityType

\* A counter that reads 1 means a single reference, and one that is read
\* through a slot is not 0.
LEMMA UniqueReference ==
  ASSUME CountInv, NEW w \in Wrappers, NEW b \in Bitmaps, slot[b] = w
  PROVE  /\ container[w] # NULL
         /\ counter[w] = Cardinality(Refs(w))
         /\ counter[w] > 0
         /\ counter[w] = 1 => \A a \in Bitmaps : slot[a] = w => a = b
  <1>1. b \in Refs(w)
    BY DEF Refs
  <1>2. container[w] # NULL /\ counter[w] = Cardinality(Refs(w))
    BY <1>1 DEF CountInv
  <1>3. Cardinality(Refs(w)) # 0
    BY <1>1, RefsFinite, FS_EmptySet
  <1>4. ASSUME counter[w] = 1, NEW a \in Bitmaps, slot[a] = w
        PROVE  a = b
    <2>1. PICK x : Refs(w) = {x}
      BY <1>2, <1>4, RefsFinite, FS_Singleton
    <2>2. a \in Refs(w)
      BY <1>4 DEF Refs
    <2> QED
      BY <1>1, <2>1, <2>2
  <1> QED
    BY <1>2, <1>3, <1>4, RefsFinite
-----------------------------------------------------------------------------
(* The type invariant.                                                     *)

\* What a call leaves to prove about pc and op.
LEMMA StartType ==
  ASSUME TypeOK, NEW t \in Threads, NEW o, NEW l \in PCs, Start(t, o, l)
  PROVE  /\ pc' \in [Threads -> PCs]
         /\ op' \in [Threads -> Operations \cup {NULL}]
         /\ \A u \in Threads : pc'[u] = "idle" <=> op'[u] = NULL
         /\ o \in Operations /\ o.dst \in Bitmaps /\ o.src \in Bitmaps
  BY SharedContainerAssumption DEF TypeOK, Start, Operations

\* What a step that moves a thread on leaves to prove about pc and op.
LEMMA GotoType ==
  ASSUME TypeOK, NEW t \in Threads, NEW l \in PCs, Goto(t, l), pc[t] # "idle"
  PROVE  /\ pc' \in [Threads -> PCs]
         /\ op' \in [Threads -> Operations \cup {NULL}]
         /\ \A u \in Threads : pc'[u] = "idle" <=> op'[u] = NULL
  BY DEF TypeOK, Goto

\* The result of an operation on elements is a set of elements.
LEMMA ApplyType ==
  ASSUME NEW o \in Operations, NEW d \in SUBSET Elements, NEW s \in SUBSET Elements
  PROVE  Apply(o, d, s) \in SUBSET Elements
  BY DEF Apply, Operations
-----------------------------------------------------------------------------
(* The inductive invariant is preserved by every action.                   *)

\* A step of thread t leaves the other threads where they were: it stores into
\* its own slots, and does not touch a counter another thread has seen at 1.
LEMMA OtherThreads ==
  ASSUME IInv, NEW t \in Threads, NEW u \in Threads, u # t,
         pc'[u] = pc[u], op'[u] = op[u], answer'[u] = answer[u],
         dead'[u] = dead[u],
         \A b \in Bitmaps : owner[b] # t => slot'[b] = slot[b],
         pc[u] = "take" => counter'[slot[op[u].dst]] = 1
  PROVE  Control(u)'
  <1>1. CASE pc[u] = "idle"
    BY <1>1 DEF IInv, ControlInv, Control
  <1>2. CASE pc[u] # "idle"
    <2>1. slot'[op[u].dst] = slot[op[u].dst] /\ slot'[op[u].src] = slot[op[u].src]
      BY <1>2, Operands DEF IInv, OwnInv
    <2> QED
      BY <1>2, <2>1 DEF IInv, ControlInv, Control
  <1> QED
    BY <1>1, <1>2

\* A thread about to take a container has seen the counter at 1.
LEMMA TakeSeesOne ==
  ASSUME IInv, NEW u \in Threads
  PROVE  pc[u] = "take" => counter[slot[op[u].dst]] = 1
  BY DEF IInv, ControlInv, Control

\* Actions that only move a thread on leave the references alone.
LEMMA ReferencesUnchanged ==
  ASSUME IInv, UNCHANGED <<slot, heap, container, counter, answer, dead>>
  PROVE  CountInv' /\ DeadInv' /\ LiveInv' /\ LeakInv' /\ ExclusiveInv'
  <1>1. \A w : Refs(w)' = Refs(w)
    BY DEF Refs
  <1>2. CountInv'
    BY <1>1 DEF IInv, CountInv
  <1>3. DeadInv'
    BY <1>1 DEF IInv, DeadInv
  <1>4. LiveInv' /\ LeakInv'
    BY DEF IInv, LiveInv, LeakInv, Held
  <1>5. ExclusiveInv'
    BY DEF IInv, ExclusiveInv
  <1> QED
    BY <1>2, <1>3, <1>4, <1>5

\* ra_unshare_container_at_index: what the load of the counter told the thread.
LEMMA StartWriteInv ==
  ASSUME IInv, NEW t \in Threads, NEW o, o.src = o.dst, StartWrite(t, o)
  PROVE  IInv'
  <1>1. TypeOK'
    BY StartType DEF IInv, TypeOK, StartWrite, PCs
  <1>2. OwnInv'
    BY <1>1 DEF IInv, TypeOK, OwnInv, StartWrite, Start
  <1>3. ControlInv'
    <2> SUFFICES ASSUME NEW u \in Threads PROVE Control(u)'
      BY DEF ControlInv
    <2>1. CASE u = t
      <3>1. answer'[t] = NULL /\ dead'[t] = NULL
        BY SharedContainerAssumption
        DEF IInv, ControlInv, Control, StartWrite, Start
      <3>a. o.dst \in Bitmaps
        BY DEF StartWrite, Start, Operations
      <3>2. /\ op'[t] = o /\ slot'[o.dst] = slot[o.dst]
            /\ o.kind \in Writing /\ counter' = counter
            /\ slot[o.dst] \in Containers \cup Wrappers
        BY <3>a DEF IInv, TypeOK, StartWrite, Start, Writing
      <3>3. \/ pc'[t] = "write" /\ slot[o.dst] \notin Wrappers
            \/ pc'[t] = "take" /\ slot[o.dst] \in Wrappers /\ counter[slot[o.dst]] = 1
            \/ pc'[t] = "clone" /\ slot[o.dst] \in Wrappers
        BY DEF IInv, TypeOK, StartWrite, Start, IsShared, croaring_refcount_is_unique
      <3> QED
        BY <2>1, <3>1, <3>2, <3>3, SharedContainerAssumption DEF Control, Writing
    <2>2. CASE u # t
      BY <2>2, <1>1, OtherThreads, TakeSeesOne DEF IInv, TypeOK, StartWrite, Start
    <2> QED
      BY <2>1, <2>2
  <1>4. CountInv' /\ DeadInv' /\ LiveInv' /\ LeakInv' /\ ExclusiveInv'
    BY ReferencesUnchanged DEF StartWrite
  <1> QED
    BY <1>1, <1>2, <1>3, <1>4 DEF IInv

\* The choice of or_inplace and andnot_inplace between a private and a shared
\* destination.
LEMMA StartInplaceInv ==
  ASSUME IInv, NEW t \in Threads, NEW o, StartInplace(t, o)
  PROVE  IInv'
  <1>1. TypeOK'
    BY StartType DEF IInv, TypeOK, StartInplace, PCs
  <1>2. OwnInv'
    BY <1>1 DEF IInv, TypeOK, OwnInv, StartInplace, Start
  <1>3. ControlInv'
    <2> SUFFICES ASSUME NEW u \in Threads PROVE Control(u)'
      BY DEF ControlInv
    <2>1. CASE u = t
      <3>1. answer'[t] = NULL /\ dead'[t] = NULL
        BY SharedContainerAssumption
        DEF IInv, ControlInv, Control, StartInplace, Start
      <3>a. o.dst \in Bitmaps
        BY DEF StartInplace, Start, Operations
      <3>2. /\ op'[t] = o /\ slot' = slot
            /\ o.kind \in {"or", "andnot"} /\ slot[o.src] # NULL
            /\ slot[o.dst] \in Containers \cup Wrappers
        BY <3>a DEF IInv, TypeOK, StartInplace, Start
      <3>3. \/ pc'[t] = "write" /\ slot[o.dst] \notin Wrappers
            \/ pc'[t] = "compute" /\ slot[o.dst] \in Wrappers
        BY DEF IInv, TypeOK, StartInplace, Start, IsShared
      <3> QED
        BY <2>1, <3>1, <3>2, <3>3, SharedContainerAssumption DEF Control, Writing
    <2>2. CASE u # t
      BY <2>2, <1>1, OtherThreads, TakeSeesOne DEF IInv, TypeOK, StartInplace, Start
    <2> QED
      BY <2>1, <2>2
  <1>4. CountInv' /\ DeadInv' /\ LiveInv' /\ LeakInv' /\ ExclusiveInv'
    BY ReferencesUnchanged DEF StartInplace
  <1> QED
    BY <1>1, <1>2, <1>3, <1>4 DEF IInv

\* A query starts to read.
LEMMA StartReadInv ==
  ASSUME IInv, NEW t \in Threads, NEW o, StartRead(t, o)
  PROVE  IInv'
  <1>1. TypeOK'
    BY StartType DEF IInv, TypeOK, StartRead, PCs
  <1>2. OwnInv'
    BY <1>1 DEF IInv, TypeOK, OwnInv, StartRead, Start
  <1>3. ControlInv'
    <2> SUFFICES ASSUME NEW u \in Threads PROVE Control(u)'
      BY DEF ControlInv
    <2>1. CASE u = t
      BY <2>1, <1>1, SharedContainerAssumption
      DEF IInv, TypeOK, ControlInv, Control, StartRead, Start, Writing, IsShared,
          croaring_refcount_is_unique
    <2>2. CASE u # t
      BY <2>2, <1>1, OtherThreads, TakeSeesOne DEF IInv, TypeOK, StartRead, Start
    <2> QED
      BY <2>1, <2>2
  <1>4. CountInv' /\ DeadInv' /\ LiveInv' /\ LeakInv' /\ ExclusiveInv'
    BY ReferencesUnchanged DEF StartRead
  <1> QED
    BY <1>1, <1>2, <1>3, <1>4 DEF IInv

\* A query returns.
LEMMA FinishReadInv ==
  ASSUME IInv, NEW t \in Threads, FinishRead(t)
  PROVE  IInv'
  <1>1. TypeOK'
    BY GotoType DEF IInv, TypeOK, FinishRead, PCs
  <1>2. OwnInv'
    BY <1>1 DEF IInv, TypeOK, OwnInv, FinishRead, Goto
  <1>3. ControlInv'
    <2> SUFFICES ASSUME NEW u \in Threads PROVE Control(u)'
      BY DEF ControlInv
    <2>1. CASE u = t
      BY <2>1, <1>1, SharedContainerAssumption
      DEF IInv, TypeOK, ControlInv, Control, FinishRead, Goto, Writing
    <2>2. CASE u # t
      BY <2>2, <1>1, OtherThreads, TakeSeesOne DEF IInv, TypeOK, FinishRead, Goto
    <2> QED
      BY <2>1, <2>2
  <1>4. CountInv' /\ DeadInv' /\ LiveInv' /\ LeakInv' /\ ExclusiveInv'
    BY ReferencesUnchanged DEF FinishRead
  <1> QED
    BY <1>1, <1>2, <1>3, <1>4 DEF IInv

\* A bitmap goes to another thread while no call uses it.
LEMMA HandOverInv ==
  ASSUME IInv, NEW b \in Bitmaps, NEW t \in Threads, HandOver(b, t)
  PROVE  IInv'
  <1>1. TypeOK'
    BY DEF IInv, TypeOK, HandOver
  <1>2. OwnInv'
    BY DEF IInv, TypeOK, OwnInv, HandOver, InUse
  <1>3. ControlInv'
    BY DEF IInv, ControlInv, Control, HandOver
  <1>4. CountInv' /\ DeadInv' /\ LiveInv' /\ LeakInv' /\ ExclusiveInv'
    BY ReferencesUnchanged DEF HandOver
  <1> QED
    BY <1>1, <1>2, <1>3, <1>4 DEF IInv

\* A slot that is not empty leads to an allocated container.
LEMMA ContentType ==
  ASSUME IInv, NEW b \in Bitmaps
  PROVE  /\ Content(b) \in SUBSET Elements
         /\ slot[b] # NULL => Content(b) # {} /\ Unwrap(b) \in Containers
  <1>1. CASE slot[b] = NULL
    BY <1>1 DEF Content
  <1>2. CASE slot[b] \in Containers
    BY <1>2, SharedContainerAssumption
    DEF IInv, TypeOK, LiveInv, Content, Unwrap, IsShared
  <1>3. CASE slot[b] \in Wrappers
    <2>1. container[slot[b]] \in Containers /\ container[slot[b]] # NULL
      BY <1>3, UniqueReference DEF IInv, TypeOK
    <2> QED
      BY <1>3, <2>1, SharedContainerAssumption
      DEF IInv, TypeOK, LiveInv, Content, Unwrap, IsShared
  <1> QED
    BY <1>1, <1>2, <1>3 DEF IInv, TypeOK

\* A container that thread t has just built is held by t alone.
LEMMA NewAnswer ==
  ASSUME IInv, NEW t \in Threads, NEW c \in Containers, heap[c] = {},
         NEW S \in SUBSET Elements, S # {}, answer[t] = NULL,
         heap' = [heap EXCEPT ![c] = S], answer' = [answer EXCEPT ![t] = c],
         UNCHANGED <<slot, container>>
  PROVE  LiveInv' /\ LeakInv' /\ ExclusiveInv'
  <1>1. LiveInv'
    BY SharedContainerAssumption DEF IInv, TypeOK, LiveInv
  <1>2. ASSUME NEW d \in Containers, heap'[d] # {}
        PROVE  Held(d)'
    <2>1. CASE d = c
      BY <2>1 DEF IInv, TypeOK, Held
    <2>2. CASE d # c
      <3>1. Held(d)
        BY <1>2, <2>2 DEF IInv, TypeOK, LeakInv
      <3>2. \A u \in Threads : answer[u] = d => answer'[u] = d
        BY SharedContainerAssumption DEF IInv, TypeOK
      <3> QED
        BY <3>1, <3>2 DEF Held
    <2> QED
      BY <2>1, <2>2
  <1>3. ExclusiveInv'
    BY SharedContainerAssumption DEF IInv, TypeOK, LiveInv, ExclusiveInv
  <1> QED
    BY <1>1, <1>2, <1>3 DEF LeakInv

\* roaring_bitmap_add inserts a new key with a container of its own.
LEMMA AddNewKeyInv ==
  ASSUME IInv, NEW t \in Threads, NEW b \in Bitmaps, NEW x \in Elements,
         AddNewKey(t, b, x)
  PROVE  IInv'
  <1>1. PICK c \in FreeContainers : /\ heap' = [heap EXCEPT ![c] = {x}]
                                    /\ slot' = [slot EXCEPT ![b] = c]
    BY DEF AddNewKey
  <1>2. c \in Containers /\ heap[c] = {} /\ slot[b] = NULL
    BY <1>1 DEF AddNewKey, FreeContainers
  <1>3. /\ pc' = pc /\ op' = op
        /\ UNCHANGED <<owner, container, counter, answer, dead>>
        /\ pc[t] = "idle" /\ owner[b] = t
    BY DEF IInv, TypeOK, AddNewKey, Start, Unary
  <1>4. TypeOK'
    BY <1>1, <1>2, <1>3 DEF IInv, TypeOK
  <1>5. OwnInv'
    BY <1>3 DEF IInv, OwnInv
  <1>6. ControlInv'
    <2> SUFFICES ASSUME NEW u \in Threads PROVE Control(u)'
      BY DEF ControlInv
    <2>1. CASE u = t
      BY <2>1, <1>3 DEF IInv, ControlInv, Control
    <2>2. CASE u # t
      BY <2>2, <1>1, <1>3, OtherThreads, TakeSeesOne DEF IInv, TypeOK
    <2> QED
      BY <2>1, <2>2
  <1>7. \A w \in Wrappers : Refs(w)' = Refs(w)
    BY <1>1, <1>2, SharedContainerAssumption DEF IInv, TypeOK, Refs
  <1>8. CountInv' /\ DeadInv'
    BY <1>3, <1>4, <1>7 DEF IInv, TypeOK, CountInv, DeadInv
  <1>9. LiveInv'
    BY <1>1, <1>2, <1>3, SharedContainerAssumption DEF IInv, TypeOK, LiveInv
  <1>10. ASSUME NEW d \in Containers, heap'[d] # {}
         PROVE  Held(d)'
    <2>1. CASE d = c
      BY <2>1, <1>1 DEF IInv, TypeOK, Held
    <2>2. CASE d # c
      <3>1. Held(d)
        BY <1>1, <1>10, <2>2 DEF IInv, TypeOK, LeakInv
      <3>2. \A a \in Bitmaps : slot[a] = d => slot'[a] = d
        BY <1>1, <1>2, SharedContainerAssumption DEF IInv, TypeOK
      <3> QED
        BY <1>3, <3>1, <3>2 DEF Held
    <2> QED
      BY <2>1, <2>2
  <1>11. ExclusiveInv'
    BY <1>1, <1>2, <1>3, SharedContainerAssumption
    DEF IInv, TypeOK, LiveInv, ExclusiveInv
  <1> QED
    BY <1>4, <1>5, <1>6, <1>8, <1>9, <1>10, <1>11 DEF IInv, LeakInv

\* shared_container_extract_copy clones a container others still refer to.
LEMMA CloneContainerInv ==
  ASSUME IInv, NEW t \in Threads, CloneContainer(t)
  PROVE  IInv'
  <1>1. PICK c \in FreeContainers :
          /\ heap' = [heap EXCEPT ![c] = Content(op[t].dst)]
          /\ answer' = [answer EXCEPT ![t] = c]
    BY DEF CloneContainer
  <1>2. c \in Containers /\ heap[c] = {}
    BY <1>1 DEF FreeContainers
  <1>3. /\ pc[t] = "clone" /\ answer[t] = NULL
        /\ op[t].dst \in Bitmaps /\ slot[op[t].dst] \in Wrappers
        /\ op[t].kind \in Writing /\ op[t].src = op[t].dst
        /\ pc' = [pc EXCEPT ![t] = "drop"] /\ op' = op
        /\ UNCHANGED <<slot, owner, container, counter, dead>>
    BY Operands DEF IInv, ControlInv, Control, CloneContainer, Goto
  <1>4. Content(op[t].dst) \in SUBSET Elements /\ Content(op[t].dst) # {}
    BY <1>3, ContentType, SharedContainerAssumption
  <1>5. TypeOK'
    BY <1>1, <1>2, <1>3, <1>4, GotoType DEF IInv, TypeOK, PCs, CloneContainer
  <1>6. OwnInv'
    BY <1>3 DEF IInv, TypeOK, OwnInv
  <1>7. ControlInv'
    <2> SUFFICES ASSUME NEW u \in Threads PROVE Control(u)'
      BY DEF ControlInv
    <2>1. CASE u = t
      <3>1. pc'[t] = "drop" /\ answer'[t] = c /\ dead'[t] = NULL
        BY <1>1, <1>3 DEF IInv, TypeOK, ControlInv, Control
      <3> QED
        BY <2>1, <1>2, <1>3, <3>1, SharedContainerAssumption DEF Control, Writing
    <2>2. CASE u # t
      BY <2>2, <1>1, <1>3, OtherThreads, TakeSeesOne DEF IInv, TypeOK
    <2> QED
      BY <2>1, <2>2
  <1>8. \A w \in Wrappers : Refs(w)' = Refs(w)
    BY <1>3 DEF Refs
  <1>9. CountInv' /\ DeadInv'
    BY <1>3, <1>5, <1>8 DEF IInv, TypeOK, CountInv, DeadInv
  <1>10. LiveInv' /\ LeakInv' /\ ExclusiveInv'
    BY <1>1, <1>2, <1>3, <1>4, NewAnswer
  <1> QED
    BY <1>5, <1>6, <1>7, <1>9, <1>10 DEF IInv

\* The result of an operation on a shared destination is a new container.
LEMMA ComputeContainerInv ==
  ASSUME IInv, NEW t \in Threads, ComputeContainer(t)
  PROVE  IInv'
  <1> DEFINE result == Apply(op[t], Content(op[t].dst), Content(op[t].src))
  <1>1. /\ pc[t] = "compute" /\ answer[t] = NULL /\ dead[t] = NULL
        /\ op[t] \in Operations
        /\ op[t].dst \in Bitmaps /\ slot[op[t].dst] \in Wrappers
        /\ op[t].src \in Bitmaps
        /\ op[t].kind \in {"or", "andnot"}
        /\ pc' = [pc EXCEPT ![t] = "drop"] /\ op' = op
        /\ UNCHANGED <<slot, owner, container, counter, dead>>
    BY Operands DEF IInv, ControlInv, Control, ComputeContainer, Goto
  <1>2. result \in SUBSET Elements
    BY <1>1, ContentType, ApplyType DEF IInv
  <1>3. \/ result = {} /\ heap' = heap /\ answer' = answer
        \/ /\ result # {}
           /\ \E c \in FreeContainers : /\ heap' = [heap EXCEPT ![c] = result]
                                        /\ answer' = [answer EXCEPT ![t] = c]
    BY DEF ComputeContainer
  <1> HIDE DEF result
  <1>4. TypeOK'
    BY <1>1, <1>2, <1>3 DEF IInv, TypeOK, FreeContainers, PCs
  <1>5. OwnInv'
    BY <1>1 DEF IInv, TypeOK, OwnInv
  <1>6. ControlInv'
    <2> SUFFICES ASSUME NEW u \in Threads PROVE Control(u)'
      BY DEF ControlInv
    <2>1. CASE u = t
      <3>1. pc'[t] = "drop" /\ dead'[t] = NULL
        BY <1>1 DEF IInv, TypeOK
      <3> QED
        BY <2>1, <1>1, <3>1 DEF Control, Writing
    <2>2. CASE u # t
      BY <2>2, <1>1, <1>3, OtherThreads, TakeSeesOne DEF IInv, TypeOK
    <2> QED
      BY <2>1, <2>2
  <1>7. \A w \in Wrappers : Refs(w)' = Refs(w)
    BY <1>1 DEF Refs
  <1>8. CountInv' /\ DeadInv'
    BY <1>1, <1>4, <1>7 DEF IInv, TypeOK, CountInv, DeadInv
  <1>9. LiveInv' /\ LeakInv' /\ ExclusiveInv'
    <2>1. CASE heap' = heap /\ answer' = answer
      BY <2>1, <1>1, ReferencesUnchanged
    <2>2. CASE /\ result # {}
               /\ \E c \in FreeContainers :
                    /\ heap' = [heap EXCEPT ![c] = result]
                    /\ answer' = [answer EXCEPT ![t] = c]
      BY <2>2, <1>1, <1>2, NewAnswer DEF FreeContainers
    <2> QED
      BY <1>3, <2>1, <2>2
  <1> QED
    BY <1>4, <1>5, <1>6, <1>8, <1>9 DEF IInv

\* shared_container_extract_copy takes the container of the last reference.
LEMMA TakeContainerInv ==
  ASSUME IInv, NEW t \in Threads, TakeContainer(t)
  PROVE  IInv'
  <1> DEFINE b == op[t].dst
             w == slot[b]
             c == container[w]
  <1>1. /\ pc[t] = "take" /\ answer[t] = NULL /\ dead[t] = NULL
        /\ b \in Bitmaps /\ w \in Wrappers /\ counter[w] = 1 /\ owner[b] = t
        /\ op[t].kind \in Writing /\ op[t].src = b
        /\ slot' = [slot EXCEPT ![b] = c]
        /\ container' = [container EXCEPT ![w] = NULL]
        /\ counter' = [counter EXCEPT ![w] = 0]
        /\ pc' = [pc EXCEPT ![t] = "write"] /\ op' = op
        /\ UNCHANGED <<owner, heap, answer, dead>>
    BY Operands DEF IInv, OwnInv, ControlInv, Control, TakeContainer, Goto
  <1>2. c \in Containers /\ heap[c] # {} /\ \A a \in Bitmaps : slot[a] = w => a = b
    BY <1>1, UniqueReference DEF IInv, TypeOK, LiveInv
  <1> HIDE DEF b, w, c
  <1>3. w = slot[b] /\ c = container[w] /\ b = op[t].dst
    BY DEF b, w, c
  <1>4. TypeOK'
    BY <1>1, <1>2 DEF IInv, TypeOK, PCs
  <1>5. OwnInv'
    BY <1>1 DEF IInv, TypeOK, OwnInv
  <1>6. ControlInv'
    <2> SUFFICES ASSUME NEW u \in Threads PROVE Control(u)'
      BY DEF ControlInv
    <2>1. CASE u = t
      <3>1. pc'[t] = "write" /\ slot'[b] \in Containers
        BY <1>1, <1>2 DEF IInv, TypeOK
      <3> QED
        BY <2>1, <1>1, <1>3, <3>1, SharedContainerAssumption DEF Control, Writing
    <2>2. CASE u # t
      <3>1. pc[u] = "take" => counter'[slot[op[u].dst]] = 1
        <4> SUFFICES ASSUME pc[u] = "take" PROVE counter'[slot[op[u].dst]] = 1
          OBVIOUS
        <4>1. op[u].dst \in Bitmaps /\ owner[op[u].dst] = u
          BY Operands DEF IInv, OwnInv
        <4>2. slot[op[u].dst] # w
          BY <1>1, <1>2, <2>2, <4>1
        <4> QED
          BY <1>1, <4>2 DEF IInv, TypeOK, ControlInv, Control
      <3> QED
        BY <2>2, <1>1, <3>1, OtherThreads DEF IInv, TypeOK
    <2> QED
      BY <2>1, <2>2
  <1>7. \A v \in Wrappers : Refs(v)' = IF v = w THEN {} ELSE Refs(v)
    BY <1>1, <1>2, <1>3, SharedContainerAssumption DEF IInv, TypeOK, Refs
  <1>8. CountInv' /\ DeadInv'
    <2>1. \A u \in Threads : dead[u] # w
      BY <1>1, <1>3, SharedContainerAssumption DEF IInv, DeadInv, Refs
    <2>2. /\ container'[w] = NULL
          /\ \A v \in Wrappers \ {w} : /\ container'[v] = container[v]
                                       /\ counter'[v] = counter[v]
      BY <1>1 DEF IInv, TypeOK
    <2>3. CountInv'
      BY <1>7, <2>2 DEF IInv, CountInv
    <2>4. dead \in [Threads -> Wrappers \cup {NULL}] /\ dead' = dead
      BY <1>1 DEF IInv, TypeOK
    <2>5. DeadInv'
      BY <1>7, <2>1, <2>2, <2>4 DEF IInv, DeadInv
    <2> QED
      BY <2>3, <2>5
  <1>9. LiveInv'
    BY <1>1, <1>2, SharedContainerAssumption DEF IInv, TypeOK, LiveInv
  <1>10. ASSUME NEW d \in Containers, heap'[d] # {}
         PROVE  Held(d)'
    <2>1. Held(d)
      BY <1>1, <1>10 DEF IInv, LeakInv
    <2>2. CASE \E a \in Bitmaps : slot[a] = d
      BY <2>2, <1>1, <1>3, SharedContainerAssumption DEF IInv, TypeOK, Held
    <2>3. CASE \E v \in Wrappers : container[v] = d
      BY <2>3, <1>1, <1>3 DEF IInv, TypeOK, Held
    <2>4. CASE \E u \in Threads : answer[u] = d
      BY <2>4, <1>1 DEF Held
    <2> QED
      BY <2>1, <2>2, <2>3, <2>4 DEF Held
  <1>11. ExclusiveInv'
    BY <1>1, <1>2, <1>3, SharedContainerAssumption DEF IInv, TypeOK, ExclusiveInv
  <1> QED
    BY <1>4, <1>5, <1>6, <1>8, <1>9, <1>10, <1>11 DEF IInv, LeakInv

\* A write into a private container, which is freed when it becomes empty.
LEMMA WriteContainerInv ==
  ASSUME IInv, NEW t \in Threads, WriteContainer(t)
  PROVE  IInv'
  <1> DEFINE b == op[t].dst
             c == slot[b]
             result == Apply(op[t], Content(b), Content(op[t].src))
  <1>1. /\ pc[t] = "write" /\ answer[t] = NULL /\ dead[t] = NULL
        /\ b \in Bitmaps /\ c \in Containers /\ owner[b] = t
        /\ op[t] \in Operations /\ op[t].src \in Bitmaps
        /\ heap' = [heap EXCEPT ![c] = result]
        /\ slot' = IF result = {} THEN [slot EXCEPT ![b] = NULL] ELSE slot
        /\ pc' = [pc EXCEPT ![t] = "idle"] /\ op' = [op EXCEPT ![t] = NULL]
        /\ UNCHANGED <<owner, container, counter, answer, dead>>
    BY Operands DEF IInv, OwnInv, ControlInv, Control, WriteContainer, Goto
  <1>2. result \in SUBSET Elements
    BY <1>1, ContentType, ApplyType
  <1>3. c = slot[b]
    OBVIOUS
  <1> HIDE DEF b, c, result
  <1>4. TypeOK'
    BY <1>1, <1>2 DEF IInv, TypeOK, PCs
  <1>5. OwnInv'
    BY <1>1 DEF IInv, TypeOK, OwnInv
  <1>6. ControlInv'
    <2> SUFFICES ASSUME NEW u \in Threads PROVE Control(u)'
      BY DEF ControlInv
    <2>1. CASE u = t
      <3>1. pc'[t] = "idle" /\ answer'[t] = NULL /\ dead'[t] = NULL
        BY <1>1 DEF IInv, TypeOK
      <3> QED
        BY <2>1, <3>1 DEF Control
    <2>2. CASE u # t
      BY <2>2, <1>1, OtherThreads, TakeSeesOne DEF IInv, TypeOK
    <2> QED
      BY <2>1, <2>2
  <1>7. \A w \in Wrappers : Refs(w)' = Refs(w)
    BY <1>1, <1>3, SharedContainerAssumption DEF IInv, TypeOK, Refs
  <1>8. CountInv' /\ DeadInv'
    BY <1>1, <1>4, <1>7 DEF IInv, TypeOK, CountInv, DeadInv
  <1>9. /\ \A a \in Bitmaps : a # b => slot[a] # c
        /\ \A w \in Wrappers : container[w] # c
        /\ \A u \in Threads : answer[u] # c
    BY <1>1, <1>3 DEF IInv, ExclusiveInv
  <1>10. LiveInv'
    BY <1>1, <1>2, <1>3, <1>9, SharedContainerAssumption DEF IInv, TypeOK, LiveInv
  <1>11. ASSUME NEW d \in Containers, heap'[d] # {}
         PROVE  Held(d)'
    <2>1. CASE d = c
      <3>1. slot' = slot
        BY <1>1, <1>11, <2>1 DEF IInv, TypeOK
      <3> QED
        BY <2>1, <1>1, <1>3, <3>1 DEF Held
    <2>2. CASE d # c
      <3>1. Held(d)
        BY <1>1, <1>11, <2>2 DEF IInv, TypeOK, LeakInv
      <3>2. \A a \in Bitmaps : slot[a] = d => slot'[a] = d
        BY <1>1, <1>3, <2>2 DEF IInv, TypeOK
      <3> QED
        BY <1>1, <3>1, <3>2 DEF Held
    <2> QED
      BY <2>1, <2>2
  <1>12. ExclusiveInv'
    BY <1>1, <1>3, SharedContainerAssumption DEF IInv, TypeOK, ExclusiveInv
  <1> QED
    BY <1>4, <1>5, <1>6, <1>8, <1>10, <1>11, <1>12 DEF IInv, LeakInv

\* shared_container_free releases the container and the wrapper.
LEMMA ReleaseSharedInv ==
  ASSUME IInv, NEW t \in Threads, ReleaseShared(t)
  PROVE  IInv'
  <1> DEFINE w == dead[t]
             c == container[w]
             l == AfterDrop(op[t])
  <1>1. /\ pc[t] = "release" /\ answer[t] = NULL /\ w # NULL
        /\ op[t].dst \in Bitmaps
        /\ heap' = [heap EXCEPT ![c] = {}]
        /\ container' = [container EXCEPT ![w] = NULL]
        /\ dead' = [dead EXCEPT ![t] = NULL]
        /\ Goto(t, l)
        /\ UNCHANGED <<slot, owner, counter, answer>>
    BY Operands DEF IInv, ControlInv, Control, ReleaseShared
  <1>2. /\ w \in Wrappers /\ c \in Containers /\ Refs(w) = {} /\ c # NULL
        /\ \A u \in Threads : dead[u] = w => u = t
    BY <1>1 DEF IInv, TypeOK, DeadInv
  <1>3. c = container[w] /\ w = dead[t]
    OBVIOUS
  <1>4. /\ l \in {"idle", "write", "share"}
        /\ l = "write" <=> op[t].kind \in Writing
        /\ l = "share" => op[t].kind = "copy" /\ slot[op[t].src] # NULL
    BY DEF AfterDrop, Writing
  <1> HIDE DEF w, c, l
  <1>5. TypeOK'
    BY <1>1, <1>2, <1>4, GotoType DEF IInv, TypeOK, PCs
  <1>6. OwnInv'
    BY <1>1, <1>4 DEF IInv, TypeOK, OwnInv, Goto
  <1>7. ControlInv'
    <2> SUFFICES ASSUME NEW u \in Threads PROVE Control(u)'
      BY DEF ControlInv
    <2>1. CASE u = t
      <3>1. pc'[t] = l /\ answer'[t] = NULL /\ dead'[t] = NULL
        BY <1>1, <1>2 DEF IInv, TypeOK, Goto
      <3>2. l # "idle" => op'[t] = op[t]
        BY <1>1 DEF Goto
      <3>3. /\ op[t].kind \in Writing => /\ slot[op[t].dst] \in Containers
                                         /\ op[t].src = op[t].dst
            /\ op[t].kind = "copy" => slot[op[t].dst] = NULL
        BY <1>1 DEF IInv, ControlInv, Control
      <3> QED
        BY <2>1, <1>1, <1>4, <3>1, <3>2, <3>3, SharedContainerAssumption
        DEF Control
    <2>2. CASE u # t
      BY <2>2, <1>1, OtherThreads, TakeSeesOne DEF IInv, TypeOK, Goto
    <2> QED
      BY <2>1, <2>2
  <1>8. \A v \in Wrappers : Refs(v)' = Refs(v)
    BY <1>1 DEF Refs
  <1>9. CountInv' /\ DeadInv'
    BY <1>1, <1>2, <1>3, <1>8 DEF IInv, TypeOK, CountInv, DeadInv
  <1>10. /\ \A a \in Bitmaps : slot[a] # c
         /\ \A v \in Wrappers : v # w => container[v] # c
         /\ \A u \in Threads : answer[u] # c
    BY <1>2, <1>3 DEF IInv, ExclusiveInv
  <1>11. LiveInv'
    BY <1>1, <1>2, <1>10 DEF IInv, TypeOK, LiveInv
  <1>12. ASSUME NEW d \in Containers, heap'[d] # {}
         PROVE  Held(d)'
    <2>1. d # c /\ Held(d)
      BY <1>1, <1>2, <1>12 DEF IInv, TypeOK, LeakInv
    <2>2. \A v \in Wrappers : container[v] = d => container'[v] = d
      BY <1>1, <1>3, <2>1 DEF IInv, TypeOK
    <2> QED
      BY <1>1, <2>1, <2>2 DEF Held
  <1>13. ExclusiveInv'
    BY <1>1, <1>2, SharedContainerAssumption DEF IInv, TypeOK, ExclusiveInv
  <1> QED
    BY <1>5, <1>6, <1>7, <1>9, <1>11, <1>12, <1>13 DEF IInv, LeakInv

\* Freeing the private container of a slot leaves nothing behind.
LEMMA FreePrivate ==
  ASSUME IInv, NEW b \in Bitmaps, slot[b] \in Containers,
         heap' = [heap EXCEPT ![slot[b]] = {}],
         slot' = [slot EXCEPT ![b] = NULL],
         UNCHANGED <<container, counter, answer, dead>>
  PROVE  CountInv' /\ DeadInv' /\ LiveInv' /\ LeakInv' /\ ExclusiveInv'
  <1> DEFINE c == slot[b]
  <1>1. c \in Containers /\ c = slot[b]
    OBVIOUS
  <1>2. heap' = [heap EXCEPT ![c] = {}]
    OBVIOUS
  <1> HIDE DEF c
  <1>3. \A w \in Wrappers : Refs(w)' = Refs(w)
    BY <1>1, SharedContainerAssumption DEF IInv, TypeOK, Refs
  <1>4. CountInv' /\ DeadInv'
    BY <1>3 DEF IInv, TypeOK, CountInv, DeadInv
  <1>5. /\ \A a \in Bitmaps : a # b => slot[a] # c
        /\ \A w \in Wrappers : container[w] # c
        /\ \A u \in Threads : answer[u] # c
    BY <1>1 DEF IInv, ExclusiveInv
  <1>6. LiveInv'
    BY <1>1, <1>2, <1>5, SharedContainerAssumption DEF IInv, TypeOK, LiveInv
  <1>7. ASSUME NEW d \in Containers, heap'[d] # {}
        PROVE  Held(d)'
    <2>1. d # c /\ Held(d)
      BY <1>1, <1>2, <1>7 DEF IInv, TypeOK, LeakInv
    <2>2. \A a \in Bitmaps : slot[a] = d => slot'[a] = d
      BY <1>1, <2>1 DEF IInv, TypeOK
    <2> QED
      BY <2>1, <2>2 DEF Held
  <1>8. ExclusiveInv'
    BY <1>1, SharedContainerAssumption DEF IInv, TypeOK, ExclusiveInv
  <1> QED
    BY <1>4, <1>6, <1>7, <1>8 DEF LeakInv

\* container_free on the slot of a cleared bitmap.
LEMMA StartClearInv ==
  ASSUME IInv, NEW t \in Threads, NEW o, StartClear(t, o)
  PROVE  IInv'
  <1> DEFINE l == IF IsShared(o.dst) THEN "drop" ELSE "idle"
  <1>1. /\ Start(t, o, l) /\ l \in PCs
        /\ o.kind = "clear" /\ slot[o.dst] # NULL
        /\ UNCHANGED <<owner, container, counter, answer, dead>>
    BY DEF StartClear, PCs
  <1>2. /\ o \in Operations /\ o.dst \in Bitmaps /\ o.src \in Bitmaps
        /\ pc[t] = "idle" /\ owner[o.dst] = t /\ owner[o.src] = t
        /\ pc' = [pc EXCEPT ![t] = l]
        /\ op' = IF l = "idle" THEN op ELSE [op EXCEPT ![t] = o]
        /\ answer[t] = NULL /\ dead[t] = NULL
    <2> HIDE DEF l
    <2>1. pc[t] = "idle"
      BY <1>1 DEF Start
    <2>2. answer[t] = NULL /\ dead[t] = NULL
      BY <2>1 DEF IInv, ControlInv, Control
    <2> QED
      BY <1>1, <2>2 DEF Start, Operations
  <1>3. \/ l = "drop" /\ slot[o.dst] \in Wrappers /\ slot' = slot /\ heap' = heap
        \/ /\ l = "idle" /\ slot[o.dst] \in Containers
           /\ heap' = [heap EXCEPT ![slot[o.dst]] = {}]
           /\ slot' = [slot EXCEPT ![o.dst] = NULL]
    BY <1>1, <1>2 DEF IInv, TypeOK, StartClear, IsShared
  <1> HIDE DEF l
  <1>4. TypeOK'
    BY <1>1, <1>3, StartType DEF IInv, TypeOK
  <1>5. OwnInv'
    BY <1>1, <1>2 DEF IInv, TypeOK, OwnInv
  <1>6. ControlInv'
    <2> SUFFICES ASSUME NEW u \in Threads PROVE Control(u)'
      BY DEF ControlInv
    <2>1. CASE u = t
      <3>1. pc'[t] = l /\ answer'[t] = NULL /\ dead'[t] = NULL
        BY <1>1, <1>2 DEF IInv, TypeOK
      <3>2. l = "drop" => op'[t] = o /\ slot'[o.dst] \in Wrappers
        BY <1>2, <1>3 DEF IInv, TypeOK
      <3> QED
        BY <2>1, <1>1, <1>3, <3>1, <3>2 DEF Control, Writing
    <2>2. CASE u # t
      BY <2>2, <1>1, <1>2, <1>3, OtherThreads, TakeSeesOne DEF IInv, TypeOK
    <2> QED
      BY <2>1, <2>2
  <1>7. CountInv' /\ DeadInv' /\ LiveInv' /\ LeakInv' /\ ExclusiveInv'
    BY <1>1, <1>2, <1>3, FreePrivate, ReferencesUnchanged
  <1> QED
    BY <1>4, <1>5, <1>6, <1>7 DEF IInv

\* A copy empties the slot of its destination before it shares the source.
LEMMA StartCopyInv ==
  ASSUME IInv, NEW t \in Threads, NEW o, StartCopy(t, o)
  PROVE  IInv'
  <1> DEFINE l == IF IsShared(o.dst) THEN "drop"
                  ELSE IF slot[o.src] # NULL THEN "share" ELSE "idle"
  <1>1. /\ Start(t, o, l) /\ l \in PCs
        /\ o.kind \in {"copy", "or"} /\ o.dst # o.src
        /\ UNCHANGED <<owner, container, counter, answer, dead>>
    BY DEF StartCopy, PCs
  <1>2. /\ o \in Operations /\ o.dst \in Bitmaps /\ o.src \in Bitmaps
        /\ pc[t] = "idle" /\ owner[o.dst] = t /\ owner[o.src] = t
        /\ pc' = [pc EXCEPT ![t] = l]
        /\ op' = IF l = "idle" THEN op ELSE [op EXCEPT ![t] = o]
        /\ answer[t] = NULL /\ dead[t] = NULL
    <2> HIDE DEF l
    <2>1. pc[t] = "idle"
      BY <1>1 DEF Start
    <2>2. answer[t] = NULL /\ dead[t] = NULL
      BY <2>1 DEF IInv, ControlInv, Control
    <2> QED
      BY <1>1, <2>2 DEF Start, Operations
  <1>3. \/ l = "drop" /\ slot[o.dst] \in Wrappers /\ slot' = slot /\ heap' = heap
        \/ /\ l # "drop" /\ slot[o.dst] \in Containers
           /\ heap' = [heap EXCEPT ![slot[o.dst]] = {}]
           /\ slot' = [slot EXCEPT ![o.dst] = NULL]
        \/ l # "drop" /\ slot[o.dst] = NULL /\ slot' = slot /\ heap' = heap
    BY <1>1, <1>2, SharedContainerAssumption DEF IInv, TypeOK, StartCopy, IsShared
  <1>4. /\ l \in {"drop", "share", "idle"}
        /\ l = "share" => slot[o.src] # NULL
    OBVIOUS
  <1> HIDE DEF l
  <1>5. TypeOK'
    BY <1>1, <1>3, StartType DEF IInv, TypeOK
  <1>6. OwnInv'
    BY <1>1, <1>2 DEF IInv, TypeOK, OwnInv
  <1>7. ControlInv'
    <2> SUFFICES ASSUME NEW u \in Threads PROVE Control(u)'
      BY DEF ControlInv
    <2>1. CASE u = t
      <3>1. pc'[t] = l /\ answer'[t] = NULL /\ dead'[t] = NULL
        BY <1>1, <1>2 DEF IInv, TypeOK
      <3>2. l # "idle" => op'[t] = o
        BY <1>2 DEF IInv, TypeOK
      <3>3. l = "drop" => slot'[o.dst] \in Wrappers
        BY <1>3
      <3>4. l = "share" => slot'[o.dst] = NULL /\ slot'[o.src] # NULL
        BY <1>1, <1>2, <1>3, <1>4 DEF IInv, TypeOK
      <3> QED
        BY <2>1, <1>1, <1>4, <3>1, <3>2, <3>3, <3>4 DEF Control, Writing
    <2>2. CASE u # t
      BY <2>2, <1>1, <1>2, <1>3, OtherThreads, TakeSeesOne DEF IInv, TypeOK
    <2> QED
      BY <2>1, <2>2
  <1>8. CountInv' /\ DeadInv' /\ LiveInv' /\ LeakInv' /\ ExclusiveInv'
    BY <1>1, <1>2, <1>3, FreePrivate, ReferencesUnchanged
  <1> QED
    BY <1>5, <1>6, <1>7, <1>8 DEF IInv

\* croaring_refcount_dec, and the store of what replaces the reference.
LEMMA DropReferenceInv ==
  ASSUME IInv, NEW t \in Threads, DropReference(t)
  PROVE  IInv'
  <1> DEFINE b == op[t].dst
             w == slot[b]
             a == answer[t]
             l == IF counter[w] = 1 THEN "release" ELSE AfterDrop(op[t])
  <1>1. /\ pc[t] = "drop" /\ dead[t] = NULL
        /\ b \in Bitmaps /\ w \in Wrappers /\ owner[b] = t
        /\ a \in Containers \cup {NULL}
        /\ op[t].kind \in Writing => a # NULL /\ op[t].src = b
        /\ op[t].kind = "copy" => a = NULL /\ op[t].src # b
        /\ counter' = [counter EXCEPT ![w] = @ - 1]
        /\ slot' = [slot EXCEPT ![b] = a]
        /\ answer' = [answer EXCEPT ![t] = NULL]
        /\ dead' = IF counter[w] = 1 THEN [dead EXCEPT ![t] = w] ELSE dead
        /\ Goto(t, l)
        /\ UNCHANGED <<owner, heap, container>>
    BY Operands DEF IInv, TypeOK, OwnInv, ControlInv, Control, DropReference
  <1>2. /\ container[w] # NULL /\ counter[w] = Cardinality(Refs(w))
        /\ counter[w] > 0 /\ counter[w] \in Nat
        /\ counter[w] = 1 => \A d \in Bitmaps : slot[d] = w => d = b
    BY <1>1, UniqueReference DEF IInv, TypeOK
  <1>3. /\ w = slot[b] /\ a = answer[t] /\ b = op[t].dst
        /\ l \in {"release", "idle", "write", "share"}
        /\ l = "release" <=> counter[w] = 1
        /\ l = "write" => op[t].kind \in Writing
        /\ l = "share" => op[t].kind = "copy" /\ slot[op[t].src] # NULL
    BY DEF AfterDrop, Writing
  <1> HIDE DEF b, w, a, l
  <1>4. TypeOK'
    <2>1. l \in PCs
      BY <1>3 DEF PCs
    <2>2. /\ pc' \in [Threads -> PCs]
          /\ op' \in [Threads -> Operations \cup {NULL}]
          /\ \A u \in Threads : pc'[u] = "idle" <=> op'[u] = NULL
      BY <1>1, <2>1, GotoType DEF IInv
    <2>3. counter' \in [Wrappers -> Nat]
      BY <1>1, <1>2 DEF IInv, TypeOK
    <2> QED
      BY <1>1, <2>2, <2>3 DEF IInv, TypeOK
  <1>5. OwnInv'
    BY <1>1, <1>3 DEF IInv, TypeOK, OwnInv, Goto
  <1>6. ControlInv'
    <2> SUFFICES ASSUME NEW u \in Threads PROVE Control(u)'
      BY DEF ControlInv
    <2>1. CASE u = t
      <3>1. pc'[t] = l /\ answer'[t] = NULL /\ slot'[b] = a
        BY <1>1 DEF IInv, TypeOK, Goto
      <3>2. l # "idle" => op'[t] = op[t]
        BY <1>1 DEF Goto
      <3>3. IF l = "release" THEN dead'[t] # NULL ELSE dead'[t] = NULL
        BY <1>1, <1>3, SharedContainerAssumption DEF IInv, TypeOK
      <3>4. l = "share" => slot'[op[t].src] # NULL
        BY <1>1, <1>3 DEF IInv, TypeOK
      <3> QED
        BY <2>1, <1>1, <1>3, <3>1, <3>2, <3>3, <3>4, SharedContainerAssumption
        DEF Control, Writing
    <2>2. CASE u # t
      <3>1. pc[u] = "take" => counter'[slot[op[u].dst]] = 1
        <4> SUFFICES ASSUME pc[u] = "take" PROVE counter'[slot[op[u].dst]] = 1
          OBVIOUS
        <4>1. /\ op[u].dst \in Bitmaps /\ owner[op[u].dst] = u
              /\ counter[slot[op[u].dst]] = 1 /\ slot[op[u].dst] \in Wrappers
          BY Operands DEF IInv, OwnInv, ControlInv, Control
        <4>2. slot[op[u].dst] # w
          BY <1>1, <1>2, <2>2, <4>1
        <4> QED
          BY <1>1, <4>1, <4>2 DEF IInv, TypeOK
      <3>2. /\ pc'[u] = pc[u] /\ op'[u] = op[u] /\ answer'[u] = answer[u]
            /\ dead'[u] = dead[u]
            /\ \A d \in Bitmaps : owner[d] # t => slot'[d] = slot[d]
        BY <2>2, <1>1 DEF IInv, TypeOK, Goto
      <3> QED
        BY <2>2, <3>1, <3>2, OtherThreads
    <2> QED
      BY <2>1, <2>2
  <1>7. \A v \in Wrappers : Refs(v)' = IF v = w THEN Refs(w) \ {b} ELSE Refs(v)
    BY <1>1, <1>3, SharedContainerAssumption DEF IInv, TypeOK, Refs
  <1>8. Cardinality(Refs(w) \ {b}) = Cardinality(Refs(w)) - 1
    <2>1. b \in Refs(w)
      BY <1>1, <1>3 DEF Refs
    <2> QED
      BY <2>1, RefsFinite, FS_RemoveElement
  <1>9. CountInv'
    BY <1>1, <1>2, <1>7, <1>8 DEF IInv, TypeOK, CountInv
  <1>10. DeadInv'
    <2>1. \A u \in Threads : dead[u] # w
      BY <1>1, <1>3, SharedContainerAssumption DEF IInv, DeadInv, Refs
    <2>2. \A v \in Wrappers : v # w => Refs(v)' = Refs(v)
      BY <1>7
    <2>3. CASE counter[w] = 1
      <3>1. \A v \in Wrappers : v = w => Refs(v)' = {}
        BY <1>1, <1>2, <1>7, <2>3 DEF Refs
      <3>2. dead'[t] = w /\ \A u \in Threads : u # t => dead'[u] = dead[u]
        BY <1>1, <2>3 DEF IInv, TypeOK
      <3>3. ASSUME NEW u \in Threads, dead'[u] # NULL
            PROVE  container'[dead'[u]] # NULL /\ Refs(dead[u])'= {}
        <4>1. PICK v \in Wrappers : v = dead'[u]
          BY <1>4, <3>3 DEF TypeOK
        <4>2. Refs(dead[u])' = Refs(v)'
          BY <4>1 DEF Refs
        <4>3. CASE v = w
          BY <4>1, <4>2, <4>3, <1>1, <1>2, <3>1
        <4>4. CASE v # w
          <5>1. dead[u] = v
            BY <4>1, <4>4, <3>2
          <5>2. container[v] # NULL /\ Refs(v) = {}
            BY <5>1, SharedContainerAssumption DEF IInv, DeadInv
          <5> QED
            BY <1>1, <2>2, <4>1, <4>2, <4>4, <5>2
        <4> QED
          BY <4>3, <4>4
      <3>4. \A u, v \in Threads : dead'[u] # NULL /\ dead'[u] = dead'[v] => u = v
        BY <2>1, <3>2 DEF IInv, DeadInv
      <3>5. ASSUME NEW v \in Wrappers, container'[v] # NULL
            PROVE  Refs(v)' # {} \/ \E u \in Threads : dead'[u] = v
        <4>1. CASE v = w
          BY <4>1, <3>2
        <4>2. CASE v # w
          <5>1. Refs(v) # {} \/ \E u \in Threads : dead[u] = v
            BY <1>1, <3>5 DEF IInv, DeadInv
          <5>2. \A u \in Threads : dead[u] = v => dead'[u] = v
            BY <1>1, <3>2, SharedContainerAssumption
          <5> QED
            BY <2>2, <4>2, <5>1, <5>2
        <4> QED
          BY <4>1, <4>2
      <3> QED
        BY <3>3, <3>4, <3>5 DEF DeadInv
    <2>4. CASE counter[w] # 1
      <3>1. Refs(w) \ {b} # {}
        BY <1>2, <1>8, <2>4, FS_EmptySet
      <3>2. dead' = dead /\ container' = container
        BY <1>1, <2>4
      <3>3. ASSUME NEW u \in Threads, dead'[u] # NULL
            PROVE  container'[dead'[u]] # NULL /\ Refs(dead[u])' = {}
        <4>1. PICK v \in Wrappers : v = dead[u] /\ v # w
          BY <2>1, <3>2, <3>3 DEF IInv, TypeOK
        <4>2. Refs(dead[u])' = Refs(v)'
          BY <3>2, <4>1 DEF Refs
        <4>3. container[v] # NULL /\ Refs(v) = {}
          BY <4>1, SharedContainerAssumption DEF IInv, DeadInv
        <4> QED
          BY <2>2, <3>2, <4>1, <4>2, <4>3
      <3>4. \A v \in Wrappers :
              container'[v] # NULL => Refs(v)' # {} \/ \E u \in Threads : dead'[u] = v
        BY <1>7, <3>1, <3>2 DEF IInv, DeadInv
      <3> QED
        BY <3>2, <3>3, <3>4 DEF IInv, DeadInv
    <2> QED
      BY <2>3, <2>4
  <1>11. LiveInv'
    BY <1>1, <1>3, SharedContainerAssumption DEF IInv, TypeOK, LiveInv
  <1>12. ASSUME NEW d \in Containers, heap'[d] # {}
         PROVE  Held(d)'
    <2>1. Held(d)
      BY <1>1, <1>12 DEF IInv, LeakInv
    <2>2. \A x \in Bitmaps : slot[x] = d => slot'[x] = d
      BY <1>1, <1>3, SharedContainerAssumption DEF IInv, TypeOK
    <2>3. ASSUME NEW u \in Threads, answer[u] = d
          PROVE  Held(d)'
      <3>1. CASE u = t
        <4>1. slot'[b] = d
          BY <3>1, <2>3, <1>1, <1>3 DEF IInv, TypeOK
        <4> QED
          BY <1>1, <4>1 DEF Held
      <3>2. CASE u # t
        <4>1. answer'[u] = d
          BY <3>2, <2>3, <1>1 DEF IInv, TypeOK
        <4> QED
          BY <4>1 DEF Held
      <3> QED
        BY <3>1, <3>2
    <2> QED
      BY <1>1, <2>1, <2>2, <2>3 DEF Held
  <1>13. ExclusiveInv'
    BY <1>1, <1>3, SharedContainerAssumption DEF IInv, TypeOK, ExclusiveInv
  <1> QED
    BY <1>4, <1>5, <1>6, <1>9, <1>10, <1>11, <1>12, <1>13 DEF IInv, LeakInv

\* get_copy_of_container adds a reference, or a wrapper with two references.
LEMMA ShareContainerInv ==
  ASSUME IInv, NEW t \in Threads, get_copy_of_container(t)
  PROVE  IInv'
  <1> DEFINE d == op[t].dst
             s == op[t].src
             w == slot[s]
  <1>1. /\ pc[t] = "share" /\ answer[t] = NULL /\ dead[t] = NULL
        /\ d \in Bitmaps /\ s \in Bitmaps /\ owner[d] = t /\ owner[s] = t
        /\ slot[d] = NULL /\ w # NULL /\ s # d
        /\ pc' = [pc EXCEPT ![t] = "idle"] /\ op' = [op EXCEPT ![t] = NULL]
        /\ UNCHANGED <<owner, heap, answer, dead>>
    BY Operands DEF IInv, OwnInv, ControlInv, Control, get_copy_of_container, Goto
  <1>2. w \in Containers \cup Wrappers
    BY <1>1 DEF IInv, TypeOK
  <1>3. \/ /\ w \in Wrappers
           /\ counter' = [counter EXCEPT ![w] = @ + 1]
           /\ slot' = [slot EXCEPT ![d] = w]
           /\ container' = container
        \/ /\ w \notin Wrappers
           /\ \E n \in FreeWrappers :
                /\ container' = [container EXCEPT ![n] = w]
                /\ counter' = [counter EXCEPT ![n] = 2]
                /\ slot' = [slot EXCEPT ![d] = n, ![s] = n]
    BY DEF get_copy_of_container, IsShared
  <1>4. w = slot[s]
    OBVIOUS
  <1> HIDE DEF d, s, w
  <1>5. SUFFICES /\ TypeOK' /\ CountInv' /\ DeadInv' /\ LiveInv' /\ LeakInv'
                 /\ ExclusiveInv'
                 /\ \A u \in Threads :
                      u # t /\ pc[u] = "take" => counter'[slot[op[u].dst]] = 1
                 /\ \A a \in Bitmaps : owner[a] # t => slot'[a] = slot[a]
    <2>1. OwnInv'
      BY <1>1 DEF IInv, TypeOK, OwnInv
    <2>2. ASSUME NEW u \in Threads
          PROVE  Control(u)'
      <3>1. CASE u = t
        <4>1. pc'[t] = "idle" /\ answer'[t] = NULL /\ dead'[t] = NULL
          BY <1>1 DEF IInv, TypeOK
        <4> QED
          BY <3>1, <4>1 DEF Control
      <3>2. CASE u # t
        BY <3>2, <1>1, <1>5, OtherThreads DEF IInv, TypeOK
      <3> QED
        BY <3>1, <3>2
    <2> QED
      BY <1>5, <2>1, <2>2 DEF IInv, ControlInv
  <1>6. ASSUME NEW u \in Threads, pc[u] = "take"
        PROVE  /\ op[u].dst \in Bitmaps /\ owner[op[u].dst] = u
               /\ slot[op[u].dst] \in Wrappers /\ counter[slot[op[u].dst]] = 1
    BY <1>6, Operands DEF IInv, OwnInv, ControlInv, Control
  \* One more reference to an existing wrapper.
  <1>7. CASE /\ w \in Wrappers
             /\ counter' = [counter EXCEPT ![w] = @ + 1]
             /\ slot' = [slot EXCEPT ![d] = w]
             /\ container' = container
    <2>1. /\ container[w] # NULL /\ counter[w] = Cardinality(Refs(w))
          /\ counter[w] = 1 => \A a \in Bitmaps : slot[a] = w => a = s
      BY <1>1, <1>4, <1>7, UniqueReference DEF IInv
    <2>2. TypeOK'
      BY <1>1, <1>7 DEF IInv, TypeOK, PCs
    <2>3. ASSUME NEW u \in Threads, u # t, pc[u] = "take"
          PROVE  counter'[slot[op[u].dst]] = 1
      <3>1. slot[op[u].dst] # w
        BY <1>1, <1>6, <2>1, <2>3
      <3> QED
        BY <1>6, <1>7, <2>3, <3>1 DEF IInv, TypeOK
    <2>4. \A a \in Bitmaps : owner[a] # t => slot'[a] = slot[a]
      BY <1>1, <1>7 DEF IInv, TypeOK
    <2>5. \A v \in Wrappers : Refs(v)' = IF v = w THEN Refs(w) \cup {d} ELSE Refs(v)
      BY <1>1, <1>7, SharedContainerAssumption DEF IInv, TypeOK, Refs
    <2>6. Cardinality(Refs(w) \cup {d}) = Cardinality(Refs(w)) + 1
      <3>1. d \notin Refs(w)
        BY <1>1, <1>7, SharedContainerAssumption DEF Refs
      <3> QED
        BY <3>1, RefsFinite, FS_AddElement
    <2>7. CountInv'
      BY <1>7, <2>1, <2>5, <2>6 DEF IInv, TypeOK, CountInv
    <2>8. DeadInv'
      <3>1. \A u \in Threads : dead[u] # w
        BY <1>1, <1>4, <1>7, SharedContainerAssumption DEF IInv, DeadInv, Refs
      <3>2. \A v \in Wrappers : Refs(v) \subseteq Refs(v)'
        BY <2>5
      <3>3. ASSUME NEW u \in Threads, dead'[u] # NULL
            PROVE  container'[dead'[u]] # NULL /\ Refs(dead[u])' = {}
        <4>1. PICK v \in Wrappers : v = dead[u] /\ v # w
          BY <1>1, <3>1, <3>3 DEF IInv, TypeOK
        <4>2. Refs(dead[u])' = Refs(v)'
          BY <1>1, <4>1 DEF Refs
        <4>3. container[v] # NULL /\ Refs(v) = {}
          BY <4>1, SharedContainerAssumption DEF IInv, DeadInv
        <4> QED
          BY <1>1, <1>7, <2>5, <4>1, <4>2, <4>3
      <3> QED
        BY <1>1, <1>7, <3>2, <3>3 DEF IInv, DeadInv
    <2>9. LiveInv'
      BY <1>1, <1>7, SharedContainerAssumption DEF IInv, TypeOK, LiveInv
    <2>10. ASSUME NEW c \in Containers, heap'[c] # {}
           PROVE  Held(c)'
      <3>1. Held(c)
        BY <1>1, <2>10 DEF IInv, LeakInv
      <3>2. \A a \in Bitmaps : slot[a] = c => slot'[a] = c
        BY <1>1, <1>7, SharedContainerAssumption DEF IInv, TypeOK
      <3> QED
        BY <1>1, <1>7, <3>1, <3>2 DEF Held
    <2>11. ExclusiveInv'
      BY <1>1, <1>7, SharedContainerAssumption DEF IInv, TypeOK, ExclusiveInv
    <2> QED
      BY <2>2, <2>3, <2>4, <2>7, <2>8, <2>9, <2>10, <2>11 DEF LeakInv
  \* A new wrapper, referenced by source and destination.
  <1>8. ASSUME w \notin Wrappers, NEW n \in FreeWrappers,
               container' = [container EXCEPT ![n] = w],
               counter' = [counter EXCEPT ![n] = 2],
               slot' = [slot EXCEPT ![d] = n, ![s] = n]
        PROVE  /\ TypeOK' /\ CountInv' /\ DeadInv' /\ LiveInv' /\ LeakInv'
               /\ ExclusiveInv'
               /\ \A u \in Threads :
                    u # t /\ pc[u] = "take" => counter'[slot[op[u].dst]] = 1
               /\ \A a \in Bitmaps : owner[a] # t => slot'[a] = slot[a]
    <2>1. /\ w \in Containers /\ n \in Wrappers /\ container[n] = NULL
          /\ Refs(n) = {} /\ \A a \in Bitmaps : slot[a] # n
      BY <1>2, <1>8 DEF FreeWrappers, IInv, CountInv, Refs
    <2>2. TypeOK'
      BY <1>1, <1>8, <2>1 DEF IInv, TypeOK, PCs
    <2>3. ASSUME NEW u \in Threads, u # t, pc[u] = "take"
          PROVE  counter'[slot[op[u].dst]] = 1
      <3>1. slot[op[u].dst] # n
        BY <1>6, <2>1, <2>3
      <3> QED
        BY <1>6, <1>8, <2>3, <3>1 DEF IInv, TypeOK
    <2>4. \A a \in Bitmaps : owner[a] # t => slot'[a] = slot[a]
      BY <1>1, <1>8 DEF IInv, TypeOK
    <2>5. \A v \in Wrappers : Refs(v)' = IF v = n THEN {d, s} ELSE Refs(v)
      BY <1>1, <1>4, <1>8, <2>1, SharedContainerAssumption DEF IInv, TypeOK, Refs
    <2>6. Cardinality({d, s}) = 2
      <3>1. IsFiniteSet({s}) /\ Cardinality({s}) = 1
        BY FS_Singleton
      <3>2. d \notin {s} /\ {s} \cup {d} = {d, s}
        BY <1>1
      <3>3. Cardinality({s} \cup {d}) = Cardinality({s}) + 1
        BY <3>1, <3>2, FS_AddElement
      <3> QED
        BY <3>1, <3>2, <3>3
    <2>7. CountInv'
      <3> SUFFICES ASSUME NEW v \in Wrappers
                   PROVE  /\ container'[v] # NULL => counter'[v] = Cardinality(Refs(v)')
                          /\ container'[v] = NULL => Refs(v)' = {}
        BY DEF CountInv
      <3>1. CASE v = n
        <4>1. container'[v] = w /\ counter'[v] = 2 /\ Refs(v)' = {d, s}
          BY <1>8, <2>1, <2>5, <3>1 DEF IInv, TypeOK
        <4> QED
          BY <1>1, <2>6, <4>1
      <3>2. CASE v # n
        <4>1. /\ container'[v] = container[v] /\ counter'[v] = counter[v]
              /\ Refs(v)' = Refs(v)
          BY <1>8, <2>1, <2>5, <3>2 DEF IInv, TypeOK
        <4> QED
          BY <4>1 DEF IInv, CountInv
      <3> QED
        BY <3>1, <3>2
    <2>8. DeadInv'
      <3>1. \A u \in Threads : dead[u] # n
        BY <2>1, SharedContainerAssumption DEF IInv, TypeOK, DeadInv
      <3>2. ASSUME NEW u \in Threads, dead'[u] # NULL
            PROVE  container'[dead'[u]] # NULL /\ Refs(dead[u])' = {}
        <4>1. PICK v \in Wrappers : v = dead[u] /\ v # n
          BY <1>1, <3>1, <3>2 DEF IInv, TypeOK
        <4>2. Refs(dead[u])' = Refs(v)'
          BY <1>1, <4>1 DEF Refs
        <4>3. container[v] # NULL /\ Refs(v) = {}
          BY <4>1, SharedContainerAssumption DEF IInv, DeadInv
        <4>4. container'[v] = container[v] /\ Refs(v)' = Refs(v)
          BY <1>8, <2>5, <4>1 DEF IInv, TypeOK
        <4> QED
          BY <1>1, <4>1, <4>2, <4>3, <4>4
      <3>3. \A v \in Wrappers :
              container'[v] # NULL => Refs(v)' # {} \/ \E u \in Threads : dead'[u] = v
        BY <1>1, <1>8, <2>5 DEF IInv, TypeOK, DeadInv
      <3> QED
        BY <1>1, <3>2, <3>3 DEF IInv, DeadInv
    <2>9. LiveInv'
      BY <1>1, <1>4, <1>8, <2>1, SharedContainerAssumption DEF IInv, TypeOK, LiveInv
    <2>10. ASSUME NEW c \in Containers, heap'[c] # {}
           PROVE  Held(c)'
      <3>1. CASE c = w
        <4>1. container'[n] = c
          BY <1>8, <2>1, <3>1 DEF IInv, TypeOK
        <4> QED
          BY <2>1, <4>1 DEF Held
      <3>2. CASE c # w
        <4>1. Held(c)
          BY <1>1, <2>10 DEF IInv, LeakInv
        <4>2. \A a \in Bitmaps : slot[a] = c => slot'[a] = c
          BY <1>1, <1>4, <1>8, <3>2, SharedContainerAssumption DEF IInv, TypeOK
        <4>3. \A v \in Wrappers : container[v] = c => container'[v] = c
          BY <1>8, <2>1, SharedContainerAssumption DEF IInv, TypeOK
        <4> QED
          BY <1>1, <4>1, <4>2, <4>3 DEF Held
      <3> QED
        BY <3>1, <3>2
    <2>11. ExclusiveInv'
      BY <1>1, <1>4, <1>8, <2>1, SharedContainerAssumption
      DEF IInv, TypeOK, ExclusiveInv
    <2> QED
      BY <2>2, <2>3, <2>4, <2>7, <2>8, <2>9, <2>10, <2>11 DEF LeakInv
  <1> QED
    BY <1>3, <1>7, <1>8
-----------------------------------------------------------------------------
(* The theorems.                                                           *)

\* Nothing is allocated at the start.
LEMMA InitInv == Init => IInv
  <1> SUFFICES ASSUME Init PROVE IInv
    OBVIOUS
  <1>1. TypeOK
    BY SharedContainerAssumption DEF Init, TypeOK, PCs
  <1>2. OwnInv /\ ControlInv
    BY DEF Init, OwnInv, ControlInv, Control
  <1>3. \A w \in Wrappers : Refs(w) = {}
    BY SharedContainerAssumption DEF Init, Refs
  <1>4. CountInv /\ DeadInv
    BY <1>3 DEF Init, CountInv, DeadInv
  <1>5. LiveInv /\ LeakInv /\ ExclusiveInv
    BY SharedContainerAssumption DEF Init, LiveInv, LeakInv, ExclusiveInv
  <1> QED
    BY <1>1, <1>2, <1>4, <1>5 DEF IInv

\* Every step of a thread preserves the invariant.
LEMMA NextInv == IInv /\ [Next]_vars => IInv'
  <1> SUFFICES ASSUME IInv, [Next]_vars PROVE IInv'
    OBVIOUS
  <1>1. CASE UNCHANGED vars
    <2>1. CountInv' /\ DeadInv' /\ LiveInv' /\ LeakInv' /\ ExclusiveInv'
      BY <1>1, ReferencesUnchanged DEF vars
    <2>2. TypeOK' /\ OwnInv' /\ ControlInv'
      BY <1>1 DEF vars, IInv, TypeOK, OwnInv, ControlInv, Control
    <2> QED
      BY <2>1, <2>2 DEF IInv
  <1>2. ASSUME NEW t \in Threads, Step(t)
        PROVE  IInv'
    BY <1>2, TakeContainerInv, CloneContainerInv, WriteContainerInv,
       ComputeContainerInv, DropReferenceInv, ReleaseSharedInv,
       ShareContainerInv, FinishReadInv DEF Step
  <1>3. ASSUME NEW t \in Threads, Call(t)
        PROVE  IInv'
    <2>1. ASSUME NEW b \in Bitmaps, NEW x \in Elements,
                 \/ AddNewKey(t, b, x)
                 \/ StartWrite(t, Unary("add", b, {x}))
                 \/ StartWrite(t, Unary("remove", b, {x}))
          PROVE  IInv'
      BY <2>1, AddNewKeyInv, StartWriteInv DEF Unary
    <2>2. ASSUME NEW b \in Bitmaps,
                 \/ StartWrite(t, Unary("optimize", b, {}))
                 \/ StartClear(t, Unary("clear", b, {}))
                 \/ StartRead(t, Unary("read", b, {}))
          PROVE  IInv'
      BY <2>2, StartWriteInv, StartClearInv, StartReadInv DEF Unary
    <2>3. ASSUME NEW b1 \in Bitmaps, NEW b2 \in Bitmaps,
                 \/ StartInplace(t, Binary("or", b1, b2))
                 \/ StartInplace(t, Binary("andnot", b1, b2))
                 \/ StartCopy(t, Binary("or", b1, b2))
                 \/ StartCopy(t, Binary("copy", b1, b2))
          PROVE  IInv'
      BY <2>3, StartInplaceInv, StartCopyInv
    <2> QED
      BY <1>3, <2>1, <2>2, <2>3 DEF Call
  <1> QED
    BY <1>1, <1>2, <1>3, HandOverInv DEF Next

\* The inductive invariant holds in every reachable state.
THEOREM InductiveInvariant == Spec => []IInv
  BY InitInv, NextInv, PTL DEF Spec

\* Every variable keeps its type, whatever the threads do.
THEOREM TypeCorrect == Spec => []TypeOK
  <1>1. IInv => TypeOK
    BY DEF IInv
  <1> QED
    BY <1>1, InductiveInvariant, PTL

\* croaring_refcount_inc and _dec keep the counter of an allocated wrapper
\* equal to the number of slots that refer to it.
THEOREM RefcountCorrect == Spec => []RefcountExact
  <1>1. IInv => RefcountExact
    BY DEF IInv, CountInv, RefcountExact
  <1> QED
    BY <1>1, InductiveInvariant, PTL

\* shared_container_free never releases what a slot, a wrapper or a thread
\* still reaches.
THEOREM MemorySafe == Spec => []NoUseAfterFree
  <1>1. IInv => NoUseAfterFree
    <2> SUFFICES ASSUME IInv PROVE NoUseAfterFree
      OBVIOUS
    <2>1. ASSUME NEW b \in Bitmaps
          PROVE  /\ IsShared(b) => container[slot[b]] # NULL
                 /\ slot[b] # NULL => Content(b) # {}
      BY <2>1, ContentType, UniqueReference DEF IInv, IsShared
    <2>2. \A w \in Wrappers : container[w] # NULL => heap[container[w]] # {}
      BY DEF IInv, LiveInv
    <2>3. \A t \in Threads : /\ answer[t] # NULL => heap[answer[t]] # {}
                             /\ pc[t] = "release" => container[dead[t]] # NULL
      BY DEF IInv, LiveInv, ControlInv, Control, DeadInv
    <2> QED
      BY <2>1, <2>2, <2>3 DEF NoUseAfterFree
  <1> QED
    BY <1>1, InductiveInvariant, PTL

\* A container has exactly one holder while it is allocated: it is neither
\* freed twice, nor written through two slots, nor leaked.
THEOREM SingleOwner == Spec => []OneHolder
  <1>1. IInv => OneHolder
    <2> SUFFICES ASSUME IInv, NEW c \in Containers
                 PROVE  /\ heap[c] # {} <=> Holders(c) # {}
                        /\ \A h, k \in Holders(c) : h = k
      BY DEF OneHolder
    <2>1. heap[c] # {} => Held(c)
      BY DEF IInv, LeakInv
    <2>2. Held(c) => heap[c] # {}
      BY SharedContainerAssumption DEF IInv, LiveInv, Held
    <2>3. Held(c) <=> Holders(c) # {}
      <3>1. ASSUME NEW b \in Bitmaps, slot[b] = c
            PROVE  Holders(c) # {}
        <4>1. <<"slot", b>> \in Holders(c)
          BY <3>1 DEF Holders
        <4> QED
          BY <4>1
      <3>2. ASSUME NEW w \in Wrappers, container[w] = c
            PROVE  Holders(c) # {}
        <4>1. <<"wrapper", w>> \in Holders(c)
          BY <3>2 DEF Holders
        <4> QED
          BY <4>1
      <3>3. ASSUME NEW t \in Threads, answer[t] = c
            PROVE  Holders(c) # {}
        <4>1. <<"thread", t>> \in Holders(c)
          BY <3>3 DEF Holders
        <4> QED
          BY <4>1
      <3>4. ASSUME NEW h \in Holders(c)
            PROVE  Held(c)
        BY DEF Held, Holders
      <3> QED
        BY <3>1, <3>2, <3>3, <3>4 DEF Held
    <2>4. ASSUME NEW h \in Holders(c), NEW k \in Holders(c)
          PROVE  h = k
      BY SharedContainerAssumption DEF IInv, ExclusiveInv, Holders
    <2> QED
      BY <2>1, <2>2, <2>3, <2>4
  <1> QED
    BY <1>1, InductiveInvariant, PTL

\* A wrapper is never lost: some slot refers to it or a thread is about to
\* release it.
THEOREM WrappersKept == Spec => []NoWrapperLeak
  <1>1. IInv => NoWrapperLeak
    BY DEF IInv, DeadInv, NoWrapperLeak
  <1> QED
    BY <1>1, InductiveInvariant, PTL

\* A thread writes a private container of its own bitmap, or the container of
\* a wrapper that nobody refers to any more.
LEMMA WritesOwn ==
  ASSUME IInv, NEW t \in Threads, NEW c \in Writes(t)
  PROVE  \/ \E b \in Bitmaps : owner[b] = t /\ slot[b] = c /\ c \in Containers
         \/ dead[t] \in Wrappers /\ c = container[dead[t]]
  <1>1. CASE pc[t] = "write"
    <2>1. op[t].dst \in Bitmaps /\ owner[op[t].dst] = t /\ slot[op[t].dst] \in Containers
      BY <1>1, Operands DEF IInv, OwnInv, ControlInv, Control
    <2>2. c = slot[op[t].dst]
      BY <1>1, <2>1, SharedContainerAssumption DEF Writes, Unwrap, IsShared
    <2> QED
      BY <2>1, <2>2
  <1>2. CASE pc[t] = "release"
    <2>1. dead[t] \in Wrappers
      BY <1>2 DEF IInv, TypeOK, ControlInv, Control
    <2>2. c = container[dead[t]]
      BY <1>2 DEF Writes
    <2> QED
      BY <2>1, <2>2
  <1>3. CASE pc[t] \notin {"write", "release"}
    <2>1. pc[t] \notin {"write", "shrink", "release"}
      BY <1>3 DEF IInv, ControlInv, Control
    <2> QED
      BY <2>1 DEF Writes
  <1> QED
    BY <1>1, <1>2, <1>3

\* A thread reads behind the slots of its own bitmaps.
LEMMA ReadsOwn ==
  ASSUME IInv, NEW t \in Threads, NEW c \in Reads(t)
  PROVE  \E b \in Bitmaps : owner[b] = t /\ slot[b] # NULL /\ c = Unwrap(b)
  <1>1. pc[t] \in {"clone", "read", "compute", "write"}
    BY DEF Reads
  <1>2. pc[t] # "idle"
    BY <1>1
  <1>3. /\ op[t].dst \in Bitmaps /\ owner[op[t].dst] = t
        /\ op[t].src \in Bitmaps /\ owner[op[t].src] = t
    BY <1>2, Operands DEF IInv, OwnInv
  <1>4. /\ pc[t] \in {"clone", "read", "compute"} => slot[op[t].dst] # NULL
        /\ pc[t] \in {"compute", "write"} => slot[op[t].src] # NULL
    BY SharedContainerAssumption DEF IInv, ControlInv, Control
  <1>5. CASE pc[t] \in {"clone", "read"}
    <2>1. c = Unwrap(op[t].dst)
      BY <1>5 DEF Reads
    <2> QED
      BY <1>3, <1>4, <1>5, <2>1
  <1>6. CASE pc[t] = "compute"
    <2>1. c = Unwrap(op[t].dst) \/ c = Unwrap(op[t].src)
      BY <1>6 DEF Reads
    <2> QED
      BY <1>3, <1>4, <1>6, <2>1
  <1>7. CASE pc[t] = "write"
    <2>1. c = Unwrap(op[t].src)
      BY <1>7 DEF Reads
    <2> QED
      BY <1>3, <1>4, <1>7, <2>1
  <1> QED
    BY <1>1, <1>5, <1>6, <1>7

\* Copies of a bitmap can be used by different threads at the same time: no
\* access to a container races with a write or a release by another thread.
THEOREM CopiesAreThreadSafe == Spec => []NoDataRace
  <1>1. IInv => NoDataRace
    <2> SUFFICES ASSUME IInv, NEW t \in Threads, NEW u \in Threads, t # u,
                        NEW c \in Writes(t), c \in Reads(u) \cup Writes(u)
                 PROVE  FALSE
      BY DEF NoDataRace
    <2>1. CASE c \in Reads(u)
      <3>1. PICK a \in Bitmaps : owner[a] = u /\ slot[a] # NULL /\ c = Unwrap(a)
        BY <2>1, ReadsOwn
      <3>2. CASE slot[a] \in Wrappers
        <4>1. /\ c = container[slot[a]] /\ c # NULL
              /\ Refs(slot[a]) # {}
          BY <3>1, <3>2, UniqueReference DEF IInv, Unwrap, IsShared, Refs
        <4> QED
          BY <3>2, <4>1, WritesOwn, SharedContainerAssumption
          DEF IInv, TypeOK, ExclusiveInv, DeadInv
      <3>3. CASE slot[a] \in Containers
        <4>1. c = slot[a]
          BY <3>1, <3>3, SharedContainerAssumption DEF Unwrap, IsShared
        <4> QED
          BY <3>1, <3>3, <4>1, WritesOwn DEF IInv, TypeOK, ExclusiveInv
      <3> QED
        BY <3>1, <3>2, <3>3 DEF IInv, TypeOK
    <2>2. CASE c \in Writes(u)
      <3>1. \A v \in Threads :
              dead[v] \in Wrappers => dead[v] # NULL /\ container[dead[v]] # NULL
        BY SharedContainerAssumption DEF IInv, DeadInv
      <3>2. \/ \E b \in Bitmaps : owner[b] = t /\ slot[b] = c /\ c \in Containers
            \/ dead[t] \in Wrappers /\ c = container[dead[t]]
        BY WritesOwn
      <3>3. \/ \E b \in Bitmaps : owner[b] = u /\ slot[b] = c /\ c \in Containers
            \/ dead[u] \in Wrappers /\ c = container[dead[u]]
        BY <2>2, WritesOwn
      <3> QED
        BY <3>1, <3>2, <3>3 DEF IInv, TypeOK, ExclusiveInv, DeadInv
    <2> QED
      BY <2>1, <2>2
  <1> QED
    BY <1>1, InductiveInvariant, PTL

-----------------------------------------------------------------------------
(* Copy-on-write is invisible: SharedContainer implements                  *)
(* IndependentBitmaps.  The linearization point of a call is the step that *)
(* stores what the call leaves behind: the write into a private container, *)
(* or the drop of the reference to the shared one.  IInv is what makes the *)
(* other steps stutter; AnswerInv says that the container a thread has     *)
(* built still holds the result of its operation when it is stored.        *)

\* What thread t is about to store in the slot of its destination.
Pending(t) == IF answer[t] = NULL THEN {} ELSE heap[answer[t]]

\* A thread about to drop its reference holds a copy of the container, or the
\* result of its operation.
Answers(t) ==
  /\ pc[t] = "share" => op[t].kind \in {"or", "copy"}
  /\ pc[t] = "drop" =>
       /\ op[t].kind \in Writing \cup {"or", "andnot", "copy", "clear"}
       /\ op[t].kind \in Writing => Pending(t) = Content(op[t].dst)
       /\ op[t].kind \in {"or", "andnot", "clear"} =>
            Pending(t) = Apply(op[t], Content(op[t].dst), Content(op[t].src))

AnswerInv == \A t \in Threads : Answers(t)

RInv == IInv /\ AnswerInv

\* Thread t has emptied bitmap b and not yet shared the source with it.
Overwriting(t, b) == /\ pc[t] \in {"release", "share"}
                     /\ op[t].kind = "copy"
                     /\ op[t].dst = b

\* VisibleContent, with the only thread that can be overwriting b named.
Value(b) == IF Overwriting(owner[b], b) THEN Content(op[owner[b]].src)
            ELSE Content(b)
-----------------------------------------------------------------------------
(* Facts the steps share.                                                  *)

\* The thread that overwrites a bitmap owns it.
LEMMA VisibleValue == IInv => \A b \in Bitmaps : VisibleContent(b) = Value(b)
  <1> SUFFICES ASSUME IInv, NEW b \in Bitmaps
               PROVE  VisibleContent(b) = Value(b)
    OBVIOUS
  <1>1. ASSUME NEW t \in Threads, Overwriting(t, b)
        PROVE  t = owner[b]
    BY <1>1 DEF IInv, OwnInv, Overwriting
  <1>2. owner[b] \in Threads
    BY DEF IInv, TypeOK
  <1> DEFINE overwriting == { t \in Threads : Overwriting(t, b) }
  <1>3. VisibleContent(b) = IF overwriting = {} THEN Content(b)
                            ELSE Content(op[CHOOSE t \in overwriting : TRUE].src)
    BY DEF VisibleContent, Overwriting
  <1>4. CASE Overwriting(owner[b], b)
    <2>1. overwriting = {owner[b]}
      BY <1>1, <1>2, <1>4
    <2>2. (CHOOSE t \in overwriting : TRUE) = owner[b]
      BY <2>1
    <2> QED
      BY <1>3, <1>4, <2>1, <2>2 DEF Value
  <1>5. CASE ~Overwriting(owner[b], b)
    <2>1. overwriting = {}
      BY <1>1, <1>5
    <2> QED
      BY <1>3, <1>5, <2>1 DEF Value
  <1> QED
    BY <1>4, <1>5

\* The two modules speak of the same operations.
LEMMA SameOperations ==
  /\ Abstract!Operations = Operations
  /\ \A o, d, s : Abstract!Apply(o, d, s) = Apply(o, d, s)
  BY DEF Abstract!Operations, Operations, Abstract!Kinds, Kinds,
         Abstract!Apply, Apply

\* A step that no bitmap shows is a stuttering step.
LEMMA Stutters ==
  ASSUME IInv, IInv', owner' = owner, \A b \in Bitmaps : Value(b)' = Value(b)
  PROVE  UNCHANGED <<[b \in Bitmaps |-> VisibleContent(b)], owner>>
  <1>1. \A b \in Bitmaps : VisibleContent(b) = Value(b)
    BY VisibleValue
  <1>2. IInv' => (\A b \in Bitmaps : VisibleContent(b) = Value(b))'
    BY VisibleValue, PTL
  <1> QED
    BY <1>1, <1>2

\* A step that stores the result of operation o is that operation.
LEMMA Operates ==
  ASSUME IInv, IInv', NEW t \in Threads, NEW o \in Operations,
         owner[o.dst] = t, owner[o.src] = t, owner' = owner,
         Value(o.dst)' = Apply(o, Value(o.dst), Value(o.src)),
         \A b \in Bitmaps : b # o.dst => Value(b)' = Value(b)
  PROVE  Abstract!Next
  <1>1. \A b \in Bitmaps : VisibleContent(b) = Value(b)
    BY VisibleValue
  <1>2. IInv' => (\A b \in Bitmaps : VisibleContent(b) = Value(b))'
    BY VisibleValue, PTL
  <1>3. o.dst \in Bitmaps /\ o.src \in Bitmaps
    BY DEF Operations
  <1> DEFINE value == [b \in Bitmaps |-> VisibleContent(b)]
  <1>4. value' = [value EXCEPT ![o.dst] = Abstract!Apply(o, @, value[o.src])]
    <2>1. \A b \in Bitmaps : value'[b] = Value(b)' /\ value[b] = Value(b)
      BY <1>1, <1>2
    <2>2. value'[o.dst] = Abstract!Apply(o, value[o.dst], value[o.src])
      BY <1>3, <2>1, SameOperations
    <2> QED
      BY <2>1, <2>2
  <1>5. Abstract!Operate(t, o)
    BY <1>4 DEF Abstract!Operate
  <1> QED
    BY <1>5, SameOperations DEF Abstract!Next

\* The content behind a slot, by what the slot holds.
LEMMA ContentBySlot ==
  TypeOK => \A b \in Bitmaps :
    /\ slot[b] = NULL => Content(b) = {}
    /\ slot[b] \in Containers => Content(b) = heap[slot[b]]
    /\ slot[b] \in Wrappers => Content(b) = heap[container[slot[b]]]
    /\ slot[b] \in Containers \cup Wrappers \cup {NULL}
  BY SharedContainerAssumption DEF TypeOK, Content, Unwrap, IsShared

\* The same fact about the next state.
LEMMA NextContentBySlot ==
  TypeOK' => \A b \in Bitmaps :
    /\ slot'[b] = NULL => Content(b)' = {}
    /\ slot'[b] \in Containers => Content(b)' = heap'[slot'[b]]
    /\ slot'[b] \in Wrappers => Content(b)' = heap'[container'[slot'[b]]]
  BY SharedContainerAssumption DEF TypeOK, Content, Unwrap, IsShared

\* A step of thread t that leaves the content of the bitmaps of other threads
\* alone, and what these threads have built, is visible in its own bitmaps only.
LEMMA OtherBitmaps ==
  ASSUME IInv, NEW t \in Threads, owner' = owner,
         \A u \in Threads \ {t} :
           /\ pc'[u] = pc[u] /\ op'[u] = op[u] /\ answer'[u] = answer[u]
           /\ answer[u] # NULL => heap'[answer[u]] = heap[answer[u]],
         \A b \in Bitmaps : owner[b] # t => Content(b)' = Content(b)
  PROVE  /\ \A b \in Bitmaps : owner[b] # t => Value(b)' = Value(b)
         /\ AnswerInv => \A u \in Threads \ {t} : Answers(u)'
  <1>1. ASSUME NEW b \in Bitmaps, owner[b] # t
        PROVE  Value(b)' = Value(b)
    <2> DEFINE u == owner[b]
    <2>1. u \in Threads \ {t}
      BY <1>1 DEF IInv, TypeOK
    <2>2. Overwriting(u, b) => op[u].src \in Bitmaps /\ owner[op[u].src] = u
      BY <2>1, Operands DEF IInv, OwnInv, Overwriting
    <2> QED
      BY <1>1, <2>1, <2>2 DEF Value, Overwriting
  <1>2. ASSUME NEW u \in Threads \ {t}, Answers(u)
        PROVE  Answers(u)'
    <2>1. CASE pc[u] = "drop"
      <3>1. /\ op[u].dst \in Bitmaps /\ owner[op[u].dst] = u
            /\ op[u].src \in Bitmaps /\ owner[op[u].src] = u
        BY <2>1, Operands DEF IInv, OwnInv
      <3>2. /\ Content(op[u].dst)' = Content(op[u].dst)
            /\ Content(op[u].src)' = Content(op[u].src)
            /\ Pending(u)' = Pending(u)
        BY <3>1 DEF Pending
      <3> QED
        BY <1>2, <2>1, <3>2 DEF Answers, Apply
    <2>2. CASE pc[u] # "drop"
      BY <1>2, <2>2 DEF Answers
    <2> QED
      BY <2>1, <2>2
  <1> QED
    BY <1>1, <1>2 DEF AnswerInv

-----------------------------------------------------------------------------
(* The actions.                                                            *)

\* Every bitmap keeps its content or one operation is applied.
AbstractStep ==
  Abstract!Next \/ UNCHANGED <<[b \in Bitmaps |-> VisibleContent(b)], owner>>

\* A step of thread t that touches no container, outside of the overwriting of
\* a bitmap.
LEMMA MovesOn ==
  ASSUME RInv, IInv', NEW t \in Threads,
         UNCHANGED <<slot, owner, heap, container, answer>>,
         \A u \in Threads \ {t} : pc'[u] = pc[u] /\ op'[u] = op[u],
         {pc[t], pc'[t]} \cap {"release", "share"} = {},
         Answers(t)'
  PROVE  AnswerInv' /\ AbstractStep
  <1>1. \A b : Content(b)' = Content(b)
    BY DEF Content, Unwrap, IsShared
  <1>2. /\ \A b \in Bitmaps : owner[b] # t => Value(b)' = Value(b)
        /\ \A u \in Threads \ {t} : Answers(u)'
    BY <1>1, OtherBitmaps DEF RInv
  <1>3. \A b \in Bitmaps : owner[b] = t => Value(b)' = Value(b)
    BY <1>1 DEF Value, Overwriting
  <1>4. AnswerInv'
    BY <1>2 DEF AnswerInv
  <1> QED
    BY <1>2, <1>3, <1>4, Stutters DEF RInv, AbstractStep

\* A thread inside none of the steps that Answers speaks of.
LEMMA NoAnswer ==
  ASSUME NEW t \in Threads, pc'[t] \notin {"drop", "share"}
  PROVE  Answers(t)'
  BY DEF Answers

\* The first step of a write, and of an operation in place with a second
\* bitmap.
LEMMA StartWriteRefines ==
  ASSUME RInv, IInv', NEW t \in Threads, NEW o,
         StartWrite(t, o) \/ StartInplace(t, o)
  PROVE  AnswerInv' /\ AbstractStep
  <1>1. /\ UNCHANGED <<slot, owner, heap, container, answer>>
        /\ \A u \in Threads \ {t} : pc'[u] = pc[u] /\ op'[u] = op[u]
        /\ pc[t] = "idle" /\ pc'[t] \in {"write", "take", "clone", "compute"}
    BY DEF RInv, IInv, TypeOK, StartWrite, StartInplace, Start
  <1> QED
    BY <1>1, NoAnswer, MovesOn

\* A query.
LEMMA ReadRefines ==
  ASSUME RInv, IInv', NEW t \in Threads, NEW o, StartRead(t, o) \/ FinishRead(t)
  PROVE  AnswerInv' /\ AbstractStep
  <1>1. /\ UNCHANGED <<slot, owner, heap, container, answer>>
        /\ \A u \in Threads \ {t} : pc'[u] = pc[u] /\ op'[u] = op[u]
        /\ pc[t] \in {"idle", "read"} /\ pc'[t] \in {"idle", "read"}
    BY DEF RInv, IInv, TypeOK, StartRead, FinishRead, Start, Goto
  <1> QED
    BY <1>1, NoAnswer, MovesOn

\* Passing a bitmap to another thread.
LEMMA HandOverRefines ==
  ASSUME RInv, IInv', NEW b \in Bitmaps, NEW t \in Threads, HandOver(b, t)
  PROVE  AnswerInv' /\ AbstractStep
  <1>1. \A a : Content(a)' = Content(a)
    BY DEF HandOver, Content, Unwrap, IsShared
  <1>2. AnswerInv'
    BY <1>1 DEF RInv, AnswerInv, Answers, Pending, Apply, HandOver
  <1>3. VisibleContent(b) = VisibleContent(b)
    OBVIOUS
  <1>4. \A a \in Bitmaps : VisibleContent(a)' = VisibleContent(a)
    BY <1>1 DEF VisibleContent, HandOver
  <1>5. Abstract!HandOver(b, t)
    BY <1>4 DEF Abstract!HandOver, HandOver
  <1> QED
    BY <1>2, <1>5 DEF AbstractStep, Abstract!Next

\* roaring_bitmap_add of a new key.
LEMMA AddNewKeyRefines ==
  ASSUME RInv, IInv', NEW t \in Threads, NEW b \in Bitmaps, NEW x \in Elements,
         AddNewKey(t, b, x)
  PROVE  AnswerInv' /\ AbstractStep
  <1> DEFINE o == Unary("add", b, {x})
  <1>1. PICK c \in FreeContainers : /\ heap' = [heap EXCEPT ![c] = {x}]
                                    /\ slot' = [slot EXCEPT ![b] = c]
    BY DEF AddNewKey
  <1>2. /\ c \in Containers /\ heap[c] = {} /\ slot[b] = NULL
        /\ pc[t] = "idle" /\ owner[b] = t /\ o \in Operations
        /\ pc' = pc /\ op' = op
        /\ UNCHANGED <<owner, container, answer>>
    BY <1>1 DEF RInv, IInv, TypeOK, AddNewKey, FreeContainers, Start, Unary
  <1>3. ASSUME NEW a \in Bitmaps, a # b
        PROVE  Content(a)' = Content(a)
    <2>1. slot[a] # NULL => Unwrap(a) # c
      BY <1>2, ContentType DEF RInv, Content
    <2> QED
      BY <1>1, <1>2, <1>3, <2>1 DEF RInv, IInv, TypeOK, Content, Unwrap, IsShared
  <1>4. Content(b) = {} /\ Content(b)' = {x}
    BY <1>1, <1>2, ContentBySlot, NextContentBySlot DEF RInv, IInv, TypeOK
  <1>5. /\ \A a \in Bitmaps : owner[a] # t => Value(a)' = Value(a)
        /\ \A u \in Threads \ {t} : Answers(u)'
    BY <1>1, <1>2, <1>3, OtherBitmaps DEF RInv, IInv, TypeOK, LiveInv
  <1>6. \A a \in Bitmaps : owner[a] = t => /\ Value(a) = Content(a)
                                           /\ Value(a)' = Content(a)'
    BY <1>2 DEF Value, Overwriting
  <1>7. Value(b)' = Apply(o, Value(b), Value(b))
    BY <1>2, <1>4, <1>6 DEF Apply, Unary
  <1>8. Abstract!Next
    <2>1. o.dst = b /\ o.src = b
      BY DEF Unary
    <2> QED
      BY <1>2, <1>3, <1>5, <1>6, <1>7, <2>1, Operates DEF RInv
  <1> QED
    BY <1>2, <1>5, <1>8, NoAnswer DEF AnswerInv, AbstractStep

\* shared_container_extract_copy of the last reference: the container moves
\* from the wrapper to the slot.
LEMMA TakeContainerRefines ==
  ASSUME RInv, IInv', NEW t \in Threads, TakeContainer(t)
  PROVE  AnswerInv' /\ AbstractStep
  <1> DEFINE b == op[t].dst
             w == slot[b]
  <1>1. /\ pc[t] = "take" /\ b \in Bitmaps /\ w \in Wrappers
        /\ counter[w] = 1 /\ owner[b] = t
        /\ slot' = [slot EXCEPT ![b] = container[w]]
        /\ container' = [container EXCEPT ![w] = NULL]
        /\ pc' = [pc EXCEPT ![t] = "write"] /\ op' = op
        /\ UNCHANGED <<owner, heap, answer>>
    BY Operands DEF RInv, IInv, OwnInv, ControlInv, Control, TakeContainer, Goto
  <1>2. container[w] \in Containers /\ \A a \in Bitmaps : slot[a] = w => a = b
    BY <1>1, UniqueReference DEF RInv, IInv, TypeOK
  <1>3. TypeOK /\ TypeOK'
    BY DEF RInv, IInv
  <1> HIDE DEF b, w
  <1>4. ASSUME NEW a \in Bitmaps
        PROVE  Content(a)' = Content(a)
    <2>1. CASE a = b
      <3>1. slot[a] = w
        BY <2>1 DEF b, w
      <3>2. slot'[a] = container[w]
        BY <1>1, <1>3, <2>1 DEF TypeOK
      <3> QED
        BY <1>1, <1>2, <1>3, <3>1, <3>2, ContentBySlot, NextContentBySlot
    <2>2. CASE a # b
      <3>1. slot'[a] = slot[a] /\ slot[a] # w
        BY <1>1, <1>2, <1>3, <2>2 DEF TypeOK
      <3>2. slot[a] \in Wrappers => container'[slot[a]] = container[slot[a]]
        BY <1>1, <1>3, <3>1 DEF TypeOK
      <3> QED
        BY <1>1, <1>3, <3>1, <3>2, ContentBySlot, NextContentBySlot
    <2> QED
      BY <2>1, <2>2
  <1>5. /\ \A a \in Bitmaps : owner[a] # t => Value(a)' = Value(a)
        /\ \A u \in Threads \ {t} : Answers(u)'
    BY <1>1, <1>3, <1>4, OtherBitmaps DEF RInv, TypeOK
  <1>6. pc'[t] = "write"
    BY <1>1, <1>3 DEF TypeOK
  <1>7. \A a \in Bitmaps : owner[a] = t => Value(a)' = Value(a)
    BY <1>1, <1>4, <1>6 DEF Value, Overwriting
  <1> QED
    BY <1>1, <1>5, <1>6, <1>7, NoAnswer, Stutters DEF RInv, AnswerInv, AbstractStep

\* A container that thread t builds in free memory is not visible.
LEMMA BuildRefines ==
  ASSUME RInv, IInv', NEW t \in Threads, pc[t] \in {"clone", "compute"},
         answer[t] = NULL, pc' = [pc EXCEPT ![t] = "drop"],
         UNCHANGED <<slot, owner, container, op>>,
         \/ UNCHANGED <<heap, answer>>
         \/ \E c \in FreeContainers, S \in SUBSET Elements :
              /\ heap' = [heap EXCEPT ![c] = S]
              /\ answer' = [answer EXCEPT ![t] = c]
  PROVE  /\ AbstractStep
         /\ \A b \in Bitmaps : Content(b)' = Content(b)
         /\ Answers(t)' => AnswerInv'
  <1>1. TypeOK /\ TypeOK'
    BY DEF RInv, IInv
  <1>2. \A b \in Bitmaps : slot[b] # NULL => heap[Unwrap(b)] # {} /\ Unwrap(b) \in Containers
    BY ContentType DEF RInv, Content
  <1>3. \A d \in Containers : heap[d] # {} => heap'[d] = heap[d]
    BY <1>1 DEF TypeOK, FreeContainers
  <1>4. \A b \in Bitmaps : Content(b)' = Content(b)
    BY <1>2, <1>3 DEF Content, Unwrap, IsShared
  <1>5. \A u \in Threads \ {t} :
          /\ pc'[u] = pc[u] /\ answer'[u] = answer[u]
          /\ answer[u] # NULL => heap'[answer[u]] = heap[answer[u]]
    BY <1>1, <1>3 DEF RInv, IInv, LiveInv, TypeOK
  <1>6. /\ \A a \in Bitmaps : owner[a] # t => Value(a)' = Value(a)
        /\ \A u \in Threads \ {t} : Answers(u)'
    BY <1>4, <1>5, OtherBitmaps DEF RInv
  <1>7. pc'[t] = "drop"
    BY <1>1 DEF TypeOK
  <1>8. \A a \in Bitmaps : owner[a] = t => Value(a)' = Value(a)
    BY <1>4, <1>7 DEF Value, Overwriting
  <1> QED
    BY <1>4, <1>6, <1>8, Stutters DEF RInv, AnswerInv, AbstractStep

\* shared_container_extract_copy with other references clones the container.
LEMMA CloneContainerRefines ==
  ASSUME RInv, IInv', NEW t \in Threads, CloneContainer(t)
  PROVE  AnswerInv' /\ AbstractStep
  <1>1. PICK c \in FreeContainers :
          /\ heap' = [heap EXCEPT ![c] = Content(op[t].dst)]
          /\ answer' = [answer EXCEPT ![t] = c]
    BY DEF CloneContainer
  <1>2. /\ pc[t] = "clone" /\ answer[t] = NULL /\ op[t].dst \in Bitmaps
        /\ op[t].kind \in Writing
        /\ pc' = [pc EXCEPT ![t] = "drop"]
        /\ UNCHANGED <<slot, owner, container, op>>
    BY Operands DEF RInv, IInv, ControlInv, Control, CloneContainer, Goto
  <1>3. c \in Containers /\ Content(op[t].dst) \in SUBSET Elements
    BY <1>1, <1>2, ContentType DEF RInv, FreeContainers
  <1>4. /\ AbstractStep
        /\ \A b \in Bitmaps : Content(b)' = Content(b)
        /\ Answers(t)' => AnswerInv'
    BY <1>1, <1>2, <1>3, BuildRefines
  <1>5. Pending(t)' = Content(op[t].dst)
    BY <1>1, <1>3, SharedContainerAssumption DEF RInv, IInv, TypeOK, Pending
  <1>6. pc'[t] = "drop"
    BY <1>2 DEF RInv, IInv, TypeOK
  <1>7. Answers(t)'
    BY <1>2, <1>4, <1>5, <1>6 DEF Answers, Writing
  <1> QED
    BY <1>4, <1>7

\* container_or and container_andnot build the result of the operation.
LEMMA ComputeContainerRefines ==
  ASSUME RInv, IInv', NEW t \in Threads, ComputeContainer(t)
  PROVE  AnswerInv' /\ AbstractStep
  <1> DEFINE result == Apply(op[t], Content(op[t].dst), Content(op[t].src))
  <1>1. /\ pc[t] = "compute" /\ answer[t] = NULL
        /\ op[t] \in Operations /\ op[t].dst \in Bitmaps /\ op[t].src \in Bitmaps
        /\ op[t].kind \in {"or", "andnot"}
        /\ pc' = [pc EXCEPT ![t] = "drop"]
        /\ UNCHANGED <<slot, owner, container, op>>
    BY Operands DEF RInv, IInv, ControlInv, Control, ComputeContainer, Goto
  <1>2. result \in SUBSET Elements
    BY <1>1, ContentType, ApplyType DEF RInv
  <1>3. \/ result = {} /\ UNCHANGED <<heap, answer>>
        \/ \E c \in FreeContainers : /\ heap' = [heap EXCEPT ![c] = result]
                                     /\ answer' = [answer EXCEPT ![t] = c]
    BY DEF ComputeContainer
  <1>4. result' = Apply(op[t], Content(op[t].dst)', Content(op[t].src)')
    BY <1>1 DEF Apply
  <1> HIDE DEF result
  <1>5. /\ AbstractStep
        /\ \A b \in Bitmaps : Content(b)' = Content(b)
        /\ Answers(t)' => AnswerInv'
    BY <1>1, <1>2, <1>3, BuildRefines
  <1>6. Pending(t)' = result
    BY <1>1, <1>2, <1>3, SharedContainerAssumption
    DEF RInv, IInv, TypeOK, Pending, FreeContainers
  <1>7. pc'[t] = "drop"
    BY <1>1 DEF RInv, IInv, TypeOK
  <1>8. result' = result
    BY <1>1, <1>4, <1>5 DEF result
  <1>9. Answers(t)'
    BY <1>1, <1>6, <1>7, <1>8 DEF Answers, Writing, result
  <1> QED
    BY <1>5, <1>9

\* The write into a private container is the operation.
LEMMA WriteContainerRefines ==
  ASSUME RInv, IInv', NEW t \in Threads, WriteContainer(t)
  PROVE  AnswerInv' /\ AbstractStep
  <1>a. PICK o, b, c, result :
          /\ o = op[t] /\ b = op[t].dst /\ c = slot[op[t].dst]
          /\ result = Apply(op[t], Content(op[t].dst), Content(op[t].src))
    OBVIOUS
  <1>1. /\ pc[t] = "write" /\ o \in Operations
        /\ b \in Bitmaps /\ c \in Containers
        /\ o.src \in Bitmaps /\ owner[b] = t /\ owner[o.src] = t
        /\ heap' = [heap EXCEPT ![c] = result]
        /\ slot' = IF result = {} THEN [slot EXCEPT ![b] = NULL] ELSE slot
        /\ pc' = [pc EXCEPT ![t] = "idle"] /\ op' = [op EXCEPT ![t] = NULL]
        /\ UNCHANGED <<owner, container, answer>>
    BY <1>a, Operands
    DEF RInv, IInv, OwnInv, ControlInv, Control, WriteContainer, Goto
  <1>2. o.dst = b /\ c = slot[b] /\ result = Apply(o, Content(b), Content(o.src))
    BY <1>a
  <1>3. TypeOK /\ TypeOK'
    BY DEF RInv, IInv
  <1>4. /\ \A a \in Bitmaps : a # b => slot[a] # c
        /\ \A w \in Wrappers : container[w] # c
        /\ \A u \in Threads : answer[u] # c
    BY <1>1, <1>2 DEF RInv, IInv, ExclusiveInv
  <1>5. Content(b)' = result
    BY <1>1, <1>2, <1>3, NextContentBySlot DEF TypeOK
  <1>6. ASSUME NEW a \in Bitmaps, a # b
        PROVE  Content(a)' = Content(a)
    <2>1. slot'[a] = slot[a]
      BY <1>1, <1>3, <1>6 DEF TypeOK
    <2>2. slot[a] \in Containers => heap'[slot[a]] = heap[slot[a]]
      BY <1>1, <1>3, <1>4, <1>6 DEF TypeOK
    <2>3. slot[a] \in Wrappers => /\ container[slot[a]] \in Containers
                                  /\ heap'[container[slot[a]]] = heap[container[slot[a]]]
      BY <1>1, <1>3, <1>4, UniqueReference DEF RInv, IInv, TypeOK
    <2>4. container' = container
      BY <1>1
    <2> QED
      BY <1>3, <2>1, <2>2, <2>3, <2>4, ContentBySlot, NextContentBySlot
  <1>7. /\ \A a \in Bitmaps : owner[a] # t => Value(a)' = Value(a)
        /\ \A u \in Threads \ {t} : Answers(u)'
    <2>1. \A u \in Threads \ {t} :
            /\ pc'[u] = pc[u] /\ op'[u] = op[u] /\ answer'[u] = answer[u]
            /\ answer[u] # NULL => heap'[answer[u]] = heap[answer[u]]
      BY <1>1, <1>3, <1>4 DEF TypeOK
    <2> QED
      BY <1>1, <1>6, <2>1, OtherBitmaps DEF RInv
  <1>8. pc'[t] = "idle"
    BY <1>1, <1>3 DEF TypeOK
  <1>9. \A a \in Bitmaps : owner[a] = t => /\ Value(a) = Content(a)
                                           /\ Value(a)' = Content(a)'
    BY <1>1, <1>8 DEF Value, Overwriting
  <1>10. Value(b)' = Apply(o, Value(b), Value(o.src))
    BY <1>1, <1>2, <1>5, <1>9
  <1>11. Abstract!Next
    BY <1>1, <1>2, <1>6, <1>7, <1>9, <1>10, Operates DEF RInv
  <1> QED
    BY <1>7, <1>8, <1>11, NoAnswer DEF AnswerInv, AbstractStep

\* Releasing a wrapper that no slot refers to is not visible.
LEMMA ReleaseSharedRefines ==
  ASSUME RInv, IInv', NEW t \in Threads, ReleaseShared(t)
  PROVE  AnswerInv' /\ AbstractStep
  <1> DEFINE w == dead[t]
             c == container[w]
             l == AfterDrop(op[t])
  <1>1. /\ pc[t] = "release" /\ w # NULL
        /\ heap' = [heap EXCEPT ![c] = {}]
        /\ container' = [container EXCEPT ![w] = NULL]
        /\ Goto(t, l)
        /\ UNCHANGED <<slot, owner, answer>>
    BY DEF RInv, IInv, ControlInv, Control, ReleaseShared
  <1>2. /\ w \in Wrappers /\ c \in Containers /\ c # NULL
        /\ \A a \in Bitmaps : slot[a] # w
    BY <1>1 DEF RInv, IInv, TypeOK, DeadInv, Refs
  <1>3. c = container[w]
    OBVIOUS
  <1>4. /\ l \in {"idle", "write", "share"}
        /\ l = "share" <=> op[t].kind = "copy" /\ slot[op[t].src] # NULL
    BY DEF AfterDrop
  <1>5. TypeOK /\ TypeOK'
    BY DEF RInv, IInv
  <1>6. PICK d \in Bitmaps, s \in Bitmaps :
          /\ d = op[t].dst /\ s = op[t].src
          /\ op[t].kind = "copy" => slot[d] = NULL
    BY <1>1, <1>5, Operands DEF RInv, IInv, ControlInv, Control
  <1> HIDE DEF w, c, l
  <1>7. /\ \A a \in Bitmaps : slot[a] # c
        /\ \A v \in Wrappers : v # w => container[v] # c
        /\ \A u \in Threads : answer[u] # c
    BY <1>2, <1>3 DEF RInv, IInv, ExclusiveInv
  <1>8. ASSUME NEW a \in Bitmaps
        PROVE  Content(a)' = Content(a)
    <2>1. slot[a] \in Containers => heap'[slot[a]] = heap[slot[a]]
      BY <1>1, <1>5, <1>7 DEF TypeOK
    <2>2. slot[a] \in Wrappers => /\ container[slot[a]] \in Containers
                                  /\ container'[slot[a]] = container[slot[a]]
                                  /\ heap'[container[slot[a]]] = heap[container[slot[a]]]
      BY <1>1, <1>2, <1>5, <1>7, UniqueReference DEF RInv, IInv, TypeOK
    <2> QED
      BY <1>1, <1>5, <2>1, <2>2, ContentBySlot, NextContentBySlot
  <1>9. /\ \A a \in Bitmaps : owner[a] # t => Value(a)' = Value(a)
        /\ \A u \in Threads \ {t} : Answers(u)'
    <2>1. \A u \in Threads \ {t} :
            /\ pc'[u] = pc[u] /\ op'[u] = op[u] /\ answer'[u] = answer[u]
            /\ answer[u] # NULL => heap'[answer[u]] = heap[answer[u]]
      BY <1>1, <1>5, <1>7 DEF TypeOK, Goto
    <2> QED
      BY <1>1, <1>8, <2>1, OtherBitmaps DEF RInv
  <1>10. /\ pc'[t] = l
         /\ l # "idle" => op'[t] = op[t]
    BY <1>1, <1>5 DEF TypeOK, Goto
  <1>11. ASSUME NEW a \in Bitmaps, owner[a] = t
         PROVE  Value(a)' = Value(a)
    <2>1. CASE Overwriting(t, a)
      <3>1. Value(a) = Content(s) /\ Content(a) = {}
        BY <1>5, <1>6, <1>11, <2>1, ContentBySlot DEF Value, Overwriting
      <3>2. CASE slot[s] = NULL
        <4>1. Content(s) = {}
          BY <1>5, <1>6, <3>2, ContentBySlot
        <4>2. Value(a)' = Content(a)'
          BY <1>1, <1>4, <1>6, <1>10, <1>11, <2>1, <3>2 DEF Value, Overwriting
        <4> QED
          BY <1>8, <3>1, <4>1, <4>2
      <3>3. CASE slot[s] # NULL
        <4>1. Overwriting(t, a)' /\ op'[t] = op[t]
          BY <1>1, <1>4, <1>6, <1>10, <2>1, <3>3 DEF Overwriting
        <4>2. Value(a)' = Content(s)'
          BY <1>1, <1>6, <1>11, <4>1 DEF Value
        <4> QED
          BY <1>6, <1>8, <3>1, <4>2
      <3> QED
        BY <3>2, <3>3
    <2>2. CASE ~Overwriting(t, a)
      <3>1. ~Overwriting(t, a)'
        BY <1>1, <1>4, <1>10, <2>2 DEF Overwriting
      <3> QED
        BY <1>1, <1>8, <1>11, <2>2, <3>1 DEF Value
    <2> QED
      BY <2>1, <2>2
  <1>12. Answers(t)'
    BY <1>4, <1>10 DEF Answers
  <1> QED
    BY <1>1, <1>9, <1>11, <1>12, Stutters DEF RInv, AnswerInv, AbstractStep

\* Freeing the private container of a bitmap empties this bitmap only.
LEMMA FreePrivateContent ==
  ASSUME RInv, IInv', NEW b \in Bitmaps, slot[b] \in Containers,
         heap' = [heap EXCEPT ![slot[b]] = {}],
         slot' = [slot EXCEPT ![b] = NULL], container' = container
  PROVE  /\ Content(b)' = {}
         /\ \A a \in Bitmaps : a # b => Content(a)' = Content(a)
         /\ \A u \in Threads : answer[u] # NULL => heap'[answer[u]] = heap[answer[u]]
  <1> PICK c : c = slot[b]
    OBVIOUS
  <1>1. TypeOK /\ TypeOK'
    BY DEF RInv, IInv
  <1>2. /\ \A a \in Bitmaps : a # b => slot[a] # c
        /\ \A w \in Wrappers : container[w] # c
        /\ \A u \in Threads : answer[u] # c
    BY DEF RInv, IInv, ExclusiveInv
  <1>3. Content(b)' = {}
    BY <1>1, NextContentBySlot DEF TypeOK
  <1>4. ASSUME NEW a \in Bitmaps, a # b
        PROVE  Content(a)' = Content(a)
    <2>1. slot'[a] = slot[a]
      BY <1>1, <1>4 DEF TypeOK
    <2>2. slot[a] \in Containers => heap'[slot[a]] = heap[slot[a]]
      BY <1>1, <1>2, <1>4 DEF TypeOK
    <2>3. slot[a] \in Wrappers => /\ container[slot[a]] \in Containers
                                  /\ heap'[container[slot[a]]] = heap[container[slot[a]]]
      BY <1>1, <1>2, UniqueReference DEF RInv, IInv, TypeOK
    <2> QED
      BY <1>1, <2>1, <2>2, <2>3, ContentBySlot, NextContentBySlot
  <1>5. \A u \in Threads : answer[u] # NULL => heap'[answer[u]] = heap[answer[u]]
    BY <1>1, <1>2 DEF TypeOK
  <1> QED
    BY <1>3, <1>4, <1>5

\* roaring_bitmap_clear: at once when the container is private.
LEMMA StartClearRefines ==
  ASSUME RInv, IInv', NEW t \in Threads, NEW o, o.src = o.dst, StartClear(t, o)
  PROVE  AnswerInv' /\ AbstractStep
  <1>1. TypeOK /\ TypeOK'
    BY DEF RInv, IInv
  <1>2. CASE IsShared(o.dst)
    <2>1. /\ UNCHANGED <<slot, owner, heap, container, answer>>
          /\ \A u \in Threads \ {t} : pc'[u] = pc[u] /\ op'[u] = op[u]
          /\ pc[t] = "idle" /\ pc'[t] = "drop" /\ op'[t] = o
          /\ o.kind = "clear"
      BY <1>1, <1>2 DEF TypeOK, StartClear, Start
    <2>2. answer'[t] = NULL
      BY <2>1 DEF RInv, IInv, ControlInv, Control
    <2>3. Answers(t)'
      BY <2>1, <2>2 DEF Answers, Pending, Apply, Writing
    <2> QED
      BY <2>1, <2>3, MovesOn
  <1>3. CASE ~IsShared(o.dst)
    <2>1. /\ o \in Operations /\ o.dst \in Bitmaps /\ o.kind = "clear"
          /\ owner[o.dst] = t /\ pc[t] = "idle" /\ pc' = pc /\ op' = op
          /\ slot[o.dst] \in Containers
          /\ heap' = [heap EXCEPT ![slot[o.dst]] = {}]
          /\ slot' = [slot EXCEPT ![o.dst] = NULL]
          /\ UNCHANGED <<owner, container, answer>>
      BY <1>1, <1>3 DEF TypeOK, StartClear, Start, IsShared, Operations
    <2>2. /\ Content(o.dst)' = {}
          /\ \A a \in Bitmaps : a # o.dst => Content(a)' = Content(a)
          /\ \A u \in Threads : answer[u] # NULL => heap'[answer[u]] = heap[answer[u]]
      BY <2>1, FreePrivateContent
    <2>3. /\ \A a \in Bitmaps : owner[a] # t => Value(a)' = Value(a)
          /\ \A u \in Threads \ {t} : Answers(u)'
      BY <2>1, <2>2, OtherBitmaps DEF RInv
    <2>4. \A a \in Bitmaps : owner[a] = t => /\ Value(a) = Content(a)
                                             /\ Value(a)' = Content(a)'
      BY <2>1 DEF Value, Overwriting
    <2>5. Value(o.dst)' = Apply(o, Value(o.dst), Value(o.src))
      BY <2>1, <2>2, <2>4 DEF Apply
    <2>6. Abstract!Next
      BY <2>1, <2>2, <2>3, <2>4, <2>5, Operates DEF RInv
    <2> QED
      BY <2>1, <2>3, <2>6, NoAnswer DEF AnswerInv, AbstractStep
  <1> QED
    BY <1>2, <1>3

\* A copy takes effect when the destination loses its old container; a union
\* with an empty destination does so when it shares the source.
LEMMA StartCopyRefines ==
  ASSUME RInv, IInv', NEW t \in Threads, NEW o, StartCopy(t, o)
  PROVE  AnswerInv' /\ AbstractStep
  <1>1. TypeOK /\ TypeOK'
    BY DEF RInv, IInv
  <1>2. CASE IsShared(o.dst)
    <2>1. /\ UNCHANGED <<slot, owner, heap, container, answer>>
          /\ \A u \in Threads \ {t} : pc'[u] = pc[u] /\ op'[u] = op[u]
          /\ pc[t] = "idle" /\ pc'[t] = "drop" /\ op'[t] = o
          /\ o.kind = "copy"
      BY <1>1, <1>2, SharedContainerAssumption
      DEF TypeOK, StartCopy, Start, IsShared
    <2>2. Answers(t)'
      BY <2>1 DEF Answers, Writing
    <2> QED
      BY <2>1, <2>2, MovesOn
  <1>3. CASE ~IsShared(o.dst)
    <2>1. PICK l : l = IF slot[o.src] # NULL THEN "share" ELSE "idle"
      OBVIOUS
    <2>2. /\ o \in Operations /\ o.dst \in Bitmaps /\ o.src \in Bitmaps
          /\ o.dst # o.src /\ owner[o.dst] = t /\ owner[o.src] = t
          /\ pc[t] = "idle" /\ pc' = [pc EXCEPT ![t] = l]
          /\ op' = IF l = "idle" THEN op ELSE [op EXCEPT ![t] = o]
          /\ UNCHANGED <<owner, container, answer>>
          /\ \/ o.kind = "copy"
             \/ o.kind = "or" /\ slot[o.dst] = NULL /\ slot[o.src] # NULL
      BY <1>3, <2>1 DEF StartCopy, Start, Operations
    <2>3. \/ /\ slot[o.dst] \in Containers
             /\ heap' = [heap EXCEPT ![slot[o.dst]] = {}]
             /\ slot' = [slot EXCEPT ![o.dst] = NULL]
          \/ slot[o.dst] = NULL /\ slot' = slot /\ heap' = heap
      BY <1>1, <1>3, <2>2 DEF StartCopy, TypeOK, IsShared
    <2>4. /\ Content(o.dst)' = {}
          /\ \A a \in Bitmaps : a # o.dst => Content(a)' = Content(a)
          /\ \A u \in Threads : answer[u] # NULL => heap'[answer[u]] = heap[answer[u]]
      <3>1. CASE slot[o.dst] \in Containers
        BY <2>2, <2>3, <3>1, FreePrivateContent, SharedContainerAssumption
      <3>2. CASE slot[o.dst] = NULL /\ slot' = slot /\ heap' = heap
        BY <2>2, <3>2 DEF Content, Unwrap, IsShared
      <3> QED
        BY <2>3, <3>1, <3>2
    <2>5. \A u \in Threads \ {t} : pc'[u] = pc[u] /\ op'[u] = op[u]
      BY <1>1, <2>2 DEF TypeOK
    <2>6. /\ \A a \in Bitmaps : owner[a] # t => Value(a)' = Value(a)
          /\ \A u \in Threads \ {t} : Answers(u)'
      BY <2>2, <2>4, <2>5, OtherBitmaps DEF RInv
    <2>7. pc'[t] = l /\ (l # "idle" => op'[t] = o)
      BY <1>1, <2>2 DEF TypeOK
    <2>8. Answers(t)'
      BY <2>1, <2>2, <2>7 DEF Answers
    <2>9. \A a \in Bitmaps : owner[a] = t => Value(a) = Content(a)
      BY <2>2 DEF Value, Overwriting
    <2>10. \A a \in Bitmaps : owner[a] = t /\ a # o.dst => Value(a)' = Content(a)'
      <3>1. CASE l = "idle"
        BY <2>2, <2>7, <3>1 DEF Value, Overwriting
      <3>2. CASE l # "idle"
        BY <2>2, <2>7, <3>2 DEF Value, Overwriting
      <3> QED
        BY <3>1, <3>2
    <2>11. CASE o.kind = "copy"
      <3>1. Value(o.dst)' = Content(o.src)
        <4>1. CASE slot[o.src] # NULL
          <5>1. Overwriting(t, o.dst)' /\ op'[t] = o
            BY <2>1, <2>7, <2>11, <4>1 DEF Overwriting
          <5>2. Value(o.dst)' = Content(o.src)'
            BY <2>2, <5>1 DEF Value
          <5> QED
            BY <2>2, <2>4, <5>2
        <4>2. CASE slot[o.src] = NULL
          <5>1. Value(o.dst)' = Content(o.dst)'
            BY <2>1, <2>2, <2>7, <4>2 DEF Value, Overwriting
          <5>2. Content(o.src) = {}
            BY <4>2 DEF Content
          <5> QED
            BY <2>4, <5>1, <5>2
        <4> QED
          BY <4>1, <4>2
      <3>2. Value(o.dst)' = Apply(o, Value(o.dst), Value(o.src))
        BY <2>2, <2>9, <2>11, <3>1 DEF Apply
      <3>3. Abstract!Next
        BY <2>2, <2>4, <2>6, <2>9, <2>10, <3>2, Operates DEF RInv
      <3> QED
        BY <2>6, <2>8, <3>3 DEF AnswerInv, AbstractStep
    <2>12. CASE o.kind = "or"
      <3>1. slot[o.dst] = NULL
        BY <2>2, <2>12
      <3>2. Content(o.dst) = {}
        BY <3>1 DEF Content
      <3>3. Value(o.dst)' = Content(o.dst)'
        BY <2>1, <2>2, <2>7, <2>12 DEF Value, Overwriting
      <3>4. \A a \in Bitmaps : Value(a)' = Value(a)
        BY <2>2, <2>4, <2>6, <2>9, <2>10, <3>2, <3>3
      <3> QED
        BY <2>2, <2>6, <2>8, <3>4, Stutters DEF RInv, AnswerInv, AbstractStep
    <2> QED
      BY <2>2, <2>11, <2>12
  <1> QED
    BY <1>2, <1>3

\* The drop of a reference is the operation, unless the thread has only
\* extracted a private copy that it is about to write.
LEMMA DropReferenceRefines ==
  ASSUME RInv, IInv', NEW t \in Threads, DropReference(t)
  PROVE  AnswerInv' /\ AbstractStep
  <1> PICK o, b, s, w, l :
        /\ o = op[t] /\ b = op[t].dst /\ s = op[t].src /\ w = slot[op[t].dst]
        /\ l = IF counter[w] = 1 THEN "release" ELSE AfterDrop(o)
    OBVIOUS
  <1>1. TypeOK /\ TypeOK'
    BY DEF RInv, IInv
  <1>2. /\ pc[t] = "drop" /\ o \in Operations /\ o.dst = b /\ o.src = s
        /\ b \in Bitmaps /\ s \in Bitmaps /\ owner[b] = t /\ owner[s] = t
        /\ o.kind = "copy" => answer[t] = NULL /\ s # b
        /\ slot' = [slot EXCEPT ![b] = answer[t]]
        /\ answer' = [answer EXCEPT ![t] = NULL]
        /\ Goto(t, l)
        /\ UNCHANGED <<owner, heap, container>>
    BY Operands
    DEF RInv, IInv, OwnInv, ControlInv, Control, DropReference
  <1>3. /\ l \in {"release", "write", "share", "idle"}
        /\ l = "share" => o.kind = "copy"
        /\ l = "idle" /\ o.kind = "copy" => slot[s] = NULL
    BY DEF AfterDrop
  <1>4. /\ o.kind \in Writing \cup {"or", "andnot", "copy", "clear"}
        /\ o.kind \in Writing => Pending(t) = Content(b)
        /\ o.kind \in {"or", "andnot", "clear"} =>
             Pending(t) = Apply(o, Content(b), Content(s))
    BY <1>2 DEF RInv, AnswerInv, Answers
  <1>5. Content(b)' = Pending(t)
    <2>1. slot'[b] = answer[t] /\ answer[t] \in Containers \cup {NULL} /\ heap' = heap
      BY <1>1, <1>2 DEF TypeOK
    <2> QED
      BY <1>1, <1>2, <2>1, NextContentBySlot DEF Pending
  <1>6. ASSUME NEW a \in Bitmaps, a # b
        PROVE  Content(a)' = Content(a)
    <2>1. slot'[a] = slot[a]
      BY <1>1, <1>2, <1>6 DEF TypeOK
    <2> QED
      BY <1>2, <2>1 DEF Content, Unwrap, IsShared
  <1>7. /\ \A a \in Bitmaps : owner[a] # t => Value(a)' = Value(a)
        /\ \A u \in Threads \ {t} : Answers(u)'
    <2>1. \A u \in Threads \ {t} :
            pc'[u] = pc[u] /\ op'[u] = op[u] /\ answer'[u] = answer[u]
      BY <1>1, <1>2 DEF TypeOK, Goto
    <2> QED
      BY <1>2, <1>6, <2>1, OtherBitmaps DEF RInv
  <1>8. pc'[t] = l /\ (l # "idle" => op'[t] = o)
    BY <1>1, <1>2 DEF TypeOK, Goto
  <1>9. Answers(t)'
    BY <1>3, <1>8 DEF Answers
  <1>10. \A a \in Bitmaps : owner[a] = t => Value(a) = Content(a)
    BY <1>2 DEF Value, Overwriting
  <1>11. \A a \in Bitmaps : owner[a] = t /\ a # b => Value(a)' = Content(a)'
    BY <1>2, <1>3, <1>8 DEF Value, Overwriting
  <1>12. o.kind # "copy" => Value(b)' = Content(b)'
    BY <1>2, <1>3, <1>8 DEF Value, Overwriting
  <1>13. CASE o.kind \in Writing
    <2>1. \A a \in Bitmaps : Value(a)' = Value(a)
      BY <1>2, <1>4, <1>5, <1>6, <1>7, <1>10, <1>11, <1>12, <1>13 DEF Writing
    <2> QED
      BY <1>2, <1>7, <1>9, <2>1, Stutters DEF RInv, AnswerInv, AbstractStep
  <1>14. CASE o.kind \in {"or", "andnot", "copy", "clear"}
    <2>1. Value(b)' = Apply(o, Value(b), Value(s))
      <3>1. CASE o.kind \in {"or", "andnot", "clear"}
        BY <1>2, <1>4, <1>5, <1>10, <1>12, <3>1
      <3>2. CASE o.kind = "copy"
        <4>1. CASE l = "idle"
          <5>1. Value(b)' = {}
            BY <1>2, <1>5, <1>8, <3>2, <4>1 DEF Value, Overwriting, Pending
          <5>2. Content(s) = {}
            BY <1>3, <3>2, <4>1 DEF Content
          <5> QED
            BY <1>2, <1>10, <3>2, <5>1, <5>2 DEF Apply
        <4>2. CASE l # "idle"
          <5>1. l \in {"release", "share"}
            BY <1>3, <3>2, <4>2 DEF AfterDrop
          <5>2. Value(b)' = Content(s)'
            BY <1>2, <1>8, <3>2, <4>2, <5>1 DEF Value, Overwriting
          <5> QED
            BY <1>2, <1>6, <1>10, <3>2, <5>2 DEF Apply
        <4> QED
          BY <4>1, <4>2
      <3> QED
        BY <1>14, <3>1, <3>2
    <2>2. \A a \in Bitmaps : a # b => Value(a)' = Value(a)
      BY <1>6, <1>7, <1>10, <1>11
    <2>3. Abstract!Next
      BY <1>2, <2>1, <2>2, Operates DEF RInv
    <2> QED
      BY <1>7, <1>9, <2>3 DEF AnswerInv, AbstractStep
  <1> QED
    BY <1>4, <1>13, <1>14

\* Sharing the source is not visible after an overwritten destination, and is
\* the union with an empty one.
LEMMA ShareContainerRefines ==
  ASSUME RInv, IInv', NEW t \in Threads, get_copy_of_container(t)
  PROVE  AnswerInv' /\ AbstractStep
  <1> PICK o, d, s : o = op[t] /\ d = op[t].dst /\ s = op[t].src
    OBVIOUS
  <1>1. TypeOK /\ TypeOK'
    BY DEF RInv, IInv
  <1>2. /\ pc[t] = "share" /\ o \in Operations /\ o.dst = d /\ o.src = s
        /\ d \in Bitmaps /\ s \in Bitmaps /\ owner[d] = t /\ owner[s] = t
        /\ slot[d] = NULL /\ slot[s] # NULL /\ s # d
        /\ o.kind \in {"or", "copy"}
        /\ pc' = [pc EXCEPT ![t] = "idle"] /\ op' = [op EXCEPT ![t] = NULL]
        /\ UNCHANGED <<owner, heap, answer>>
    BY Operands
    DEF RInv, IInv, OwnInv, ControlInv, Control, AnswerInv, Answers,
        get_copy_of_container, Goto
  <1>3. \/ /\ slot[s] \in Wrappers
           /\ slot' = [slot EXCEPT ![d] = slot[s]]
           /\ container' = container
        \/ /\ slot[s] \in Containers
           /\ \E n \in FreeWrappers :
                /\ container' = [container EXCEPT ![n] = slot[s]]
                /\ slot' = [slot EXCEPT ![d] = n, ![s] = n]
    BY <1>1, <1>2 DEF TypeOK, get_copy_of_container, IsShared
  <1>4. /\ Content(d)' = Content(s)
        /\ \A a \in Bitmaps : a # d => Content(a)' = Content(a)
    <2>1. CASE /\ slot[s] \in Wrappers
               /\ slot' = [slot EXCEPT ![d] = slot[s]]
               /\ container' = container
      <3>1. slot'[d] = slot[s] /\ \A a \in Bitmaps : a # d => slot'[a] = slot[a]
        BY <1>1, <1>2, <2>1 DEF TypeOK
      <3>2. Content(d)' = Content(s)
        <4>1. Content(s) = heap[container[slot[s]]]
          BY <1>1, <1>2, <2>1, ContentBySlot
        <4>2. Content(d)' = heap'[container'[slot'[d]]]
          BY <1>1, <1>2, <2>1, <3>1, NextContentBySlot
        <4> QED
          BY <1>2, <2>1, <3>1, <4>1, <4>2
      <3>3. ASSUME NEW a \in Bitmaps, a # d
            PROVE  Content(a)' = Content(a)
        <4>1. slot'[a] = slot[a] /\ heap' = heap /\ container' = container
          BY <1>2, <2>1, <3>1, <3>3
        <4> QED
          BY <4>1 DEF Content, Unwrap, IsShared
      <3> QED
        BY <3>2, <3>3
    <2>2. ASSUME slot[s] \in Containers, NEW n \in FreeWrappers,
                 container' = [container EXCEPT ![n] = slot[s]],
                 slot' = [slot EXCEPT ![d] = n, ![s] = n]
          PROVE  /\ Content(d)' = Content(s)
                 /\ \A a \in Bitmaps : a # d => Content(a)' = Content(a)
      <3>1. n \in Wrappers /\ \A a \in Bitmaps : slot[a] # n
        BY <2>2 DEF RInv, IInv, CountInv, FreeWrappers, Refs
      <3>2. /\ slot'[d] = n /\ slot'[s] = n
            /\ \A a \in Bitmaps \ {d, s} : slot'[a] = slot[a]
            /\ container'[n] = slot[s]
            /\ \A w \in Wrappers : w # n => container'[w] = container[w]
        BY <1>1, <1>2, <2>2, <3>1 DEF TypeOK
      <3>3. Content(d)' = Content(s) /\ Content(s)' = Content(s)
        <4>1. Content(s) = heap[slot[s]]
          BY <1>1, <1>2, <2>2, ContentBySlot
        <4>2. /\ Content(d)' = heap'[container'[n]]
              /\ Content(s)' = heap'[container'[n]]
          BY <1>1, <1>2, <3>1, <3>2, NextContentBySlot
        <4> QED
          BY <1>2, <3>2, <4>1, <4>2
      <3>4. ASSUME NEW a \in Bitmaps \ {d, s}
            PROVE  Content(a)' = Content(a)
        BY <1>1, <1>2, <3>1, <3>2, ContentBySlot, NextContentBySlot
      <3> QED
        BY <3>3, <3>4
    <2> QED
      BY <1>3, <2>1, <2>2
  <1>5. \A u \in Threads \ {t} : pc'[u] = pc[u] /\ op'[u] = op[u]
    BY <1>1, <1>2 DEF TypeOK
  <1>6. /\ \A a \in Bitmaps : owner[a] # t => Value(a)' = Value(a)
        /\ \A u \in Threads \ {t} : Answers(u)'
    BY <1>2, <1>4, <1>5, OtherBitmaps DEF RInv
  <1>7. pc'[t] = "idle"
    BY <1>1, <1>2 DEF TypeOK
  <1>8. \A a \in Bitmaps : owner[a] = t => Value(a)' = Content(a)'
    BY <1>2, <1>7 DEF Value, Overwriting
  <1>9. \A a \in Bitmaps : owner[a] = t /\ a # d => Value(a) = Content(a)
    BY <1>2 DEF Value, Overwriting
  <1>10. CASE o.kind = "copy"
    <2>1. Value(d) = Content(s)
      BY <1>2, <1>10 DEF Value, Overwriting
    <2>2. \A a \in Bitmaps : Value(a)' = Value(a)
      BY <1>2, <1>4, <1>6, <1>8, <1>9, <2>1
    <2> QED
      BY <1>2, <1>6, <1>7, <2>2, NoAnswer, Stutters DEF RInv, AnswerInv, AbstractStep
  <1>11. CASE o.kind = "or"
    <2>1. Value(d) = Content(d) /\ Content(d) = {}
      BY <1>2, <1>11 DEF Value, Overwriting, Content
    <2>2. Value(d)' = Apply(o, Value(d), Value(s))
      BY <1>2, <1>4, <1>8, <1>9, <1>11, <2>1 DEF Apply
    <2>3. \A a \in Bitmaps : a # d => Value(a)' = Value(a)
      BY <1>4, <1>6, <1>8, <1>9
    <2>4. Abstract!Next
      BY <1>2, <2>2, <2>3, Operates DEF RInv
    <2> QED
      BY <1>6, <1>7, <2>4, NoAnswer DEF AnswerInv, AbstractStep
  <1> QED
    BY <1>2, <1>10, <1>11
-----------------------------------------------------------------------------
(* The theorems.                                                           *)

\* Every bitmap is empty at the start.
LEMMA InitRefines == Init => AnswerInv /\ Abstract!Init
  <1> SUFFICES ASSUME Init PROVE AnswerInv /\ Abstract!Init
    OBVIOUS
  <1>1. AnswerInv
    BY DEF Init, AnswerInv, Answers
  <1>2. \A b \in Bitmaps : VisibleContent(b) = {}
    BY DEF Init, VisibleContent, Content
  <1> QED
    BY <1>1, <1>2 DEF Init, Abstract!Init

\* Every step of a thread is a step of the abstract specification, or none.
LEMMA NextRefines == RInv /\ [Next]_vars /\ IInv' => AnswerInv' /\ AbstractStep
  <1> SUFFICES ASSUME RInv, [Next]_vars, IInv' PROVE AnswerInv' /\ AbstractStep
    OBVIOUS
  <1>1. CASE UNCHANGED vars
    <2>1. \A b : Content(b)' = Content(b)
      BY <1>1 DEF vars, Content, Unwrap, IsShared
    <2>2. AnswerInv'
      BY <1>1, <2>1 DEF vars, RInv, AnswerInv, Answers, Pending, Apply
    <2>3. \A b \in Bitmaps : VisibleContent(b)' = VisibleContent(b)
      BY <1>1, <2>1 DEF vars, VisibleContent
    <2> QED
      BY <1>1, <2>2, <2>3 DEF vars, AbstractStep
  <1>2. ASSUME NEW t \in Threads, Step(t)
        PROVE  AnswerInv' /\ AbstractStep
    BY <1>2, TakeContainerRefines, CloneContainerRefines, WriteContainerRefines,
       ComputeContainerRefines, DropReferenceRefines, ReleaseSharedRefines,
       ShareContainerRefines, ReadRefines DEF Step
  <1>3. ASSUME NEW t \in Threads, Call(t)
        PROVE  AnswerInv' /\ AbstractStep
    <2>1. ASSUME NEW b \in Bitmaps, NEW x \in Elements,
                 \/ AddNewKey(t, b, x)
                 \/ StartWrite(t, Unary("add", b, {x}))
                 \/ StartWrite(t, Unary("remove", b, {x}))
          PROVE  AnswerInv' /\ AbstractStep
      BY <2>1, AddNewKeyRefines, StartWriteRefines
    <2>2. ASSUME NEW b \in Bitmaps,
                 \/ StartWrite(t, Unary("optimize", b, {}))
                 \/ StartClear(t, Unary("clear", b, {}))
                 \/ StartRead(t, Unary("read", b, {}))
          PROVE  AnswerInv' /\ AbstractStep
      BY <2>2, StartWriteRefines, StartClearRefines, ReadRefines DEF Unary
    <2>3. ASSUME NEW b1 \in Bitmaps, NEW b2 \in Bitmaps,
                 \/ StartInplace(t, Binary("or", b1, b2))
                 \/ StartInplace(t, Binary("andnot", b1, b2))
                 \/ StartCopy(t, Binary("or", b1, b2))
                 \/ StartCopy(t, Binary("copy", b1, b2))
          PROVE  AnswerInv' /\ AbstractStep
      BY <2>3, StartWriteRefines, StartCopyRefines
    <2> QED
      BY <1>3, <2>1, <2>2, <2>3 DEF Call
  <1> QED
    BY <1>1, <1>2, <1>3, HandOverRefines DEF Next

\* What a thread is about to store is the result of its operation, although
\* other threads copy, extract and release containers in the meantime.
THEOREM AnswersCorrect == Spec => []AnswerInv
  <1>1. Init => AnswerInv
    BY InitRefines
  <1>2. IInv /\ IInv' /\ AnswerInv /\ [Next]_vars => AnswerInv'
    BY NextRefines DEF RInv
  <1> QED
    BY <1>1, <1>2, InductiveInvariant, PTL DEF Spec

\* Copy-on-write is invisible: bitmaps that share containers between threads
\* behave as if every one of them were a value of its own.
THEOREM CopyOnWriteIsInvisible == Spec => RefinesIndependentBitmaps
  <1>1. Init => Abstract!Init
    BY InitRefines
  <1>2. IInv /\ IInv' /\ AnswerInv /\ [Next]_vars
          => [Abstract!Next]_<<[b \in Bitmaps |-> VisibleContent(b)], owner>>
    BY NextRefines DEF RInv, AbstractStep
  <1> QED
    BY <1>1, <1>2, InductiveInvariant, AnswersCorrect, PTL
    DEF Spec, RefinesIndependentBitmaps, Abstract!Spec
=============================================================================
