------------------------- MODULE BulkContextProofs -------------------------
(***************************************************************************)
(* Copy-on-write with entries and contexts that point at containers: for   *)
(* all numbers of keys and of values in a container, no call uses a freed  *)
(* container, contexts stay current and both bitmaps hold their members.   *)
(***************************************************************************)
EXTENDS BulkContext, FoldFacts

\* What an object on the heap may be.
Lows == 0..(ChunkSize - 1)
PlainTypes == {"array", "bitset"}
PlainObjects == [type : PlainTypes, set : SUBSET Lows]
SharedObjects == [type : {"shared"}, inner : Nat, typecode : PlainTypes, counter : Nat]
Objects == PlainObjects \cup SharedObjects \cup {Freed}
Heaps == {h \in [objs : Seq(Objects), touched : BOOLEAN] : ~h.touched}

Indices(h) == 1..Len(h.objs)
IsPlain(h, x) == x \in Indices(h) /\ Object(h, x) \in PlainObjects
IsShared(h, x) == x \in Indices(h) /\ Object(h, x) \in SharedObjects

\* The entries point at objects that are alive.
Pointed(h, R, O) == \A x \in R \cup O : IsPlain(h, x) \/ IsShared(h, x)

\* A shared container is held, at most once by each bitmap, and has a container
\* that no entry holds.
WrappersSound(h, R, O) ==
  \A x \in Indices(h) : IsShared(h, x) =>
    LET sc == Object(h, x)
    IN  /\ x \in R \cup O
        /\ IsPlain(h, sc.inner) /\ Object(h, sc.inner).type = sc.typecode
        /\ sc.inner \notin R \cup O
        /\ sc.counter = IF x \in R /\ x \in O THEN 2 ELSE 1

\* No two shared containers have the same one.
InnersDiffer(h) ==
  \A x, y \in Indices(h) :
    IsShared(h, x) /\ IsShared(h, y) /\ Object(h, x).inner = Object(h, y).inner => x = y

\* Any other container is held by one entry of one bitmap or by a shared one.
PlainsSound(h, R, O) ==
  \A x \in Indices(h) : IsPlain(h, x) =>
    /\ x \notin R \/ x \notin O
    /\ x \in R \cup O \/ \E y \in Indices(h) : IsShared(h, y) /\ Object(h, y).inner = x

\* The heap between two calls, when the entries of the one bitmap hold the objects R
\* and those of the other one O.
Sound(h, R, O) ==
  /\ h \in Heaps
  /\ Pointed(h, R, O)
  /\ WrappersSound(h, R, O)
  /\ InnersDiffer(h)
  /\ PlainsSound(h, R, O)

\* An object is as it was, to those who hold it.
Same(h, g, x) == /\ Object(g, x).type = Object(h, x).type
                 /\ Values(g, x) = Values(h, x)
-----------------------------------------------------------------------------
(* Objects.                                                                *)

\* An object is a container, a shared one or a freed one, as its type says.
LEMMA ObjectFacts ==
  ASSUME NEW o \in Objects
  PROVE  /\ o \in PlainObjects <=> o.type \in PlainTypes
         /\ o \in SharedObjects <=> o.type = "shared"
         /\ o = Freed <=> o.type = "freed"
         /\ o \in PlainObjects => o \notin SharedObjects /\ o # Freed /\ o.type # "shared"
         /\ o \in SharedObjects => o # Freed /\ o.type = "shared"
<1>1. CASE o \in PlainObjects
  <2>1. o.type \in PlainTypes
    BY <1>1 DEF PlainObjects
  <2>2. o.type # "shared" /\ o.type # "freed"
    BY <2>1 DEF PlainTypes
  <2>3. o \notin SharedObjects
    BY <2>2 DEF SharedObjects
  <2>4. o # Freed
    BY <2>2 DEF Freed
  <2> QED
    BY <1>1, <2>1, <2>2, <2>3, <2>4
<1>2. CASE o \in SharedObjects
  <2>1. o.type = "shared"
    BY <1>2 DEF SharedObjects
  <2>2. o.type \notin PlainTypes /\ o.type # "freed"
    BY <2>1 DEF PlainTypes
  <2>3. o \notin PlainObjects
    BY <2>2 DEF PlainObjects
  <2>4. o # Freed
    BY <2>2 DEF Freed
  <2> QED
    BY <1>2, <2>1, <2>2, <2>3, <2>4
<1>3. CASE o = Freed
  <2>1. o.type = "freed"
    BY <1>3 DEF Freed
  <2>2. o.type # "shared" /\ o.type \notin PlainTypes
    BY <2>1 DEF PlainTypes
  <2>3. o \notin PlainObjects /\ o \notin SharedObjects
    BY <2>1, <2>2 DEF PlainObjects, SharedObjects
  <2> QED
    BY <1>3, <2>1, <2>2, <2>3
<1> QED
  BY <1>1, <1>2, <1>3 DEF Objects

\* A heap has objects.
LEMMA HeapFacts ==
  ASSUME NEW h \in Heaps
  PROVE  /\ h.objs \in Seq(Objects) /\ ~h.touched /\ Len(h.objs) \in Nat
         /\ DOMAIN h.objs = Indices(h) /\ Indices(h) \subseteq Nat
         /\ \A x \in Indices(h) : Object(h, x) \in Objects /\ x # NullRef
<1>1. h.objs \in Seq(Objects) /\ ~h.touched
  BY DEF Heaps
<1>2. Len(h.objs) \in Nat /\ DOMAIN h.objs = 1..Len(h.objs) /\ \A x \in 1..Len(h.objs) : h.objs[x] \in Objects
  BY <1>1
<1> QED
  BY <1>1, <1>2 DEF Indices, Object, NullRef

\* Objects that are not freed are alive.
LEMMA AliveFacts ==
  ASSUME NEW h \in Heaps, NEW x
  PROVE  /\ IsPlain(h, x) => /\ Alive(h, x) /\ ~IsShared(h, x) /\ Object(h, x).type # "shared"
                             /\ Object(h, x).type \in PlainTypes /\ Object(h, x).set \in SUBSET Lows
                             /\ Values(h, x) = Object(h, x).set
         /\ IsShared(h, x) => Alive(h, x) /\ ~IsPlain(h, x) /\ Object(h, x).type = "shared"
         /\ x \in Indices(h) => (Alive(h, x) <=> IsPlain(h, x) \/ IsShared(h, x))
         /\ IsShared(h, x) => /\ Object(h, x).inner \in Nat /\ Object(h, x).counter \in Nat
                              /\ Object(h, x).typecode \in PlainTypes
<1>1. ASSUME x \in Indices(h) PROVE Object(h, x) \in Objects /\ x # NullRef
  BY <1>1, HeapFacts
<1>2. ASSUME IsPlain(h, x)
      PROVE  /\ Alive(h, x) /\ ~IsShared(h, x) /\ Object(h, x).type # "shared"
             /\ Object(h, x).type \in PlainTypes /\ Object(h, x).set \in SUBSET Lows
  <2>1. x \in Indices(h) /\ Object(h, x) \in PlainObjects
    BY <1>2 DEF IsPlain
  <2>2. Object(h, x) # Freed /\ Object(h, x) \notin SharedObjects /\ Object(h, x).type # "shared"
    BY <2>1, <1>1, ObjectFacts
  <2>3. Object(h, x).type \in PlainTypes /\ Object(h, x).set \in SUBSET Lows
    BY <2>1 DEF PlainObjects
  <2> QED
    BY <1>1, <2>1, <2>2, <2>3 DEF Alive, IsShared
<1>3. ASSUME IsShared(h, x)
      PROVE  /\ Alive(h, x) /\ ~IsPlain(h, x) /\ Object(h, x).type = "shared"
             /\ Object(h, x).inner \in Nat /\ Object(h, x).counter \in Nat
             /\ Object(h, x).typecode \in PlainTypes
  <2>1. x \in Indices(h) /\ Object(h, x) \in SharedObjects
    BY <1>3 DEF IsShared
  <2>2. Object(h, x) # Freed /\ Object(h, x) \notin PlainObjects /\ Object(h, x).type = "shared"
    BY <2>1, <1>1, ObjectFacts
  <2>3. /\ Object(h, x).inner \in Nat /\ Object(h, x).counter \in Nat
        /\ Object(h, x).typecode \in PlainTypes
    BY <2>1 DEF SharedObjects
  <2> QED
    BY <1>1, <2>1, <2>2, <2>3 DEF Alive, IsPlain
<1>4. ASSUME x \in Indices(h), Alive(h, x) PROVE IsPlain(h, x) \/ IsShared(h, x)
  <2>1. Object(h, x) \in Objects /\ Object(h, x) # Freed
    BY <1>1, <1>4 DEF Alive
  <2> QED
    BY <1>4, <2>1 DEF Objects, IsPlain, IsShared
<1>5. IsPlain(h, x) => Values(h, x) = Object(h, x).set
  BY <1>2 DEF Values
<1> QED
  BY <1>2, <1>3, <1>4, <1>5

\* What a shared container reaches.
LEMMA ValuesShared ==
  ASSUME NEW h \in Heaps, NEW x, IsShared(h, x), IsPlain(h, Object(h, x).inner)
  PROVE  Values(h, x) = Object(h, Object(h, x).inner).set
<1>1. Alive(h, x) /\ Object(h, x).type = "shared"
  BY AliveFacts
<1>2. Alive(h, Object(h, x).inner)
  BY AliveFacts
<1> QED
  BY <1>1, <1>2 DEF Values

\* A new object comes behind the others.
LEMMA NewFacts ==
  ASSUME NEW h \in Heaps, NEW obj \in Objects
  PROVE  LET n == New(h, obj).ref
             g == New(h, obj).h
         IN  /\ n \notin Indices(h) /\ n \in Nat
             /\ g \in Heaps /\ Indices(g) = Indices(h) \cup {n}
             /\ Object(g, n) = obj
             /\ \A x \in Indices(h) : Object(g, x) = Object(h, x)
<1> DEFINE n == New(h, obj).ref
           g == New(h, obj).h
           objs == Append(h.objs, obj)
<1>1. h.objs \in Seq(Objects) /\ h \in [objs : Seq(Objects), touched : BOOLEAN] /\ ~h.touched
  BY DEF Heaps
<1>2. n = Len(h.objs) + 1 /\ g = [h EXCEPT !.objs = objs]
  BY DEF New
<1>3. /\ objs \in Seq(Objects) /\ Len(objs) = Len(h.objs) + 1 /\ objs[Len(h.objs) + 1] = obj
      /\ \A x \in 1..Len(h.objs) : objs[x] = h.objs[x]
  BY <1>1
<1> HIDE DEF objs, n, g
<1>4. g \in [objs : Seq(Objects), touched : BOOLEAN] /\ g.objs = objs /\ g.touched = h.touched
  BY <1>1, <1>2, <1>3
<1>5. g \in Heaps
  BY <1>1, <1>4 DEF Heaps
<1>6. n \notin Indices(h) /\ n \in Nat /\ Indices(g) = Indices(h) \cup {n}
  BY <1>1, <1>2, <1>3, <1>4 DEF Indices
<1>7. Object(g, n) = obj /\ \A x \in Indices(h) : Object(g, x) = Object(h, x)
  BY <1>2, <1>3, <1>4 DEF Object, Indices
<1> QED
  BY <1>5, <1>6, <1>7 DEF n, g

\* An object takes the place of one that is alive.
LEMMA WriteFacts ==
  ASSUME NEW h \in Heaps, NEW r \in Indices(h), Alive(h, r), NEW obj \in Objects
  PROVE  LET g == Write(h, r, obj)
         IN  /\ g \in Heaps /\ Indices(g) = Indices(h)
             /\ Object(g, r) = obj
             /\ \A x \in Indices(h) : x # r => Object(g, x) = Object(h, x)
<1> DEFINE g == Write(h, r, obj)
           objs == [h.objs EXCEPT ![r] = obj]
<1>1. h.objs \in Seq(Objects) /\ h \in [objs : Seq(Objects), touched : BOOLEAN] /\ ~h.touched
  BY DEF Heaps
<1>2. g = [h EXCEPT !.objs = objs]
  BY DEF Write
<1>3. r \in 1..Len(h.objs)
  BY DEF Indices
<1>4. /\ objs \in Seq(Objects) /\ Len(objs) = Len(h.objs) /\ objs[r] = obj
      /\ \A x \in 1..Len(h.objs) : x # r => objs[x] = h.objs[x]
  BY <1>1, <1>3
<1> HIDE DEF objs, g
<1>5. g \in [objs : Seq(Objects), touched : BOOLEAN] /\ g.objs = objs /\ g.touched = h.touched
  BY <1>1, <1>2, <1>4
<1>6. g \in Heaps
  BY <1>1, <1>5 DEF Heaps
<1>7. Indices(g) = Indices(h)
  BY <1>4, <1>5 DEF Indices
<1>8. Object(g, r) = obj /\ \A x \in Indices(h) : x # r => Object(g, x) = Object(h, x)
  BY <1>4, <1>5 DEF Object, Indices
<1> QED
  BY <1>6, <1>7, <1>8 DEF g

-----------------------------------------------------------------------------
(* The heap between calls.                                                 *)

\* What soundness says of one object.
LEMMA SoundFacts ==
  ASSUME NEW h, NEW R, NEW O, Sound(h, R, O), NEW x
  PROVE  /\ h \in Heaps
         /\ x \in R \cup O => (IsPlain(h, x) \/ IsShared(h, x)) /\ x \in Indices(h)
         /\ IsShared(h, x) =>
              /\ x \in Indices(h) /\ x \in R \cup O
              /\ IsPlain(h, Object(h, x).inner) /\ Object(h, x).inner \in Indices(h)
              /\ Object(h, Object(h, x).inner).type = Object(h, x).typecode
              /\ Object(h, x).inner \notin R \cup O
              /\ Object(h, x).inner # x
              /\ x \in R /\ x \in O => Object(h, x).counter = 2
              /\ x \notin R \/ x \notin O => Object(h, x).counter = 1
         /\ IsPlain(h, x) =>
              /\ x \in Indices(h) /\ (x \notin R \/ x \notin O)
              /\ x \in R \cup O \/ \E y \in Indices(h) : IsShared(h, y) /\ Object(h, y).inner = x
<1>1. h \in Heaps /\ Pointed(h, R, O) /\ WrappersSound(h, R, O) /\ PlainsSound(h, R, O)
  BY DEF Sound
<1>2. (IsPlain(h, x) \/ IsShared(h, x)) => x \in Indices(h)
  BY DEF IsPlain, IsShared
<1>3. x \in R \cup O => (IsPlain(h, x) \/ IsShared(h, x)) /\ x \in Indices(h)
  BY <1>1, <1>2 DEF Pointed
<1>4. ASSUME IsShared(h, x)
      PROVE  /\ x \in Indices(h) /\ x \in R \cup O
             /\ IsPlain(h, Object(h, x).inner) /\ Object(h, x).inner \in Indices(h)
             /\ Object(h, Object(h, x).inner).type = Object(h, x).typecode
             /\ Object(h, x).inner \notin R \cup O
             /\ Object(h, x).inner # x
             /\ x \in R /\ x \in O => Object(h, x).counter = 2
             /\ x \notin R \/ x \notin O => Object(h, x).counter = 1
  <2>1. /\ x \in R \cup O /\ IsPlain(h, Object(h, x).inner)
        /\ Object(h, Object(h, x).inner).type = Object(h, x).typecode
        /\ Object(h, x).inner \notin R \cup O
        /\ Object(h, x).counter = IF x \in R /\ x \in O THEN 2 ELSE 1
    BY <1>1, <1>2, <1>4 DEF WrappersSound
  <2>2. Object(h, x).inner \in Indices(h)
    BY <2>1 DEF IsPlain
  <2> QED
    BY <1>2, <1>4, <2>1, <2>2
<1>5. ASSUME IsPlain(h, x)
      PROVE  /\ x \in Indices(h) /\ (x \notin R \/ x \notin O)
             /\ x \in R \cup O \/ \E y \in Indices(h) : IsShared(h, y) /\ Object(h, y).inner = x
  BY <1>1, <1>2, <1>5 DEF PlainsSound
<1> QED
  BY <1>1, <1>3, <1>4, <1>5

\* Soundness does not depend on which bitmap is called the first.
LEMMA Swapped ==
  ASSUME NEW h, NEW R, NEW O, Sound(h, R, O)
  PROVE  Sound(h, O, R)
<1>1. Pointed(h, O, R)
  BY DEF Sound, Pointed
<1>2. WrappersSound(h, O, R)
  BY DEF Sound, WrappersSound
<1>3. PlainsSound(h, O, R)
  BY DEF Sound, PlainsSound
<1> QED
  BY <1>1, <1>2, <1>3 DEF Sound

\* An object that is as it was keeps its kind.
LEMMA KindKept ==
  ASSUME NEW h, NEW g, NEW x, x \in Indices(h), x \in Indices(g), Object(g, x) = Object(h, x)
  PROVE  (IsPlain(g, x) <=> IsPlain(h, x)) /\ (IsShared(g, x) <=> IsShared(h, x))
BY DEF IsPlain, IsShared

\* An object that is as it was is the same to those who hold it, when the container it
\* shares is as it was.
LEMMA SameKept ==
  ASSUME NEW h \in Heaps, NEW g \in Heaps, NEW x,
         \/ IsPlain(h, x) /\ IsPlain(g, x) /\ Object(g, x) = Object(h, x)
         \/ /\ IsShared(h, x) /\ IsShared(g, x) /\ Object(g, x).inner = Object(h, x).inner
            /\ IsPlain(h, Object(h, x).inner) /\ IsPlain(g, Object(h, x).inner)
            /\ Object(g, Object(h, x).inner) = Object(h, Object(h, x).inner)
  PROVE  Same(h, g, x)
<1>1. CASE IsPlain(h, x) /\ IsPlain(g, x) /\ Object(g, x) = Object(h, x)
  BY <1>1, AliveFacts DEF Same
<1>2. CASE /\ IsShared(h, x) /\ IsShared(g, x) /\ Object(g, x).inner = Object(h, x).inner
           /\ IsPlain(h, Object(h, x).inner) /\ IsPlain(g, Object(h, x).inner)
           /\ Object(g, Object(h, x).inner) = Object(h, Object(h, x).inner)
  <2>1. Values(h, x) = Object(h, Object(h, x).inner).set
    BY <1>2, ValuesShared
  <2>2. Values(g, x) = Object(g, Object(g, x).inner).set
    BY <1>2, ValuesShared
  <2>3. Object(h, x).type = "shared" /\ Object(g, x).type = "shared"
    BY <1>2, AliveFacts
  <2> QED
    BY <1>2, <2>1, <2>2, <2>3 DEF Same
<1> QED
  BY <1>1, <1>2

\* The first bitmap gets a new container.
LEMMA Created ==
  ASSUME NEW h, NEW R, NEW O, Sound(h, R, O), NEW obj \in PlainObjects
  PROVE  LET n == New(h, obj).ref
             g == New(h, obj).h
         IN  /\ n \notin Indices(h) /\ n \notin R \cup O
             /\ Sound(g, R \cup {n}, O)
             /\ IsPlain(g, n) /\ Object(g, n) = obj
             /\ \A x \in Indices(h) : x \in Indices(g) /\ Object(g, x) = Object(h, x)
             /\ \A x \in R \cup O : Same(h, g, x)
<1> DEFINE n == New(h, obj).ref
           g == New(h, obj).h
<1>1. h \in Heaps /\ obj \in Objects
  BY DEF Sound, Objects
<1>2. /\ n \notin Indices(h) /\ n \in Nat
      /\ g \in Heaps /\ Indices(g) = Indices(h) \cup {n}
      /\ Object(g, n) = obj
      /\ \A x \in Indices(h) : Object(g, x) = Object(h, x)
  BY <1>1, NewFacts
<1> HIDE DEF n, g
<1>3. \A x \in Indices(h) : /\ IsPlain(g, x) <=> IsPlain(h, x)
                            /\ IsShared(g, x) <=> IsShared(h, x)
  BY <1>2, KindKept
<1>4. IsPlain(g, n) /\ ~IsShared(g, n)
  <2>1. IsPlain(g, n)
    BY <1>2 DEF IsPlain
  <2> QED
    BY <1>2, <2>1, AliveFacts
<1>5. \A x \in R \cup O : x \in Indices(h) /\ (IsPlain(h, x) \/ IsShared(h, x))
  BY SoundFacts
<1>6. n \notin R \cup O
  BY <1>2, <1>5
<1>7. Pointed(g, R \cup {n}, O)
  BY <1>3, <1>4, <1>5 DEF Pointed
<1>8. WrappersSound(g, R \cup {n}, O)
  <2>1. SUFFICES ASSUME NEW x \in Indices(g), IsShared(g, x)
                 PROVE  /\ x \in (R \cup {n}) \cup O
                        /\ IsPlain(g, Object(g, x).inner)
                        /\ Object(g, Object(g, x).inner).type = Object(g, x).typecode
                        /\ Object(g, x).inner \notin (R \cup {n}) \cup O
                        /\ Object(g, x).counter = IF x \in R \cup {n} /\ x \in O THEN 2 ELSE 1
    BY DEF WrappersSound
  <2>2. x \in Indices(h) /\ IsShared(h, x) /\ Object(g, x) = Object(h, x) /\ x # n
    BY <1>2, <1>3, <1>4, <2>1
  <2>3. /\ x \in R \cup O
        /\ IsPlain(h, Object(h, x).inner) /\ Object(h, x).inner \in Indices(h)
        /\ Object(h, Object(h, x).inner).type = Object(h, x).typecode
        /\ Object(h, x).inner \notin R \cup O
        /\ x \in R /\ x \in O => Object(h, x).counter = 2
        /\ x \notin R \/ x \notin O => Object(h, x).counter = 1
    BY <2>2, SoundFacts
  <2>4. Object(h, x).inner # n
    BY <1>2, <2>3
  <2>5. /\ IsPlain(g, Object(h, x).inner)
        /\ Object(g, Object(h, x).inner) = Object(h, Object(h, x).inner)
    BY <1>2, <1>3, <2>3
  <2> QED
    BY <2>2, <2>3, <2>4, <2>5
<1>9. InnersDiffer(g)
  <2>1. SUFFICES ASSUME NEW x \in Indices(g), NEW y \in Indices(g), IsShared(g, x), IsShared(g, y),
                        Object(g, x).inner = Object(g, y).inner
                 PROVE  x = y
    BY DEF InnersDiffer
  <2>2. /\ x \in Indices(h) /\ IsShared(h, x) /\ Object(g, x) = Object(h, x)
        /\ y \in Indices(h) /\ IsShared(h, y) /\ Object(g, y) = Object(h, y)
    BY <1>2, <1>3, <1>4, <2>1
  <2> QED
    BY <2>1, <2>2 DEF Sound, InnersDiffer
<1>10. PlainsSound(g, R \cup {n}, O)
  <2>1. SUFFICES ASSUME NEW x \in Indices(g), IsPlain(g, x)
                 PROVE  /\ x \notin R \cup {n} \/ x \notin O
                        /\ \/ x \in (R \cup {n}) \cup O
                           \/ \E y \in Indices(g) : IsShared(g, y) /\ Object(g, y).inner = x
    BY DEF PlainsSound
  <2>2. CASE x = n
    BY <1>6, <2>2
  <2>3. CASE x # n
    <3>1. x \in Indices(h) /\ IsPlain(h, x)
      BY <1>2, <1>3, <2>1, <2>3
    <3>2. /\ x \notin R \/ x \notin O
          /\ x \in R \cup O \/ \E y \in Indices(h) : IsShared(h, y) /\ Object(h, y).inner = x
      BY <3>1, SoundFacts
    <3> QED
      BY <1>2, <1>3, <2>3, <3>2
  <2> QED
    BY <2>2, <2>3
<1>11. ASSUME NEW x \in R \cup O PROVE Same(h, g, x)
  <2>1. x \in Indices(h) /\ (IsPlain(h, x) \/ IsShared(h, x)) /\ Object(g, x) = Object(h, x)
    BY <1>2, <1>5
  <2>2. CASE IsPlain(h, x)
    BY <1>1, <1>2, <1>3, <2>1, <2>2, SameKept
  <2>3. CASE IsShared(h, x)
    <3>1. IsPlain(h, Object(h, x).inner) /\ Object(h, x).inner \in Indices(h)
      BY <2>3, SoundFacts
    <3>2. /\ IsPlain(g, Object(h, x).inner)
          /\ Object(g, Object(h, x).inner) = Object(h, Object(h, x).inner)
      BY <1>2, <1>3, <3>1
    <3> QED
      BY <1>1, <1>2, <1>3, <2>1, <2>3, <3>1, <3>2, SameKept
  <2> QED
    BY <2>1, <2>2, <2>3
<1>12. Sound(g, R \cup {n}, O)
  BY <1>2, <1>7, <1>8, <1>9, <1>10 DEF Sound
<1>13. \A x \in Indices(h) : x \in Indices(g) /\ Object(g, x) = Object(h, x)
  BY <1>2
<1> QED
  BY <1>2, <1>4, <1>6, <1>11, <1>12, <1>13 DEF n, g

\* Those who hold a shared container see no change but of its own kind.
LEMMA SameOthers ==
  ASSUME NEW h, NEW R, NEW O, Sound(h, R, O), NEW g \in Heaps, NEW x \in R \cup O,
         IsPlain(h, x) => IsPlain(g, x) /\ Object(g, x) = Object(h, x),
         IsShared(h, x) => /\ IsShared(g, x) /\ Object(g, x).inner = Object(h, x).inner
                           /\ IsPlain(g, Object(h, x).inner)
                           /\ Object(g, Object(h, x).inner) = Object(h, Object(h, x).inner)
  PROVE  Same(h, g, x)
<1>1. h \in Heaps /\ (IsPlain(h, x) \/ IsShared(h, x))
  BY SoundFacts
<1>2. IsShared(h, x) => IsPlain(h, Object(h, x).inner)
  BY SoundFacts
<1> QED
  BY <1>1, <1>2, SameKept

\* A container of the first bitmap alone is written.
LEMMA Written ==
  ASSUME NEW h, NEW R, NEW O, Sound(h, R, O), NEW r \in R, IsPlain(h, r),
         NEW obj \in PlainObjects
  PROVE  LET g == Write(h, r, obj)
         IN  /\ Sound(g, R, O)
             /\ IsPlain(g, r) /\ Object(g, r) = obj
             /\ \A x \in (R \cup O) \ {r} : Same(h, g, x)
<1> DEFINE g == Write(h, r, obj)
<1>1. h \in Heaps /\ obj \in Objects
  BY DEF Sound, Objects
<1>2. r \in Indices(h) /\ Alive(h, r) /\ r \notin O
  BY <1>1, SoundFacts, AliveFacts
<1>3. /\ g \in Heaps /\ Indices(g) = Indices(h)
      /\ Object(g, r) = obj
      /\ \A x \in Indices(h) : x # r => Object(g, x) = Object(h, x)
  BY <1>1, <1>2, WriteFacts
<1> HIDE DEF g
<1>4. IsPlain(g, r) /\ ~IsShared(g, r) /\ ~IsShared(h, r)
  <2>1. IsPlain(g, r)
    BY <1>2, <1>3 DEF IsPlain
  <2> QED
    BY <1>1, <1>3, <2>1, AliveFacts
<1>5. \A x \in Indices(h) : /\ IsPlain(g, x) <=> IsPlain(h, x)
                            /\ IsShared(g, x) <=> IsShared(h, x)
  <2>1. SUFFICES ASSUME NEW x \in Indices(h)
                 PROVE  /\ IsPlain(g, x) <=> IsPlain(h, x)
                        /\ IsShared(g, x) <=> IsShared(h, x)
    OBVIOUS
  <2>2. CASE x = r
    BY <1>4, <2>2
  <2>3. CASE x # r
    BY <1>3, <2>3, KindKept
  <2> QED
    BY <2>2, <2>3
<1>6. Pointed(g, R, O)
  BY <1>5, SoundFacts DEF Pointed
<1>7. ASSUME NEW x, IsShared(h, x)
      PROVE  /\ x \in Indices(h) /\ x # r /\ Object(g, x) = Object(h, x)
             /\ Object(h, x).inner # r
             /\ IsPlain(g, Object(h, x).inner)
             /\ Object(g, Object(h, x).inner) = Object(h, Object(h, x).inner)
  <2>1. /\ x \in Indices(h) /\ IsPlain(h, Object(h, x).inner) /\ Object(h, x).inner \in Indices(h)
        /\ Object(h, x).inner \notin R \cup O
    BY <1>7, SoundFacts
  <2>2. x # r /\ Object(h, x).inner # r
    BY <1>4, <1>7, <2>1
  <2> QED
    BY <1>3, <1>5, <2>1, <2>2
<1>8. WrappersSound(g, R, O)
  <2>1. SUFFICES ASSUME NEW x \in Indices(g), IsShared(g, x)
                 PROVE  /\ x \in R \cup O
                        /\ IsPlain(g, Object(g, x).inner)
                        /\ Object(g, Object(g, x).inner).type = Object(g, x).typecode
                        /\ Object(g, x).inner \notin R \cup O
                        /\ Object(g, x).counter = IF x \in R /\ x \in O THEN 2 ELSE 1
    BY DEF WrappersSound
  <2>2. x \in Indices(h) /\ IsShared(h, x)
    BY <1>3, <1>5, <2>1
  <2> QED
    BY <1>7, <2>2, SoundFacts
<1>9. InnersDiffer(g)
  <2>1. \A x \in Indices(g) : IsShared(g, x) => IsShared(h, x) /\ Object(g, x) = Object(h, x)
    BY <1>3, <1>5, <1>7
  <2> QED
    BY <1>3, <2>1 DEF InnersDiffer, Sound
<1>10. PlainsSound(g, R, O)
  <2>1. SUFFICES ASSUME NEW x \in Indices(g), IsPlain(g, x)
                 PROVE  /\ x \notin R \/ x \notin O
                        /\ \/ x \in R \cup O
                           \/ \E y \in Indices(g) : IsShared(g, y) /\ Object(g, y).inner = x
    BY DEF PlainsSound
  <2>2. IsPlain(h, x)
    BY <1>3, <1>5, <2>1
  <2> QED
    BY <1>3, <1>5, <1>7, <2>2, SoundFacts
<1>11. ASSUME NEW x \in (R \cup O) \ {r} PROVE Same(h, g, x)
  <2>1. x \in Indices(h) /\ x # r /\ Object(g, x) = Object(h, x)
    BY <1>3, SoundFacts
  <2> QED
    BY <1>3, <1>5, <1>7, <2>1, SameOthers
<1> QED
  BY <1>3, <1>4, <1>6, <1>8, <1>9, <1>10, <1>11 DEF g, Sound

\* A container of the first bitmap alone is freed.
LEMMA FreedPlain ==
  ASSUME NEW h, NEW R, NEW O, Sound(h, R, O), NEW r \in R, IsPlain(h, r)
  PROVE  LET g == Write(h, r, Freed)
         IN  /\ Sound(g, R \ {r}, O)
             /\ \A x \in (R \ {r}) \cup O : Same(h, g, x)
<1> DEFINE g == Write(h, r, Freed)
<1>1. h \in Heaps /\ Freed \in Objects
  BY DEF Sound, Objects
<1>2. r \in Indices(h) /\ Alive(h, r) /\ r \notin O /\ ~IsShared(h, r)
  BY <1>1, SoundFacts, AliveFacts
<1>3. /\ g \in Heaps /\ Indices(g) = Indices(h)
      /\ Object(g, r) = Freed
      /\ \A x \in Indices(h) : x # r => Object(g, x) = Object(h, x)
  BY <1>1, <1>2, WriteFacts
<1> HIDE DEF g
<1>4. ~IsPlain(g, r) /\ ~IsShared(g, r)
  BY <1>1, <1>3, AliveFacts DEF Alive
<1>5. \A x \in Indices(h) : x # r => /\ IsPlain(g, x) <=> IsPlain(h, x)
                                     /\ IsShared(g, x) <=> IsShared(h, x)
  BY <1>3, KindKept
<1>6. Pointed(g, R \ {r}, O)
  <2>1. \A x \in (R \ {r}) \cup O : x \in Indices(h) /\ x # r /\ (IsPlain(h, x) \/ IsShared(h, x))
    BY <1>2, SoundFacts
  <2> QED
    BY <1>5, <2>1 DEF Pointed
<1>7. ASSUME NEW x, IsShared(h, x)
      PROVE  /\ x \in Indices(h) /\ x # r /\ Object(g, x) = Object(h, x)
             /\ Object(h, x).inner # r
             /\ IsPlain(g, Object(h, x).inner)
             /\ Object(g, Object(h, x).inner) = Object(h, Object(h, x).inner)
  <2>1. /\ x \in Indices(h) /\ IsPlain(h, Object(h, x).inner) /\ Object(h, x).inner \in Indices(h)
        /\ Object(h, x).inner \notin R \cup O
    BY <1>7, SoundFacts
  <2>2. x # r /\ Object(h, x).inner # r
    BY <1>2, <1>7, <2>1
  <2> QED
    BY <1>3, <1>5, <2>1, <2>2
<1>8. WrappersSound(g, R \ {r}, O)
  <2>1. SUFFICES ASSUME NEW x \in Indices(g), IsShared(g, x)
                 PROVE  /\ x \in (R \ {r}) \cup O
                        /\ IsPlain(g, Object(g, x).inner)
                        /\ Object(g, Object(g, x).inner).type = Object(g, x).typecode
                        /\ Object(g, x).inner \notin (R \ {r}) \cup O
                        /\ Object(g, x).counter = IF x \in R \ {r} /\ x \in O THEN 2 ELSE 1
    BY DEF WrappersSound
  <2>2. x \in Indices(h) /\ IsShared(h, x) /\ x # r
    BY <1>3, <1>4, <1>5, <2>1
  <2> QED
    BY <1>7, <2>2, SoundFacts
<1>9. InnersDiffer(g)
  <2>1. \A x \in Indices(g) : IsShared(g, x) => IsShared(h, x) /\ Object(g, x) = Object(h, x)
    BY <1>3, <1>4, <1>5, <1>7
  <2> QED
    BY <1>3, <2>1 DEF InnersDiffer, Sound
<1>10. PlainsSound(g, R \ {r}, O)
  <2>1. SUFFICES ASSUME NEW x \in Indices(g), IsPlain(g, x)
                 PROVE  /\ x \notin R \ {r} \/ x \notin O
                        /\ \/ x \in (R \ {r}) \cup O
                           \/ \E y \in Indices(g) : IsShared(g, y) /\ Object(g, y).inner = x
    BY DEF PlainsSound
  <2>2. IsPlain(h, x) /\ x # r
    BY <1>3, <1>4, <1>5, <2>1
  <2> QED
    BY <1>3, <1>5, <1>7, <2>2, SoundFacts
<1>11. ASSUME NEW x \in (R \ {r}) \cup O PROVE Same(h, g, x)
  <2>1. x \in Indices(h) /\ x # r /\ Object(g, x) = Object(h, x) /\ x \in R \cup O
    BY <1>2, <1>3, SoundFacts
  <2> QED
    BY <1>3, <1>5, <1>7, <2>1, SameOthers
<1> QED
  BY <1>3, <1>6, <1>8, <1>9, <1>10, <1>11 DEF g, Sound

\* The count of a shared container goes with the number of bitmaps that hold it.
LEMMA Recounted ==
  ASSUME NEW h, NEW R, NEW O, Sound(h, R, O), NEW r, IsShared(h, r),
         NEW c \in Nat, NEW S, S \ {r} = R \ {r}, r \in S \cup O,
         c = IF r \in S /\ r \in O THEN 2 ELSE 1
  PROVE  LET g == Write(h, r, [Object(h, r) EXCEPT !.counter = c])
         IN  /\ Sound(g, S, O)
             /\ \A x \in R \cup O : Same(h, g, x)
<1> DEFINE obj == [Object(h, r) EXCEPT !.counter = c]
           g == Write(h, r, obj)
<1>1. h \in Heaps /\ r \in Indices(h) /\ Alive(h, r) /\ Object(h, r) \in SharedObjects /\ r \in R \cup O
  BY SoundFacts, AliveFacts DEF IsShared
<1>2. /\ obj \in SharedObjects /\ obj.inner = Object(h, r).inner /\ obj.typecode = Object(h, r).typecode
      /\ obj.counter = c
  BY <1>1 DEF SharedObjects
<1>3. obj \in Objects
  BY <1>2 DEF Objects
<1> HIDE DEF obj
<1>4. /\ g \in Heaps /\ Indices(g) = Indices(h)
      /\ Object(g, r) = obj
      /\ \A x \in Indices(h) : x # r => Object(g, x) = Object(h, x)
  BY <1>1, <1>3, WriteFacts
<1> HIDE DEF g
<1>5. IsShared(g, r) /\ ~IsPlain(g, r) /\ ~IsPlain(h, r)
  <2>1. IsShared(g, r)
    BY <1>1, <1>2, <1>4 DEF IsShared
  <2> QED
    BY <1>1, <1>4, <2>1, AliveFacts
<1>6. \A x \in Indices(h) : /\ IsPlain(g, x) <=> IsPlain(h, x)
                            /\ IsShared(g, x) <=> IsShared(h, x)
  <2>1. SUFFICES ASSUME NEW x \in Indices(h)
                 PROVE  /\ IsPlain(g, x) <=> IsPlain(h, x)
                        /\ IsShared(g, x) <=> IsShared(h, x)
    OBVIOUS
  <2>2. CASE x = r
    BY <1>5, <2>2
  <2>3. CASE x # r
    BY <1>4, <2>3, KindKept
  <2> QED
    BY <2>2, <2>3
<1>7. \A x : x # r => (x \in S <=> x \in R)
  OBVIOUS
<1>8. S \cup O = R \cup O
  BY <1>1, <1>7
<1>9. Pointed(g, S, O)
  BY <1>6, <1>8, SoundFacts DEF Pointed
<1>10. ASSUME NEW x, IsShared(h, x)
       PROVE  /\ x \in Indices(h)
              /\ Object(g, x).inner = Object(h, x).inner /\ Object(g, x).typecode = Object(h, x).typecode
              /\ Object(h, x).inner # r
              /\ IsPlain(g, Object(h, x).inner)
              /\ Object(g, Object(h, x).inner) = Object(h, Object(h, x).inner)
  <2>1. /\ x \in Indices(h) /\ IsPlain(h, Object(h, x).inner) /\ Object(h, x).inner \in Indices(h)
    BY <1>10, SoundFacts
  <2>2. Object(h, x).inner # r
    BY <1>5, <2>1
  <2>3. Object(g, x).inner = Object(h, x).inner /\ Object(g, x).typecode = Object(h, x).typecode
    BY <1>2, <1>4, <2>1
  <2> QED
    BY <1>4, <1>6, <2>1, <2>2, <2>3
<1>11. WrappersSound(g, S, O)
  <2>1. SUFFICES ASSUME NEW x \in Indices(g), IsShared(g, x)
                 PROVE  /\ x \in S \cup O
                        /\ IsPlain(g, Object(g, x).inner)
                        /\ Object(g, Object(g, x).inner).type = Object(g, x).typecode
                        /\ Object(g, x).inner \notin S \cup O
                        /\ Object(g, x).counter = IF x \in S /\ x \in O THEN 2 ELSE 1
    BY DEF WrappersSound
  <2>2. x \in Indices(h) /\ IsShared(h, x)
    BY <1>4, <1>6, <2>1
  <2>3. Object(g, x).counter = IF x \in S /\ x \in O THEN 2 ELSE 1
    <3>1. CASE x = r
      BY <1>2, <1>4, <3>1
    <3>2. CASE x # r
      BY <1>4, <1>7, <2>2, <3>2, SoundFacts
    <3> QED
      BY <3>1, <3>2
  <2> QED
    BY <1>8, <1>10, <2>2, <2>3, SoundFacts
<1>12. InnersDiffer(g)
  <2>1. \A x \in Indices(g) : IsShared(g, x) => IsShared(h, x) /\ Object(g, x).inner = Object(h, x).inner
    BY <1>4, <1>6, <1>10
  <2> QED
    BY <1>4, <2>1 DEF InnersDiffer, Sound
<1>13. PlainsSound(g, S, O)
  <2>1. SUFFICES ASSUME NEW x \in Indices(g), IsPlain(g, x)
                 PROVE  /\ x \notin S \/ x \notin O
                        /\ \/ x \in S \cup O
                           \/ \E y \in Indices(g) : IsShared(g, y) /\ Object(g, y).inner = x
    BY DEF PlainsSound
  <2>2. IsPlain(h, x) /\ x # r
    BY <1>4, <1>5, <1>6, <2>1
  <2>3. x \notin R \/ x \notin O
    BY <2>2, SoundFacts
  <2>4. x \in R \cup O \/ \E y \in Indices(h) : IsShared(h, y) /\ Object(h, y).inner = x
    BY <2>2, SoundFacts
  <2> QED
    BY <1>4, <1>6, <1>7, <1>8, <1>10, <2>2, <2>3, <2>4
<1>14. ASSUME NEW x \in R \cup O PROVE Same(h, g, x)
  <2>1. x \in Indices(h)
    BY SoundFacts
  <2>2. IsPlain(h, x) => x # r
    BY <1>5
  <2> QED
    BY <1>4, <1>6, <1>10, <2>1, <2>2, SameOthers
<1> QED
  BY <1>4, <1>9, <1>11, <1>12, <1>13, <1>14 DEF g, obj, Sound

\* The last holder of a shared container gets the container it shared.
LEMMA Unwrapped ==
  ASSUME NEW h, NEW R, NEW O, Sound(h, R, O), NEW r \in R, r \notin O, IsShared(h, r)
  PROVE  LET g == Write(h, r, Freed)
             i == Object(h, r).inner
         IN  /\ Sound(g, (R \ {r}) \cup {i}, O)
             /\ i \notin R \cup O /\ IsPlain(h, i)
             /\ IsPlain(g, i) /\ Object(g, i) = Object(h, i)
             /\ \A x \in (R \ {r}) \cup O : Same(h, g, x)
<1> DEFINE g == Write(h, r, Freed)
           i == Object(h, r).inner
           S == (R \ {r}) \cup {i}
<1>1. h \in Heaps /\ Freed \in Objects
  BY DEF Sound, Objects
<1>2. /\ r \in Indices(h) /\ Alive(h, r) /\ ~IsPlain(h, r)
      /\ IsPlain(h, i) /\ i \in Indices(h) /\ i \notin R \cup O /\ i # r /\ ~IsShared(h, i)
  BY <1>1, SoundFacts, AliveFacts
<1>3. /\ g \in Heaps /\ Indices(g) = Indices(h)
      /\ Object(g, r) = Freed
      /\ \A x \in Indices(h) : x # r => Object(g, x) = Object(h, x)
  BY <1>1, <1>2, WriteFacts
<1> HIDE DEF g
<1>4. ~IsPlain(g, r) /\ ~IsShared(g, r)
  BY <1>1, <1>3, AliveFacts DEF Alive
<1>5. \A x \in Indices(h) : x # r => /\ IsPlain(g, x) <=> IsPlain(h, x)
                                     /\ IsShared(g, x) <=> IsShared(h, x)
  BY <1>3, KindKept
<1>6. IsPlain(g, i) /\ Object(g, i) = Object(h, i)
  BY <1>2, <1>3, <1>5
<1>7. Pointed(g, S, O)
  <2>1. \A x \in (R \ {r}) \cup O : x \in Indices(h) /\ x # r /\ (IsPlain(h, x) \/ IsShared(h, x))
    BY SoundFacts
  <2>2. \A x \in S \cup O : x = i \/ x \in (R \ {r}) \cup O
    OBVIOUS
  <2> QED
    BY <1>5, <1>6, <2>1, <2>2 DEF Pointed
<1>8. ASSUME NEW x, IsShared(h, x), x # r
      PROVE  /\ x \in Indices(h) /\ Object(g, x) = Object(h, x)
             /\ Object(h, x).inner # r /\ Object(h, x).inner # i
             /\ IsPlain(g, Object(h, x).inner)
             /\ Object(g, Object(h, x).inner) = Object(h, Object(h, x).inner)
  <2>1. /\ x \in Indices(h) /\ IsPlain(h, Object(h, x).inner) /\ Object(h, x).inner \in Indices(h)
    BY <1>8, SoundFacts
  <2>2. Object(h, x).inner # r
    BY <1>2, <2>1
  <2>3. Object(h, x).inner # i
    BY <1>2, <1>8, <2>1 DEF Sound, InnersDiffer
  <2> QED
    BY <1>3, <1>5, <1>8, <2>1, <2>2, <2>3
<1>9. ASSUME NEW x \in Indices(g), IsShared(g, x)
      PROVE  IsShared(h, x) /\ x # r /\ Object(g, x) = Object(h, x)
  BY <1>3, <1>4, <1>5, <1>9
<1>10. WrappersSound(g, S, O)
  <2>1. SUFFICES ASSUME NEW x \in Indices(g), IsShared(g, x)
                 PROVE  /\ x \in S \cup O
                        /\ IsPlain(g, Object(g, x).inner)
                        /\ Object(g, Object(g, x).inner).type = Object(g, x).typecode
                        /\ Object(g, x).inner \notin S \cup O
                        /\ Object(g, x).counter = IF x \in S /\ x \in O THEN 2 ELSE 1
    BY DEF WrappersSound
  <2>2. IsShared(h, x) /\ x # r /\ Object(g, x) = Object(h, x) /\ x # i
    BY <1>2, <1>9, <2>1
  <2>3. x \in S <=> x \in R
    BY <2>2
  <2>4. /\ x \in R \cup O
        /\ Object(h, Object(h, x).inner).type = Object(h, x).typecode
        /\ Object(h, x).inner \notin R \cup O
        /\ x \in R /\ x \in O => Object(h, x).counter = 2
        /\ x \notin R \/ x \notin O => Object(h, x).counter = 1
    BY <2>2, SoundFacts
  <2>5. /\ Object(h, x).inner # i /\ IsPlain(g, Object(h, x).inner)
        /\ Object(g, Object(h, x).inner) = Object(h, Object(h, x).inner)
    BY <1>8, <2>2
  <2>6. Object(g, x).inner \notin S \cup O
    BY <2>2, <2>4, <2>5
  <2>7. Object(g, x).counter = IF x \in S /\ x \in O THEN 2 ELSE 1
    BY <2>2, <2>3, <2>4
  <2> HIDE DEF S, i
  <2> QED
    BY <2>2, <2>3, <2>4, <2>5, <2>6, <2>7
<1>11. InnersDiffer(g)
  BY <1>3, <1>9 DEF InnersDiffer, Sound
<1>12. PlainsSound(g, S, O)
  <2>1. SUFFICES ASSUME NEW x \in Indices(g), IsPlain(g, x)
                 PROVE  /\ x \notin S \/ x \notin O
                        /\ \/ x \in S \cup O
                           \/ \E y \in Indices(g) : IsShared(g, y) /\ Object(g, y).inner = x
    BY DEF PlainsSound
  <2>2. IsPlain(h, x) /\ x # r
    BY <1>3, <1>4, <1>5, <2>1
  <2>3. CASE x = i
    BY <1>2, <2>3
  <2>4. CASE x # i
    <3>1. x \in S <=> x \in R
      BY <2>2, <2>4
    <3>2. /\ x \notin R \/ x \notin O
          /\ x \in R \cup O \/ \E y \in Indices(h) : IsShared(h, y) /\ Object(h, y).inner = x
      BY <2>2, SoundFacts
    <3>3. ASSUME NEW y \in Indices(h), IsShared(h, y), Object(h, y).inner = x
          PROVE  \E z \in Indices(g) : IsShared(g, z) /\ Object(g, z).inner = x
      <4>1. y # r
        BY <2>4, <3>3
      <4> QED
        BY <1>3, <1>5, <1>8, <3>3, <4>1
    <3> HIDE DEF S, i
    <3> QED
      BY <3>1, <3>2, <3>3
  <2> QED
    BY <2>3, <2>4
<1>13. ASSUME NEW x \in (R \ {r}) \cup O PROVE Same(h, g, x)
  <2>1. x \in Indices(h) /\ x # r /\ Object(g, x) = Object(h, x) /\ x \in R \cup O
    BY <1>3, SoundFacts
  <2> QED
    BY <1>3, <1>5, <1>8, <2>1, SameOthers
<1>14. Sound(g, S, O)
  BY <1>3, <1>7, <1>10, <1>11, <1>12 DEF Sound
<1> QED
  BY <1>2, <1>6, <1>13, <1>14 DEF g, i, S

\* A container of the first bitmap alone is shared with the second.
LEMMA Wrapped ==
  ASSUME NEW h, NEW R, NEW O, Sound(h, R, O), NEW r \in R, IsPlain(h, r)
  PROVE  LET n == New(h, Shared(r, Object(h, r).type, 2)).ref
             g == New(h, Shared(r, Object(h, r).type, 2)).h
         IN  /\ Sound(g, (R \ {r}) \cup {n}, O \cup {n})
             /\ n \notin R \cup O
             /\ IsShared(g, n) /\ Values(g, n) = Values(h, r)
             /\ \A x \in (R \ {r}) \cup O : Same(h, g, x)
<1> DEFINE obj == Shared(r, Object(h, r).type, 2)
           n == New(h, obj).ref
           g == New(h, obj).h
           S == (R \ {r}) \cup {n}
           Q == O \cup {n}
<1>1. h \in Heaps /\ r \in Indices(h) /\ r \notin O /\ ~IsShared(h, r)
  BY SoundFacts, AliveFacts
<1>2. Object(h, r).type \in PlainTypes /\ Values(h, r) = Object(h, r).set /\ r \in Nat
  BY <1>1, AliveFacts, HeapFacts
<1>3. /\ obj \in SharedObjects /\ obj.inner = r /\ obj.typecode = Object(h, r).type /\ obj.counter = 2
  BY <1>2 DEF SharedObjects, Shared
<1>4. obj \in Objects
  BY <1>3 DEF Objects
<1> HIDE DEF obj
<1>5. /\ n \notin Indices(h) /\ n \in Nat
      /\ g \in Heaps /\ Indices(g) = Indices(h) \cup {n}
      /\ Object(g, n) = obj
      /\ \A x \in Indices(h) : Object(g, x) = Object(h, x)
  BY <1>1, <1>4, NewFacts
<1> HIDE DEF n, g
<1>6. \A x \in Indices(h) : /\ IsPlain(g, x) <=> IsPlain(h, x)
                            /\ IsShared(g, x) <=> IsShared(h, x)
  BY <1>5, KindKept
<1>7. IsShared(g, n) /\ ~IsPlain(g, n)
  <2>1. IsShared(g, n)
    BY <1>3, <1>5 DEF IsShared
  <2> QED
    BY <1>5, <2>1, AliveFacts
<1>8. \A x \in R \cup O : x \in Indices(h) /\ (IsPlain(h, x) \/ IsShared(h, x))
  BY SoundFacts
<1>9. n \notin R \cup O /\ n # r
  BY <1>1, <1>5, <1>8
<1>10. Pointed(g, S, Q)
  <2>1. \A x \in S \cup Q : x = n \/ x \in R \cup O
    OBVIOUS
  <2> QED
    BY <1>6, <1>7, <1>8, <2>1 DEF Pointed
<1>11. ASSUME NEW x, IsShared(h, x)
       PROVE  /\ x \in Indices(h) /\ Object(g, x) = Object(h, x) /\ x # r /\ x # n
              /\ Object(h, x).inner # r /\ Object(h, x).inner # n
              /\ IsPlain(g, Object(h, x).inner)
              /\ Object(g, Object(h, x).inner) = Object(h, Object(h, x).inner)
  <2>1. /\ x \in Indices(h) /\ IsPlain(h, Object(h, x).inner) /\ Object(h, x).inner \in Indices(h)
        /\ Object(h, x).inner \notin R \cup O
    BY <1>11, SoundFacts
  <2> QED
    BY <1>1, <1>5, <1>6, <1>11, <2>1
<1>12. \A x : x # r /\ x # n => (x \in S <=> x \in R) /\ (x \in Q <=> x \in O)
  OBVIOUS
<1>13. WrappersSound(g, S, Q)
  <2>1. SUFFICES ASSUME NEW x \in Indices(g), IsShared(g, x)
                 PROVE  /\ x \in S \cup Q
                        /\ IsPlain(g, Object(g, x).inner)
                        /\ Object(g, Object(g, x).inner).type = Object(g, x).typecode
                        /\ Object(g, x).inner \notin S \cup Q
                        /\ Object(g, x).counter = IF x \in S /\ x \in Q THEN 2 ELSE 1
    BY DEF WrappersSound
  <2>2. CASE x = n
    <3>1. Object(g, x).inner = r /\ Object(g, x).typecode = Object(h, r).type /\ Object(g, x).counter = 2
      BY <1>3, <1>5, <2>2
    <3>2. IsPlain(g, r) /\ Object(g, r) = Object(h, r)
      BY <1>1, <1>5, <1>6
    <3>3. r \notin S \cup Q
      BY <1>1, <1>9
    <3> QED
      BY <2>2, <3>1, <3>2, <3>3
  <2>3. CASE x # n
    <3>1. x \in Indices(h) /\ IsShared(h, x)
      BY <1>5, <1>6, <2>1, <2>3
    <3>2. /\ x \in R \cup O
          /\ Object(h, Object(h, x).inner).type = Object(h, x).typecode
          /\ Object(h, x).inner \notin R \cup O
          /\ x \in R /\ x \in O => Object(h, x).counter = 2
          /\ x \notin R \/ x \notin O => Object(h, x).counter = 1
      BY <3>1, SoundFacts
    <3>3. /\ Object(g, x) = Object(h, x) /\ x # r
          /\ Object(h, x).inner # r /\ Object(h, x).inner # n
          /\ IsPlain(g, Object(h, x).inner)
          /\ Object(g, Object(h, x).inner) = Object(h, Object(h, x).inner)
      BY <1>11, <3>1
    <3>4. Object(h, x).inner \notin S \cup Q /\ (x \in S <=> x \in R) /\ (x \in Q <=> x \in O)
      BY <1>12, <2>3, <3>2, <3>3
    <3> HIDE DEF S, Q
    <3> QED
      BY <3>2, <3>3, <3>4
  <2> QED
    BY <2>2, <2>3
<1>14. InnersDiffer(g)
  <2>1. SUFFICES ASSUME NEW x \in Indices(g), NEW y \in Indices(g), IsShared(g, x), IsShared(g, y),
                        Object(g, x).inner = Object(g, y).inner
                 PROVE  x = y
    BY DEF InnersDiffer
  <2>2. Object(g, n).inner = r
    BY <1>3, <1>5
  <2>3. \A z \in Indices(g) : IsShared(g, z) /\ z # n =>
          IsShared(h, z) /\ Object(g, z) = Object(h, z) /\ Object(h, z).inner # r
    BY <1>5, <1>6, <1>11
  <2>4. CASE x = n \/ y = n
    BY <2>1, <2>2, <2>3, <2>4
  <2>5. CASE x # n /\ y # n
    <3>1. x \in Indices(h) /\ y \in Indices(h)
      BY <1>5, <2>5
    <3> QED
      BY <2>1, <2>3, <2>5, <3>1 DEF Sound, InnersDiffer
  <2> QED
    BY <2>4, <2>5
<1>15. PlainsSound(g, S, Q)
  <2>1. SUFFICES ASSUME NEW x \in Indices(g), IsPlain(g, x)
                 PROVE  /\ x \notin S \/ x \notin Q
                        /\ \/ x \in S \cup Q
                           \/ \E y \in Indices(g) : IsShared(g, y) /\ Object(g, y).inner = x
    BY DEF PlainsSound
  <2>2. IsPlain(h, x) /\ x # n
    BY <1>5, <1>6, <1>7, <2>1
  <2>3. CASE x = r
    <3>1. n \in Indices(g) /\ IsShared(g, n) /\ Object(g, n).inner = x
      BY <1>3, <1>5, <1>7, <2>3
    <3>2. x \notin S
      BY <2>2, <2>3
    <3> QED
      BY <3>1, <3>2
  <2>4. CASE x # r
    <3>1. (x \in S <=> x \in R) /\ (x \in Q <=> x \in O)
      BY <1>12, <2>2, <2>4
    <3>2. /\ x \notin R \/ x \notin O
          /\ x \in R \cup O \/ \E y \in Indices(h) : IsShared(h, y) /\ Object(h, y).inner = x
      BY <2>2, SoundFacts
    <3> HIDE DEF S, Q
    <3> QED
      BY <1>5, <1>6, <3>1, <3>2
  <2> QED
    BY <2>3, <2>4
<1>16. Sound(g, S, Q)
  BY <1>5, <1>10, <1>13, <1>14, <1>15 DEF Sound
<1>17. Values(g, n) = Values(h, r)
  <2>1. Object(g, n).inner = r /\ IsPlain(g, r) /\ Object(g, r) = Object(h, r)
    BY <1>1, <1>3, <1>5, <1>6
  <2> QED
    BY <1>2, <1>5, <1>7, <2>1, ValuesShared
<1>18. ASSUME NEW x \in (R \ {r}) \cup O PROVE Same(h, g, x)
  <2>1. x \in Indices(h) /\ Object(g, x) = Object(h, x) /\ x \in R \cup O
    BY <1>5, <1>8
  <2> QED
    BY <1>5, <1>6, <1>11, <2>1, SameOthers
<1> QED
  BY <1>7, <1>9, <1>16, <1>17, <1>18 DEF n, g, S, Q, obj

-----------------------------------------------------------------------------
(* The calls of containers.c on the heap.                                  *)

\* What is the same twice is the same.
LEMMA SameTwice ==
  ASSUME NEW h, NEW g, NEW f, NEW x, Same(h, g, x), Same(g, f, x)
  PROVE  Same(h, f, x)
BY DEF Same

\* Two objects can be written in either order.
LEMMA WritesCommute ==
  ASSUME NEW h \in Heaps, NEW a \in Indices(h), NEW b \in Indices(h), a # b,
         Alive(h, a), Alive(h, b), NEW v \in Objects, NEW w \in Objects
  PROVE  Write(Write(h, a, v), b, w) = Write(Write(h, b, w), a, v)
<1> DEFINE g == Write(h, a, v)
           f == Write(h, b, w)
<1>1. h \in [objs : Seq(Objects), touched : BOOLEAN] /\ h.objs \in Seq(Objects)
  BY DEF Heaps
<1>2. a \in 1..Len(h.objs) /\ b \in 1..Len(h.objs)
  BY DEF Indices
<1>3. /\ Object(g, b) = Object(h, b) /\ Object(f, a) = Object(h, a)
  BY WriteFacts
<1>4. Alive(g, b) /\ Alive(f, a)
  BY <1>3 DEF Alive
<1>5. g = [h EXCEPT !.objs[a] = v] /\ f = [h EXCEPT !.objs[b] = w]
  BY DEF Write
<1>6. Write(g, b, w) = [g EXCEPT !.objs[b] = w] /\ Write(f, a, v) = [f EXCEPT !.objs[a] = v]
  BY <1>4 DEF Write
<1>7. [[h.objs EXCEPT ![a] = v] EXCEPT ![b] = w] = [[h.objs EXCEPT ![b] = w] EXCEPT ![a] = v]
  BY <1>1, <1>2
<1>8. /\ [g EXCEPT !.objs[b] = w] = [h EXCEPT !.objs = [[h.objs EXCEPT ![a] = v] EXCEPT ![b] = w]]
      /\ [f EXCEPT !.objs[a] = v] = [h EXCEPT !.objs = [[h.objs EXCEPT ![b] = w] EXCEPT ![a] = v]]
  BY <1>1, <1>5
<1> HIDE DEF g, f
<1> QED
  BY <1>6, <1>7, <1>8 DEF g, f

\* container_free: the bitmap lets go of a container.
LEMMA FreeCorrect ==
  ASSUME NEW h, NEW R, NEW O, Sound(h, R, O), NEW r \in R
  PROVE  LET g == container_free(h, r, Object(h, r).type)
         IN  /\ Sound(g, R \ {r}, O)
             /\ \A x \in (R \ {r}) \cup O : Same(h, g, x)
<1> DEFINE type == Object(h, r).type
           g == container_free(h, r, type)
<1>1. h \in Heaps /\ (IsPlain(h, r) \/ IsShared(h, r)) /\ r \in Indices(h) /\ Freed \in Objects
  BY SoundFacts DEF Objects
<1>2. Alive(h, r)
  BY <1>1, AliveFacts
<1>3. CASE IsPlain(h, r)
  <2>1. type # "shared"
    BY <1>1, <1>3, AliveFacts
  <2>2. g = Write(h, r, Freed)
    BY <1>2, <2>1 DEF container_free
  <2> HIDE DEF g, type
  <2> QED
    BY <1>3, <2>2, FreedPlain DEF g, type
<1>4. CASE IsShared(h, r)
  <2> DEFINE sc == Object(h, r)
             i == sc.inner
  <2>1. type = "shared" /\ sc.counter \in Nat
    BY <1>1, <1>4, AliveFacts
  <2>2. g = shared_container_free(h, r)
    BY <1>2, <2>1 DEF container_free
  <2>3. CASE r \in O
    <3>1. sc.counter = 2 /\ sc.counter - 1 = 1
      BY <1>4, <2>3, SoundFacts
    <3>2. g = Write(h, r, [Object(h, r) EXCEPT !.counter = 1])
      BY <2>2, <3>1 DEF shared_container_free
    <3>3. (R \ {r}) \ {r} = R \ {r} /\ r \in (R \ {r}) \cup O /\ 1 \in Nat
          /\ 1 = IF r \in R \ {r} /\ r \in O THEN 2 ELSE 1
      BY <2>3
    <3>4. /\ Sound(Write(h, r, [Object(h, r) EXCEPT !.counter = 1]), R \ {r}, O)
          /\ \A x \in R \cup O : Same(h, Write(h, r, [Object(h, r) EXCEPT !.counter = 1]), x)
      BY <1>4, <3>3, Recounted
    <3> HIDE DEF g
    <3> QED
      BY <3>2, <3>4 DEF g
  <2>4. CASE r \notin O
    <3>1. sc.counter = 1
      BY <1>4, <2>4, SoundFacts
    <3>2. g = Write(Write(h, i, Freed), r, Freed)
      BY <2>2, <3>1 DEF shared_container_free
    <3>3. IsPlain(h, i) /\ i \in Indices(h) /\ i # r /\ Alive(h, i) /\ i \notin R \cup O
      BY <1>1, <1>4, SoundFacts, AliveFacts
    <3>4. g = Write(Write(h, r, Freed), i, Freed)
      BY <1>1, <1>2, <3>2, <3>3, WritesCommute
    <3> DEFINE f == Write(h, r, Freed)
               S == (R \ {r}) \cup {i}
    <3>5. /\ Sound(f, S, O) /\ IsPlain(f, i)
          /\ \A x \in (R \ {r}) \cup O : Same(h, f, x)
      BY <1>4, <2>4, Unwrapped
    <3>6. i \in S /\ S \ {i} = R \ {r}
      BY <3>3
    <3> HIDE DEF f, S, i
    <3>7. Sound(Write(f, i, Freed), S \ {i}, O) /\ \A x \in (S \ {i}) \cup O : Same(f, Write(f, i, Freed), x)
      BY <3>5, <3>6, FreedPlain
    <3>8. \A x \in (R \ {r}) \cup O : Same(h, Write(f, i, Freed), x)
      BY <3>5, <3>6, <3>7, SameTwice
    <3> HIDE DEF g
    <3> QED
      BY <3>4, <3>6, <3>7, <3>8 DEF g, f
  <2> QED
    BY <2>3, <2>4
<1> QED
  BY <1>1, <1>3, <1>4

\* get_writable_copy_if_shared: the bitmap gets a container to itself, with the same values.
LEMMA WritableCorrect ==
  ASSUME NEW h, NEW R, NEW O, Sound(h, R, O), NEW r \in R
  PROVE  LET w == get_writable_copy_if_shared(h, r, Object(h, r).type)
         IN  /\ Sound(w.h, (R \ {r}) \cup {w.ref}, O)
             /\ w.ref \notin (R \ {r}) \cup O
             /\ IsPlain(w.h, w.ref) /\ Object(w.h, w.ref).type = w.type
             /\ Values(w.h, w.ref) = Values(h, r)
             /\ \A x \in (R \ {r}) \cup O : Same(h, w.h, x)
<1> DEFINE type == Object(h, r).type
           w == get_writable_copy_if_shared(h, r, type)
<1>1. h \in Heaps /\ (IsPlain(h, r) \/ IsShared(h, r)) /\ r \in Indices(h)
  BY SoundFacts
<1>2. Alive(h, r)
  BY <1>1, AliveFacts
<1>3. CASE IsPlain(h, r)
  <2>1. type # "shared" /\ r \notin O
    BY <1>1, <1>3, SoundFacts, AliveFacts
  <2>2. w = Handle(h, r, type)
    BY <2>1 DEF get_writable_copy_if_shared
  <2>3. w.h = h /\ w.ref = r /\ w.type = type
    BY <2>2 DEF Handle
  <2>4. (R \ {r}) \cup {r} = R
    OBVIOUS
  <2> HIDE DEF w
  <2> QED
    BY <1>3, <2>1, <2>3, <2>4 DEF Same, w
<1>4. CASE IsShared(h, r)
  <2> DEFINE sc == Object(h, r)
             i == sc.inner
  <2>1. type = "shared" /\ sc.counter \in Nat
    BY <1>1, <1>4, AliveFacts
  <2>2. w = shared_container_extract_copy(h, r)
    BY <1>2, <2>1 DEF get_writable_copy_if_shared
  <2>3. /\ IsPlain(h, i) /\ i \in Indices(h) /\ i # r /\ Object(h, i).type = sc.typecode
        /\ Object(h, i) \in PlainObjects
        /\ Values(h, i) = Object(h, i).set /\ Values(h, r) = Object(h, i).set
    BY <1>1, <1>4, SoundFacts, AliveFacts, ValuesShared DEF IsPlain
  <2>4. CASE r \notin O
    <3>1. sc.counter = 1
      BY <1>4, <2>4, SoundFacts
    <3>2. w = Handle(Write(h, r, Freed), i, sc.typecode)
      BY <2>2, <3>1 DEF shared_container_extract_copy
    <3>3. w.h = Write(h, r, Freed) /\ w.ref = i /\ w.type = sc.typecode
      BY <3>2 DEF Handle
    <3> DEFINE f == Write(h, r, Freed)
    <3>4. /\ Sound(f, (R \ {r}) \cup {i}, O)
          /\ i \notin R \cup O
          /\ IsPlain(f, i) /\ Object(f, i) = Object(h, i)
          /\ \A x \in (R \ {r}) \cup O : Same(h, f, x)
      BY <1>4, <2>4, Unwrapped
    <3>5. f \in Heaps
      BY <3>4 DEF Sound
    <3> HIDE DEF f
    <3>6. Values(f, i) = Object(f, i).set
      BY <3>4, <3>5, AliveFacts
    <3>7. w.h = f
      BY <3>3 DEF f
    <3> HIDE DEF w, i, sc
    <3>8. i \notin (R \ {r}) \cup O
      BY <3>4
    <3> QED
      BY <2>3, <3>3, <3>4, <3>6, <3>7, <3>8 DEF w
  <2>5. CASE r \in O
    <3>1. sc.counter = 2
      BY <1>4, <2>5, SoundFacts
    <3> DEFINE copy == New(h, Object(h, i))
               n == copy.ref
               f == copy.h
               g == shared_container_free(f, r)
    <3>2. w = Handle(g, n, sc.typecode)
      BY <2>2, <3>1 DEF shared_container_extract_copy
    <3>3. w.h = g /\ w.ref = n /\ w.type = sc.typecode
      BY <3>2 DEF Handle
    <3>4. /\ n \notin Indices(h) /\ n \notin R \cup O
          /\ Sound(f, R \cup {n}, O)
          /\ IsPlain(f, n) /\ Object(f, n) = Object(h, i)
          /\ \A x \in Indices(h) : x \in Indices(f) /\ Object(f, x) = Object(h, x)
          /\ \A x \in R \cup O : Same(h, f, x)
      BY <2>3, Created
    <3> HIDE DEF f, n, copy
    <3>5. f \in Heaps /\ r \in Indices(f) /\ Object(f, r) = Object(h, r) /\ r # n /\ r \in R \cup {n}
      BY <1>1, <3>4 DEF Sound
    <3>6. IsShared(f, r)
      BY <1>1, <1>4, <3>5, KindKept
    <3>7. Alive(f, r) /\ Object(f, r).type = "shared"
      BY <3>5, <3>6, AliveFacts
    <3>8. g = container_free(f, r, Object(f, r).type)
      BY <3>7 DEF container_free
    <3> HIDE DEF g
    <3>9. Sound(g, (R \cup {n}) \ {r}, O) /\ \A x \in ((R \cup {n}) \ {r}) \cup O : Same(f, g, x)
      BY <3>4, <3>5, <3>8, FreeCorrect
    <3>10. (R \cup {n}) \ {r} = (R \ {r}) \cup {n}
      BY <3>5
    <3>11. \A x \in (R \ {r}) \cup O : Same(h, g, x)
      BY <3>4, <3>9, <3>10, SameTwice
    <3>12. Same(f, g, n) /\ g \in Heaps
      BY <3>9, <3>10 DEF Sound
    <3>13. Values(f, n) = Object(h, i).set /\ Object(f, n).type = sc.typecode
      BY <2>3, <3>4, <3>5, AliveFacts
    <3>14. Values(g, n) = Values(h, r) /\ Object(g, n).type = sc.typecode
      BY <2>3, <3>12, <3>13 DEF Same
    <3>15. IsPlain(g, n)
      <4>1. n \in (R \ {r}) \cup {n}
        OBVIOUS
      <4>2. IsPlain(g, n) \/ IsShared(g, n)
        BY <3>9, <3>10, <4>1, SoundFacts
      <4>3. sc.typecode # "shared"
        BY <1>1, <1>4, AliveFacts DEF PlainTypes
      <4> QED
        BY <3>12, <3>14, <4>2, <4>3, AliveFacts
    <3>16. n \notin (R \ {r}) \cup O
      BY <3>4
    <3> HIDE DEF w, sc, i
    <3> QED
      BY <3>3, <3>9, <3>10, <3>11, <3>14, <3>15, <3>16 DEF w
  <2> QED
    BY <2>4, <2>5
<1> QED
  BY <1>1, <1>3, <1>4

\* get_copy_of_container with copy-on-write: both bitmaps hold one shared container.
LEMMA ShareCorrect ==
  ASSUME NEW h, NEW R, NEW O, Sound(h, R, O), NEW r \in R, r \notin O
  PROVE  LET c == get_copy_of_container(h, r, Object(h, r).type, TRUE)
         IN  /\ Sound(c.h, (R \ {r}) \cup {c.ref}, O \cup {c.ref})
             /\ c.ref \notin (R \ {r}) \cup O
             /\ c.type = "shared" /\ Object(c.h, c.ref).type = "shared"
             /\ Values(c.h, c.ref) = Values(h, r)
             /\ \A x \in (R \ {r}) \cup O : Same(h, c.h, x)
<1> DEFINE type == Object(h, r).type
           c == get_copy_of_container(h, r, type, TRUE)
<1>1. h \in Heaps /\ (IsPlain(h, r) \/ IsShared(h, r)) /\ r \in Indices(h)
  BY SoundFacts
<1>2. CASE IsPlain(h, r)
  <2> DEFINE made == New(h, Shared(r, type, 2))
             n == made.ref
             g == made.h
  <2>1. type # "shared"
    BY <1>1, <1>2, AliveFacts
  <2>2. c = Handle(g, n, Object(g, n).type)
    BY <2>1 DEF get_copy_of_container, Object
  <2>3. /\ Sound(g, (R \ {r}) \cup {n}, O \cup {n})
        /\ n \notin R \cup O
        /\ IsShared(g, n) /\ Values(g, n) = Values(h, r)
        /\ \A x \in (R \ {r}) \cup O : Same(h, g, x)
    BY <1>2, Wrapped
  <2> HIDE DEF g, n, made, c
  <2>4. c.h = g /\ c.ref = n /\ c.type = Object(g, n).type
    BY <2>2 DEF Handle
  <2>5. Object(g, n).type = "shared"
    BY <2>3, AliveFacts DEF Sound
  <2> QED
    BY <2>3, <2>4, <2>5 DEF c
<1>3. CASE IsShared(h, r)
  <2> DEFINE sc == Object(h, r)
             g == Write(h, r, [sc EXCEPT !.counter = 2])
  <2>1. type = "shared" /\ sc.counter = 1
    BY <1>1, <1>3, SoundFacts, AliveFacts
  <2>2. sc.counter + 1 = 2
    BY <2>1
  <2>3. c = Handle(Write(h, r, [sc EXCEPT !.counter = @ + 1]), r, type)
    BY <2>1 DEF get_copy_of_container
  <2> HIDE DEF c
  <2>4. c.h = g /\ c.ref = r /\ c.type = "shared"
    <3>1. c = Handle(g, r, type)
      BY <2>2, <2>3
    <3> HIDE DEF g, type
    <3> QED
      BY <2>1, <3>1 DEF Handle
  <2>5. Sound(h, O, R)
    BY Swapped
  <2> DEFINE S == O \cup {r}
  <2>6. S \ {r} = O \ {r} /\ r \in S \cup R /\ 2 \in Nat /\ 2 = IF r \in S /\ r \in R THEN 2 ELSE 1
    OBVIOUS
  <2> HIDE DEF S
  <2>7. Sound(g, S, R) /\ \A x \in O \cup R : Same(h, g, x)
    BY <1>3, <2>5, <2>6, Recounted
  <2> HIDE DEF g
  <2>8. Sound(g, R, S)
    BY <2>7, Swapped
  <2>9. R = (R \ {r}) \cup {r} /\ S = O \cup {r} /\ r \notin (R \ {r}) \cup O
    BY DEF S
  <2>10. Same(h, g, r)
    BY <2>7
  <2>11. Object(g, r).type = "shared" /\ Values(g, r) = Values(h, r)
    BY <2>1, <2>10 DEF Same
  <2> QED
    BY <2>4, <2>7, <2>8, <2>9, <2>11 DEF c
<1> QED
  BY <1>1, <1>2, <1>3

\* get_copy_of_container without: the second bitmap gets a container of its own.
LEMMA CloneCorrect ==
  ASSUME NEW h, NEW R, NEW O, Sound(h, R, O), NEW r \in R
  PROVE  LET c == get_copy_of_container(h, r, Object(h, r).type, FALSE)
         IN  /\ Sound(c.h, R, O \cup {c.ref})
             /\ c.ref \notin R \cup O
             /\ c.type # "shared" /\ Object(c.h, c.ref).type = c.type
             /\ Values(c.h, c.ref) = Values(h, r)
             /\ \A x \in R \cup O : Same(h, c.h, x)
<1> DEFINE type == Object(h, r).type
           c == get_copy_of_container(h, r, type, FALSE)
           i == IF type = "shared" THEN Object(h, r).inner ELSE r
           made == New(h, Object(h, i))
           n == made.ref
           g == made.h
<1>1. h \in Heaps /\ (IsPlain(h, r) \/ IsShared(h, r)) /\ r \in Indices(h)
  BY SoundFacts
<1>2. IsPlain(h, i) /\ Values(h, r) = Object(h, i).set
  <2>1. CASE IsPlain(h, r)
    BY <1>1, <2>1, AliveFacts
  <2>2. CASE IsShared(h, r)
    <3>1. type = "shared"
      BY <1>1, <2>2, AliveFacts
    <3>2. IsPlain(h, Object(h, r).inner)
      BY <2>2, SoundFacts
    <3> QED
      BY <1>1, <2>2, <3>1, <3>2, ValuesShared
  <2> QED
    BY <1>1, <2>1, <2>2
<1>3. Object(h, i) \in PlainObjects
  BY <1>2 DEF IsPlain
<1>4. c = Handle(g, n, Object(g, n).type)
  BY DEF get_copy_of_container, Object
<1>5. c.h = g /\ c.ref = n /\ c.type = Object(g, n).type
  <2> HIDE DEF c, g, n
  <2> QED
    BY <1>4 DEF Handle
<1>6. Sound(h, O, R)
  BY Swapped
<1> HIDE DEF i
<1>7. /\ n \notin O \cup R
      /\ Sound(g, O \cup {n}, R)
      /\ IsPlain(g, n) /\ Object(g, n) = Object(h, i)
      /\ \A x \in O \cup R : Same(h, g, x)
  BY <1>3, <1>6, Created
<1> HIDE DEF g, n, made, c
<1>8. Sound(g, R, O \cup {n}) /\ g \in Heaps
  BY <1>7, Swapped DEF Sound
<1>9. Object(g, n).type # "shared" /\ Values(g, n) = Object(g, n).set
  BY <1>7, <1>8, AliveFacts
<1> QED
  BY <1>2, <1>5, <1>7, <1>8, <1>9 DEF c

-----------------------------------------------------------------------------
(* Key arrays.                                                             *)

\* Entries with their objects, and the state of a call.
Entries == [key : 0..(KeyCount - 1), ref : Nat, type : PlainTypes \cup {"shared"}]
States == [h : Heaps, ra : Seq(Entries)]
Refs(s) == {s[i].ref : i \in 1..Len(s)}

\* The keys ascend and no object is held twice.
Arranged(s) ==
  /\ s \in Seq(Entries)
  /\ \A i, j \in 1..Len(s) : i < j => s[i].key < s[j].key /\ s[i].ref # s[j].ref

\* Every entry has the type of its object.
Typed(h, s) == \A i \in 1..Len(s) : s[i].type = Object(h, s[i].ref).type

\* A bitmap between two calls, beside the other one with the array o.
Ok(z, o) == /\ z \in States
            /\ Sound(z.h, Refs(z.ra), Refs(o))
            /\ Arranged(z.ra) /\ Arranged(o)
            /\ Typed(z.h, z.ra) /\ Typed(z.h, o)

\* The values of an array.
Held(h, s) == {x \in Universe : \E i \in 1..Len(s) : s[i].key = High(x) /\ Low(x) \in Values(h, s[i].ref)}

Filled(h, s) == \A i \in 1..Len(s) : Values(h, s[i].ref) # {}
NoneShared(s) == \A i \in 1..Len(s) : s[i].type # "shared"

\* Nothing has happened to the bitmap with the array o.
Kept(h, g, o) == \A x \in Refs(o) : Same(h, g, x)

\* What is known of an entry.
LEMMA EntryFacts ==
  ASSUME NEW s \in Seq(Entries), NEW i \in 1..Len(s)
  PROVE  /\ s[i] \in Entries /\ s[i].ref \in Refs(s) /\ s[i].ref \in Nat
         /\ s[i].key \in 0..(KeyCount - 1)
         /\ s[i].type \in PlainTypes \cup {"shared"}
<1>1. s[i] \in Entries
  OBVIOUS
<1> QED
  BY <1>1 DEF Entries, Refs

\* Two places with one object, or with one key, are the same place.
LEMMA PlacesDiffer ==
  ASSUME NEW s, Arranged(s), NEW i \in 1..Len(s), NEW j \in 1..Len(s),
         s[i].ref = s[j].ref \/ s[i].key = s[j].key
  PROVE  i = j
<1>1. s \in Seq(Entries) /\ \A k, l \in 1..Len(s) : k < l => s[k].key < s[l].key /\ s[k].ref # s[l].ref
  BY DEF Arranged
<1>2. s[i].key \in Int /\ s[j].key \in Int
  BY <1>1, EntryFacts
<1>3. i < j \/ j < i \/ i = j
  OBVIOUS
<1> QED
  BY <1>1, <1>2, <1>3

\* What is known of a bitmap between two calls.
LEMMA OkFacts ==
  ASSUME NEW z, NEW o, Ok(z, o)
  PROVE  /\ z \in States /\ z.h \in Heaps /\ z.ra \in Seq(Entries) /\ o \in Seq(Entries)
         /\ Len(z.ra) \in Nat
         /\ Sound(z.h, Refs(z.ra), Refs(o))
         /\ Arranged(z.ra) /\ Arranged(o)
         /\ Typed(z.h, z.ra) /\ Typed(z.h, o)
         /\ z = [h |-> z.h, ra |-> z.ra]
<1>1. z \in [h : Heaps, ra : Seq(Entries)]
  BY DEF Ok, States
<1>2. o \in Seq(Entries)
  BY DEF Ok, Arranged
<1> QED
  BY <1>1, <1>2 DEF Ok

\* The other bitmap holds what it held when its objects are as they were.
LEMMA KeptFacts ==
  ASSUME NEW h, NEW g, NEW o \in Seq(Entries), Kept(h, g, o)
  PROVE  /\ Typed(h, o) => Typed(g, o)
         /\ Held(g, o) = Held(h, o)
         /\ Filled(h, o) => Filled(g, o)
<1>1. \A i \in 1..Len(o) : /\ Object(g, o[i].ref).type = Object(h, o[i].ref).type
                           /\ Values(g, o[i].ref) = Values(h, o[i].ref)
  BY DEF Kept, Same, Refs
<1>2. Typed(h, o) => Typed(g, o)
  BY <1>1 DEF Typed
<1>3. Held(g, o) = Held(h, o)
  BY <1>1 DEF Held
<1>4. Filled(h, o) => Filled(g, o)
  BY <1>1 DEF Filled
<1> QED
  BY <1>2, <1>3, <1>4

\* The object of entry p may be replaced by ref in the heap g.
Replacement(z, o, p, g, ref, type) ==
  /\ Sound(g, (Refs(z.ra) \ {z.ra[p].ref}) \cup {ref}, Refs(o))
  /\ ref \notin Refs(z.ra) \ {z.ra[p].ref}
  /\ Object(g, ref).type = type
  /\ \A x \in (Refs(z.ra) \ {z.ra[p].ref}) \cup Refs(o) : Same(z.h, g, x)

\* Of z, entry p alone has changed, to the values S.
Turned(z, u, o, p, S) ==
  /\ Ok(u, o) /\ Kept(z.h, u.h, o)
  /\ Len(u.ra) = Len(z.ra)
  /\ \A i \in 1..Len(z.ra) : u.ra[i].key = z.ra[i].key
  /\ \A i \in 1..Len(z.ra) : i # p => /\ u.ra[i] = z.ra[i]
                                      /\ Values(u.h, u.ra[i].ref) = Values(z.h, z.ra[i].ref)
  /\ Values(u.h, u.ra[p].ref) = S

\* An entry gets another object.
LEMMA ReplaceEntry ==
  ASSUME NEW z, NEW o, Ok(z, o), NEW p \in 1..Len(z.ra), NEW g, NEW ref, NEW type,
         Replacement(z, o, p, g, ref, type)
  PROVE  LET u == ra_set_container_at_index([z EXCEPT !.h = g], p - 1, ref, type)
         IN  /\ Turned(z, u, o, p, Values(g, ref))
             /\ u.ra[p] = Entry(z.ra[p].key, ref, type) /\ u.h = g
<1> DEFINE s == z.ra
           t == [s EXCEPT ![p].ref = ref, ![p].type = type]
           u == ra_set_container_at_index([z EXCEPT !.h = g], p - 1, ref, type)
<1>1. /\ z.h \in Heaps /\ s \in Seq(Entries) /\ o \in Seq(Entries) /\ Len(s) \in Nat
      /\ Arranged(s) /\ Arranged(o) /\ Typed(z.h, s) /\ Typed(z.h, o)
      /\ z = [h |-> z.h, ra |-> s]
  BY OkFacts
<1>2. (p - 1) + 1 = p
  OBVIOUS
<1>3. u = [h |-> g, ra |-> t]
  <2>1. [z EXCEPT !.h = g] = [h |-> g, ra |-> s]
    BY <1>1
  <2>2. u = [[h |-> g, ra |-> s] EXCEPT !.ra[p].ref = ref, !.ra[p].type = type]
    BY <1>2, <2>1 DEF ra_set_container_at_index
  <2> HIDE DEF u, s
  <2> QED
    BY <2>2
<1>4. /\ Sound(g, (Refs(s) \ {s[p].ref}) \cup {ref}, Refs(o))
      /\ ref \notin Refs(s) \ {s[p].ref}
      /\ Object(g, ref).type = type
      /\ \A x \in (Refs(s) \ {s[p].ref}) \cup Refs(o) : Same(z.h, g, x)
  BY DEF Replacement
<1> HIDE DEF u
<1>5. g \in Heaps /\ ref \in Nat /\ type \in PlainTypes \cup {"shared"}
  <2>1. g \in Heaps /\ ref \in Indices(g) /\ (IsPlain(g, ref) \/ IsShared(g, ref))
    BY <1>4, SoundFacts
  <2> QED
    BY <1>4, <2>1, AliveFacts, HeapFacts
<1>6. s[p] \in Entries /\ s[p].key \in 0..(KeyCount - 1)
  BY <1>1, EntryFacts
<1> DEFINE e == Entry(s[p].key, ref, type)
<1>7. t = [s EXCEPT ![p] = e]
  <2>1. [[s[p] EXCEPT !.ref = ref] EXCEPT !.type = type] = e
    <3> DEFINE d == s[p]
    <3>1. d \in [key : 0..(KeyCount - 1), ref : Nat, type : PlainTypes \cup {"shared"}]
      BY <1>6 DEF Entries
    <3> HIDE DEF d
    <3>2. d = [key |-> d.key, ref |-> d.ref, type |-> d.type]
      BY <3>1
    <3> DEFINE d2 == [d EXCEPT !.ref = ref]
    <3>4. d2 = [key |-> d.key, ref |-> ref, type |-> d.type]
      BY <3>2
    <3> HIDE DEF d2
    <3>5. [d2 EXCEPT !.type = type] = [key |-> d.key, ref |-> ref, type |-> type]
      BY <3>4
    <3>3. [[d EXCEPT !.ref = ref] EXCEPT !.type = type] = [key |-> d.key, ref |-> ref, type |-> type]
      BY <3>5 DEF d2
    <3> QED
      BY <3>3 DEF d, Entry
  <2>2. p \in DOMAIN s
    BY <1>1
  <2> HIDE DEF e, s
  <2> QED
    BY <1>1, <2>1, <2>2
<1>8. e \in Entries /\ e.key = s[p].key /\ e.ref = ref /\ e.type = type
  BY <1>5, <1>6 DEF Entry, Entries
<1> HIDE DEF t, e
<1>9. /\ t \in Seq(Entries) /\ Len(t) = Len(s) /\ t[p] = e
      /\ \A i \in 1..Len(s) : i # p => t[i] = s[i]
  BY <1>1, <1>7, <1>8
<1>10. \A i \in 1..Len(s) : i # p => s[i].ref \in Refs(s) \ {s[p].ref}
  BY <1>1, EntryFacts, PlacesDiffer
<1>11. Refs(t) = (Refs(s) \ {s[p].ref}) \cup {ref}
  <2>1. ASSUME NEW x \in Refs(t) PROVE x \in (Refs(s) \ {s[p].ref}) \cup {ref}
    <3>1. PICK i \in 1..Len(s) : x = t[i].ref
      BY <1>9 DEF Refs
    <3>2. CASE i = p
      BY <1>8, <1>9, <3>1, <3>2
    <3>3. CASE i # p
      BY <1>9, <1>10, <3>1, <3>3
    <3> QED
      BY <3>2, <3>3
  <2>2. ASSUME NEW x \in (Refs(s) \ {s[p].ref}) \cup {ref} PROVE x \in Refs(t)
    <3>1. CASE x = ref
      BY <1>8, <1>9, <3>1 DEF Refs
    <3>2. CASE x # ref
      <4>1. PICK i \in 1..Len(s) : x = s[i].ref
        BY <2>2, <3>2 DEF Refs
      <4>2. i # p
        BY <2>2, <3>2, <4>1
      <4> QED
        BY <1>9, <4>1, <4>2 DEF Refs
    <3> QED
      BY <3>1, <3>2
  <2> QED
    BY <2>1, <2>2
<1>12. \A i \in 1..Len(s) : t[i].key = s[i].key
  BY <1>8, <1>9
<1>13. Arranged(t)
  <2>1. ASSUME NEW i \in 1..Len(s), NEW j \in 1..Len(s), i < j
        PROVE  t[i].key < t[j].key /\ t[i].ref # t[j].ref
    <3>1. s[i].key < s[j].key /\ s[i].ref # s[j].ref
      BY <1>1, <2>1 DEF Arranged
    <3>2. CASE i = p
      <4>1. j # p /\ t[j] = s[j] /\ t[i].ref = ref
        BY <1>8, <1>9, <2>1, <3>2
      <4> QED
        BY <1>4, <1>10, <1>12, <3>1, <4>1
    <3>3. CASE j = p
      <4>1. i # p /\ t[i] = s[i] /\ t[j].ref = ref
        BY <1>8, <1>9, <2>1, <3>3
      <4> QED
        BY <1>4, <1>10, <1>12, <3>1, <4>1
    <3>4. CASE i # p /\ j # p
      BY <1>9, <3>1, <3>4
    <3> QED
      BY <3>2, <3>3, <3>4
  <2> QED
    BY <1>9, <2>1 DEF Arranged
<1>14. ASSUME NEW i \in 1..Len(s), i # p
       PROVE  /\ t[i] = s[i] /\ Object(g, t[i].ref).type = Object(z.h, s[i].ref).type
              /\ Values(g, t[i].ref) = Values(z.h, s[i].ref)
  BY <1>4, <1>9, <1>10, <1>14 DEF Same
<1>15. Typed(g, t)
  <2>1. ASSUME NEW i \in 1..Len(s) PROVE t[i].type = Object(g, t[i].ref).type
    <3>1. CASE i = p
      BY <1>4, <1>8, <1>9, <3>1
    <3>2. CASE i # p
      <4>1. s[i].type = Object(z.h, s[i].ref).type
        BY <1>1 DEF Typed
      <4> QED
        BY <1>14, <3>2, <4>1
    <3> QED
      BY <3>1, <3>2
  <2> QED
    BY <1>9, <2>1 DEF Typed
<1>16. Kept(z.h, g, o)
  BY <1>4 DEF Kept
<1>17. Typed(g, o)
  BY <1>1, <1>16, KeptFacts
<1>18. u \in States /\ u.h = g /\ u.ra = t
  BY <1>3, <1>5, <1>9 DEF States
<1>19. Sound(g, Refs(t), Refs(o))
  BY <1>4, <1>11
<1>20. Ok(u, o)
  BY <1>1, <1>13, <1>15, <1>17, <1>18, <1>19 DEF Ok
<1>21. Values(g, t[p].ref) = Values(g, ref) /\ t[p] = Entry(s[p].key, ref, type)
  BY <1>8, <1>9 DEF e
<1>22. Turned(z, u, o, p, Values(g, ref))
  BY <1>9, <1>12, <1>14, <1>16, <1>18, <1>20, <1>21 DEF Turned
<1> QED
  BY <1>18, <1>21, <1>22 DEF u, s

\* An entry that is not shared has its container to itself.
LEMMA PlainEntry ==
  ASSUME NEW z, NEW o, Ok(z, o), NEW p \in 1..Len(z.ra), z.ra[p].type # "shared"
  PROVE  /\ z.ra[p].ref \in Refs(z.ra) /\ z.ra[p].ref \notin Refs(o)
         /\ IsPlain(z.h, z.ra[p].ref) /\ Alive(z.h, z.ra[p].ref)
         /\ Object(z.h, z.ra[p].ref).type = z.ra[p].type /\ z.ra[p].type \in PlainTypes
         /\ Object(z.h, z.ra[p].ref).set = Values(z.h, z.ra[p].ref)
         /\ Values(z.h, z.ra[p].ref) \in SUBSET Lows
<1> DEFINE r == z.ra[p].ref
<1>1. z.h \in Heaps /\ Sound(z.h, Refs(z.ra), Refs(o)) /\ r \in Refs(z.ra)
  BY OkFacts, EntryFacts
<1>2. Object(z.h, r).type = z.ra[p].type
  BY OkFacts DEF Typed
<1>3. IsPlain(z.h, r) \/ IsShared(z.h, r)
  BY <1>1, SoundFacts
<1>4. IsPlain(z.h, r)
  BY <1>1, <1>2, <1>3, AliveFacts
<1>5. r \notin Refs(o)
  BY <1>1, <1>4, SoundFacts
<1> HIDE DEF r
<1> QED
  BY <1>1, <1>2, <1>4, <1>5, AliveFacts DEF r

\* The calls that unshare the entry or change its container leave no other one shared.
LEMMA TurnedUnshared ==
  ASSUME NEW z, NEW o, NEW u, NEW p, NEW S, Turned(z, u, o, p, S), u.ra[p].type # "shared"
  PROVE  NoneShared(z.ra) => NoneShared(u.ra)
BY DEF Turned, NoneShared

\* ra_unshare_container_at_index: the entry is not shared any more.
LEMMA UnshareCorrect ==
  ASSUME NEW z, NEW o, Ok(z, o), NEW p \in 1..Len(z.ra)
  PROVE  LET u == ra_unshare_container_at_index(z, p - 1)
         IN  /\ Turned(z, u, o, p, Values(z.h, z.ra[p].ref))
             /\ u.ra[p].type # "shared"
<1> DEFINE r == z.ra[p].ref
           w == get_writable_copy_if_shared(z.h, r, Object(z.h, r).type)
           u == ra_unshare_container_at_index(z, p - 1)
           R == Refs(z.ra)
           O == Refs(o)
<1>1. Sound(z.h, R, O) /\ r \in R
  BY OkFacts, EntryFacts
<1>2. z.ra[p].type = Object(z.h, r).type
  BY OkFacts DEF Typed
<1> HIDE DEF R, O, r
<1>3. /\ Sound(w.h, (R \ {r}) \cup {w.ref}, O)
      /\ w.ref \notin (R \ {r}) \cup O
      /\ IsPlain(w.h, w.ref) /\ Object(w.h, w.ref).type = w.type
      /\ Values(w.h, w.ref) = Values(z.h, r)
      /\ \A x \in (R \ {r}) \cup O : Same(z.h, w.h, x)
  BY <1>1, WritableCorrect
<1>4. u = ra_set_container_at_index([z EXCEPT !.h = w.h], p - 1, w.ref, w.type)
  <2>1. (p - 1) + 1 = p
    OBVIOUS
  <2> QED
    BY <1>2, <2>1 DEF ra_unshare_container_at_index, SetHandle, r
<1> HIDE DEF w, u
<1>5. Replacement(z, o, p, w.h, w.ref, w.type)
  BY <1>3 DEF Replacement, R, O, r
<1>6. /\ Turned(z, u, o, p, Values(w.h, w.ref))
      /\ u.ra[p] = Entry(z.ra[p].key, w.ref, w.type)
  BY <1>4, <1>5, ReplaceEntry
<1>7. w.type # "shared"
  <2>1. w.h \in Heaps
    BY <1>3 DEF Sound
  <2> QED
    BY <1>3, <2>1, AliveFacts
<1>8. u.ra[p].type # "shared"
  BY <1>6, <1>7 DEF Entry
<1> QED
  BY <1>3, <1>6, <1>8 DEF u, r

\* A container was changed in place, or there is a new one to take its place.
Changes(z, p, new, S) ==
  \/ new = Handle(Write(z.h, z.ra[p].ref, Plain(z.ra[p].type, S)), z.ra[p].ref, z.ra[p].type)
  \/ \E t \in PlainTypes : new = Handle(New(z.h, Plain(t, S)).h, New(z.h, Plain(t, S)).ref, t)

\* What is put back is what the bitmap then holds.
LEMMA PutBackCorrect ==
  ASSUME NEW z, NEW o, Ok(z, o), NEW p \in 1..Len(z.ra), z.ra[p].type # "shared",
         NEW S \in SUBSET Lows, NEW new, Changes(z, p, new, S)
  PROVE  LET u == PutBack(z, p - 1, new)
         IN  /\ Turned(z, u, o, p, S)
             /\ u.ra[p] = Entry(z.ra[p].key, new.ref, new.type)
             /\ new.type \in PlainTypes
<1> DEFINE r == z.ra[p].ref
           type == z.ra[p].type
           R == Refs(z.ra)
           O == Refs(o)
           g == IF new.ref # r THEN container_free(new.h, r, type) ELSE new.h
           u == PutBack(z, p - 1, new)
<1>1. /\ Sound(z.h, R, O) /\ r \in R /\ r \notin O /\ z.h \in Heaps
      /\ IsPlain(z.h, r) /\ Object(z.h, r).type = type /\ type \in PlainTypes
  BY OkFacts, PlainEntry
<1>2. u = ra_set_container_at_index([z EXCEPT !.h = g], p - 1, new.ref, new.type)
  <2>1. (p - 1) + 1 = p
    OBVIOUS
  <2> QED
    BY <2>1 DEF PutBack
<1>3. /\ Replacement(z, o, p, g, new.ref, new.type) /\ Values(g, new.ref) = S
      /\ new.type \in PlainTypes
  <2>1. CASE new = Handle(Write(z.h, r, Plain(type, S)), r, type)
    <3> DEFINE obj == Plain(type, S)
               f == Write(z.h, r, obj)
    <3>1. obj \in PlainObjects /\ obj.type = type /\ obj.set = S
      BY <1>1 DEF Plain, PlainObjects
    <3> HIDE DEF obj
    <3>2. new.h = f /\ new.ref = r /\ new.type = type
      <4> HIDE DEF f, r, type
      <4> QED
        BY <2>1 DEF Handle, f, obj
    <3>3. g = f
      BY <3>2
    <3>4. /\ Sound(f, R, O) /\ IsPlain(f, r) /\ Object(f, r) = obj
          /\ \A x \in (R \cup O) \ {r} : Same(z.h, f, x)
      BY <1>1, <3>1, Written
    <3>5. f \in Heaps
      BY <3>4 DEF Sound
    <3> HIDE DEF f
    <3>6. Values(f, r) = S
      BY <3>1, <3>4, <3>5, AliveFacts
    <3> HIDE DEF g, R, O
    <3>7. (R \ {r}) \cup {r} = R /\ r \notin R \ {r}
      BY <1>1
    <3>8. \A x \in (R \ {r}) \cup O : Same(z.h, f, x)
      BY <1>1, <3>4
    <3> HIDE DEF r, type
    <3> QED
      BY <1>1, <3>1, <3>2, <3>3, <3>4, <3>6, <3>7, <3>8 DEF Replacement, r, R, O
  <2>2. ASSUME NEW t \in PlainTypes, new = Handle(New(z.h, Plain(t, S)).h, New(z.h, Plain(t, S)).ref, t)
        PROVE  /\ Replacement(z, o, p, g, new.ref, new.type) /\ Values(g, new.ref) = S
               /\ new.type \in PlainTypes
    <3> DEFINE obj == Plain(t, S)
               n == New(z.h, obj).ref
               f == New(z.h, obj).h
    <3>1. obj \in PlainObjects /\ obj.type = t /\ obj.set = S
      BY DEF Plain, PlainObjects
    <3>2. new = Handle(f, n, t)
      BY <2>2
    <3> HIDE DEF obj
    <3>3. /\ n \notin Indices(z.h) /\ n \notin R \cup O
          /\ Sound(f, R \cup {n}, O)
          /\ IsPlain(f, n) /\ Object(f, n) = obj
          /\ \A x \in Indices(z.h) : x \in Indices(f) /\ Object(f, x) = Object(z.h, x)
          /\ \A x \in R \cup O : Same(z.h, f, x)
      BY <1>1, <3>1, Created
    <3> HIDE DEF f, n
    <3>4. new.h = f /\ new.ref = n /\ new.type = t
      BY <3>2 DEF Handle
    <3> HIDE DEF R, O
    <3>5. n # r /\ r \in R \cup {n} /\ Object(f, r).type = type
      <4>1. Same(z.h, f, r)
        BY <1>1, <3>3
      <4> QED
        BY <1>1, <3>3, <4>1 DEF Same
    <3>6. g = container_free(f, r, Object(f, r).type)
      BY <3>4, <3>5
    <3> HIDE DEF g
    <3>7. Sound(g, (R \cup {n}) \ {r}, O) /\ \A x \in ((R \cup {n}) \ {r}) \cup O : Same(f, g, x)
      BY <3>3, <3>5, <3>6, FreeCorrect
    <3> HIDE DEF r, type
    <3>8. (R \cup {n}) \ {r} = (R \ {r}) \cup {n} /\ n \notin R \ {r}
      BY <3>3, <3>5
    <3>9. \A x \in (R \ {r}) \cup O : Same(z.h, g, x)
      BY <3>3, <3>7, <3>8, SameTwice
    <3>10. f \in Heaps /\ Values(f, n) = S /\ Same(f, g, n)
      <4>1. f \in Heaps
        BY <3>3 DEF Sound
      <4> QED
        BY <3>1, <3>3, <3>7, <3>8, <4>1, AliveFacts
    <3>11. Object(g, n).type = t /\ Values(g, n) = S
      BY <3>1, <3>3, <3>10 DEF Same
    <3>12. Sound(g, (R \ {r}) \cup {n}, O)
      BY <3>7, <3>8
    <3> QED
      BY <3>4, <3>8, <3>9, <3>11, <3>12 DEF Replacement, r, R, O
  <2> QED
    BY <2>1, <2>2 DEF Changes
<1> HIDE DEF g, u
<1>4. /\ Turned(z, u, o, p, Values(g, new.ref))
      /\ u.ra[p] = Entry(z.ra[p].key, new.ref, new.type)
  BY <1>2, <1>3, ReplaceEntry
<1> QED
  BY <1>3, <1>4 DEF u

\* container_add on a container that is not shared.
LEMMA AddChanges ==
  ASSUME NEW z, NEW o, Ok(z, o), NEW p \in 1..Len(z.ra), z.ra[p].type # "shared", NEW low
  PROVE  Changes(z, p, container_add(z.h, z.ra[p].ref, low, z.ra[p].type),
                 Values(z.h, z.ra[p].ref) \cup {low})
<1> DEFINE r == z.ra[p].ref
           type == z.ra[p].type
           w == Handle(z.h, r, type)
           S == Object(z.h, r).set \cup {low}
           new == container_add(z.h, r, low, type)
<1>1. Alive(z.h, r) /\ type \in PlainTypes /\ Object(z.h, r).set = Values(z.h, r)
  BY PlainEntry
<1>2. w.h = z.h /\ w.ref = r /\ w.type = type
  BY DEF Handle
<1>3. new = AddTo(w, low)
  BY <1>1 DEF container_add, get_writable_copy_if_shared
<1> HIDE DEF w
<1>4. \/ AddTo(w, low) = Handle(New(z.h, Plain("bitset", S)).h, New(z.h, Plain("bitset", S)).ref, "bitset")
      \/ AddTo(w, low) = Handle(Write(z.h, r, Plain(type, S)), r, type)
  BY <1>1, <1>2 DEF AddTo
<1>5. "bitset" \in PlainTypes
  BY DEF PlainTypes
<1> HIDE DEF new
<1> QED
  BY <1>1, <1>3, <1>4, <1>5 DEF Changes, new

\* container_remove on a container that is not shared.
LEMMA RemoveChanges ==
  ASSUME NEW z, NEW o, Ok(z, o), NEW p \in 1..Len(z.ra), z.ra[p].type # "shared", NEW low
  PROVE  Changes(z, p, container_remove(z.h, z.ra[p].ref, low, z.ra[p].type),
                 Values(z.h, z.ra[p].ref) \ {low})
<1> DEFINE r == z.ra[p].ref
           type == z.ra[p].type
           w == Handle(z.h, r, type)
           S == Object(z.h, r).set \ {low}
           new == container_remove(z.h, r, low, type)
<1>1. type \in PlainTypes /\ Object(z.h, r).set = Values(z.h, r)
  BY PlainEntry
<1>2. w.h = z.h /\ w.ref = r /\ w.type = type
  BY DEF Handle
<1>3. new = RemoveFrom(w, low)
  BY <1>1 DEF container_remove, get_writable_copy_if_shared
<1> HIDE DEF w
<1>4. \/ RemoveFrom(w, low) = Handle(New(z.h, Plain("array", S)).h, New(z.h, Plain("array", S)).ref, "array")
      \/ RemoveFrom(w, low) = Handle(Write(z.h, r, Plain(type, S)), r, type)
  BY <1>1, <1>2 DEF RemoveFrom
<1>5. "array" \in PlainTypes
  BY DEF PlainTypes
<1> HIDE DEF new
<1> QED
  BY <1>1, <1>3, <1>4, <1>5 DEF Changes, new

-----------------------------------------------------------------------------
(* Values and keys.                                                        *)

\* A value is its key and its low half.
LEMMA HalvesFacts ==
  ASSUME BulkAssumption
  PROVE  /\ \A v \in Universe : /\ High(v) \in 0..(KeyCount - 1) /\ Low(v) \in Lows
                                /\ v = High(v) * ChunkSize + Low(v)
         /\ \A k \in 0..(KeyCount - 1), l \in Lows :
              /\ k * ChunkSize + l \in Universe
              /\ High(k * ChunkSize + l) = k /\ Low(k * ChunkSize + l) = l
<1>1. KeyCount \in Nat \ {0} /\ ChunkSize \in Nat \ {0}
  BY DEF BulkAssumption
<1>2. ASSUME NEW v \in Universe
      PROVE  /\ High(v) \in 0..(KeyCount - 1) /\ Low(v) \in Lows
             /\ v = High(v) * ChunkSize + Low(v)
  <2>1. v \in 0..(KeyCount * ChunkSize - 1)
    BY DEF Universe
  <2>2. v \in Nat
    BY <2>1
  <2>3. v \div ChunkSize \in 0..(KeyCount - 1)
    BY <1>1, <2>1, OutOfProduct
  <2>4. v % ChunkSize \in 0..(ChunkSize - 1) /\ v = (v \div ChunkSize) * ChunkSize + (v % ChunkSize)
    BY <1>1, <2>2, Divided
  <2> QED
    BY <2>3, <2>4 DEF High, Low, Lows
<1>3. ASSUME NEW k \in 0..(KeyCount - 1), NEW l \in Lows
      PROVE  /\ k * ChunkSize + l \in Universe
             /\ High(k * ChunkSize + l) = k /\ Low(k * ChunkSize + l) = l
  <2>1. l \in 0..(ChunkSize - 1) /\ k \in Nat
    BY <1>1 DEF Lows
  <2>2. k * ChunkSize + l \in 0..(KeyCount * ChunkSize - 1)
    BY <1>1, <2>1, InProduct
  <2>3. (k * ChunkSize + l) \div ChunkSize = k /\ (k * ChunkSize + l) % ChunkSize = l
    BY <1>1, <2>1, ToHalves
  <2> QED
    BY <2>2, <2>3 DEF Universe, High, Low
<1> QED
  BY <1>2, <1>3

\* Two values with the same halves are the same.
LEMMA SameHalves ==
  ASSUME BulkAssumption, NEW v \in Universe, NEW w \in Universe, High(v) = High(w), Low(v) = Low(w)
  PROVE  v = w
<1>1. v = High(v) * ChunkSize + Low(v) /\ w = High(w) * ChunkSize + Low(w)
  BY HalvesFacts
<1> QED
  BY <1>1

\* ra_get_index: the place of a key, or where it would have to go.
LEMMA SearchCorrect ==
  ASSUME NEW s, Arranged(s), NEW key \in Nat
  PROVE  LET i == ra_get_index(s, key)
         IN  /\ i \in Int
             /\ i >= 0 => i + 1 \in 1..Len(s) /\ s[i + 1].key = key
             /\ i < 0 => /\ -i - 1 \in 0..Len(s)
                         /\ \A j \in 1..Len(s) : /\ j <= -i - 1 => s[j].key < key
                                                 /\ j > -i - 1 => s[j].key > key
<1> DEFINE n == Len(s)
           L == {i \in 1..n : s[i].key < key}
           less == Cardinality(L)
           i == ra_get_index(s, key)
<1>1. s \in Seq(Entries) /\ n \in Nat /\ DOMAIN s = 1..n
  BY DEF Arranged
<1>2. \A j \in 1..n : s[j].key \in Int
  BY <1>1, EntryFacts
<1>3. \A j, k \in 1..n : j < k => s[j].key < s[k].key
  BY DEF Arranged
<1>4. i = IF less < n /\ s[less + 1].key = key THEN less ELSE -less - 1
  BY <1>1 DEF ra_get_index
<1> HIDE DEF n, i
<1>5. \A k \in L : \A j \in 1..k : j \in L
  <2>1. SUFFICES ASSUME NEW k \in L, NEW j \in 1..k PROVE j \in L
    OBVIOUS
  <2>2. k \in 1..n /\ s[k].key < key /\ j \in 1..n
    BY <1>1
  <2>3. j = k \/ s[j].key < s[k].key
    BY <1>3, <2>2
  <2> QED
    BY <1>2, <2>2, <2>3
<1>6. L \in SUBSET (1..n)
  OBVIOUS
<1>7. less \in 0..n /\ L = 1..less
  <2> HIDE DEF L
  <2> QED
    BY <1>1, <1>5, <1>6, InitialIndices
<1>8. \A j \in 1..n : j <= less <=> s[j].key < key
  <2>1. SUFFICES ASSUME NEW j \in 1..n PROVE j <= less <=> s[j].key < key
    OBVIOUS
  <2>2. j \in L <=> j \in 1..less
    BY <1>7
  <2> HIDE DEF less
  <2> QED
    BY <1>1, <1>7, <2>1, <2>2
<1> HIDE DEF less, L
<1>9. CASE less < n /\ s[less + 1].key = key
  <2>1. i = less /\ less + 1 \in 1..n
    BY <1>1, <1>4, <1>7, <1>9
  <2> QED
    BY <1>7, <1>9, <2>1 DEF i, n
<1>10. CASE ~(less < n /\ s[less + 1].key = key)
  <2>1. i = -less - 1 /\ i < 0 /\ i \in Int /\ -i - 1 = less
    BY <1>4, <1>7, <1>10
  <2>2. ASSUME NEW j \in 1..n, j > less PROVE s[j].key > key
    <3>1. less < n /\ less + 1 \in 1..n
      BY <1>1, <1>7, <2>2
    <3>2. s[less + 1].key # key /\ ~(s[less + 1].key < key)
      BY <1>7, <1>8, <1>10, <3>1
    <3>3. j = less + 1 \/ less + 1 < j
      BY <1>7, <2>2
    <3>4. j = less + 1 \/ s[less + 1].key < s[j].key
      BY <1>3, <3>1, <3>3
    <3> QED
      BY <1>2, <3>1, <3>2, <3>4
  <2>3. \A j \in 1..n : /\ j <= -i - 1 => s[j].key < key
                        /\ j > -i - 1 => s[j].key > key
    BY <1>8, <2>1, <2>2
  <2> QED
    BY <1>7, <2>1, <2>3 DEF i, n
<1> QED
  BY <1>9, <1>10

\* The values when one entry alone has changed.
LEMMA TurnedHeld ==
  ASSUME NEW z, NEW o, Ok(z, o), NEW p \in 1..Len(z.ra), NEW u, NEW S, Turned(z, u, o, p, S)
  PROVE  /\ \A x \in Universe :
              x \in Held(u.h, u.ra) <=>
                IF High(x) = z.ra[p].key THEN Low(x) \in S ELSE x \in Held(z.h, z.ra)
         /\ S # {} /\ Filled(z.h, z.ra) => Filled(u.h, u.ra)
         /\ \A i \in 1..Len(z.ra) : i # p /\ Values(z.h, z.ra[i].ref) # {} => Values(u.h, u.ra[i].ref) # {}
<1>1. /\ Len(u.ra) = Len(z.ra)
      /\ \A i \in 1..Len(z.ra) : u.ra[i].key = z.ra[i].key
      /\ \A i \in 1..Len(z.ra) : i # p => Values(u.h, u.ra[i].ref) = Values(z.h, z.ra[i].ref)
      /\ Values(u.h, u.ra[p].ref) = S
  BY DEF Turned
<1>2. Arranged(z.ra)
  BY OkFacts
<1>3. ASSUME NEW x \in Universe, High(x) = z.ra[p].key
      PROVE  x \in Held(u.h, u.ra) <=> Low(x) \in S
  <2>1. \A i \in 1..Len(z.ra) : u.ra[i].key = High(x) <=> i = p
    BY <1>1, <1>2, <1>3, PlacesDiffer
  <2> QED
    BY <1>1, <2>1 DEF Held
<1>4. ASSUME NEW x \in Universe, High(x) # z.ra[p].key
      PROVE  x \in Held(u.h, u.ra) <=> x \in Held(z.h, z.ra)
  <2>1. \A i \in 1..Len(z.ra) : z.ra[i].key = High(x) => i # p
    BY <1>4
  <2> QED
    BY <1>1, <2>1 DEF Held
<1>5. S # {} /\ Filled(z.h, z.ra) => Filled(u.h, u.ra)
  BY <1>1 DEF Filled
<1> QED
  BY <1>1, <1>3, <1>4, <1>5

\* The values at the key of an entry.
LEMMA HeldAt ==
  ASSUME NEW z, NEW o, Ok(z, o), NEW p \in 1..Len(z.ra), NEW x \in Universe, High(x) = z.ra[p].key
  PROVE  x \in Held(z.h, z.ra) <=> Low(x) \in Values(z.h, z.ra[p].ref)
<1>1. \A i \in 1..Len(z.ra) : z.ra[i].key = High(x) <=> i = p
  BY OkFacts, PlacesDiffer
<1> QED
  BY <1>1 DEF Held

\* Unsharing an entry, and adding a value to it or taking one away.
LEMMA TurnedSets ==
  ASSUME BulkAssumption, NEW z, NEW o, Ok(z, o), NEW p \in 1..Len(z.ra), NEW u, NEW S,
         Turned(z, u, o, p, S), NEW v \in Universe, High(v) = z.ra[p].key
  PROVE  /\ S = Values(z.h, z.ra[p].ref) => Held(u.h, u.ra) = Held(z.h, z.ra)
         /\ S = Values(z.h, z.ra[p].ref) \cup {Low(v)} => Held(u.h, u.ra) = Held(z.h, z.ra) \cup {v}
         /\ S = Values(z.h, z.ra[p].ref) \ {Low(v)} => Held(u.h, u.ra) = Held(z.h, z.ra) \ {v}
<1> DEFINE H == Held(z.h, z.ra)
           G == Held(u.h, u.ra)
           W == Values(z.h, z.ra[p].ref)
<1>1. H \in SUBSET Universe /\ G \in SUBSET Universe
  BY DEF Held
<1>2. \A x \in Universe : x \in G <=> IF High(x) = z.ra[p].key THEN Low(x) \in S ELSE x \in H
  BY TurnedHeld
<1>3. \A x \in Universe : High(x) = z.ra[p].key => (x \in H <=> Low(x) \in W)
  BY HeldAt
<1>4. \A x \in Universe : High(x) = z.ra[p].key => (Low(x) = Low(v) <=> x = v)
  BY SameHalves
<1> HIDE DEF H, G, W
<1>5. S = W => G = H
  BY <1>1, <1>2, <1>3
<1>6. S = W \cup {Low(v)} => G = H \cup {v}
  <2>1. ASSUME S = W \cup {Low(v)}, NEW x \in Universe PROVE x \in G <=> x \in H \/ x = v
    BY <1>2, <1>3, <1>4, <2>1
  <2> QED
    BY <1>1, <2>1
<1>7. S = W \ {Low(v)} => G = H \ {v}
  <2>1. ASSUME S = W \ {Low(v)}, NEW x \in Universe PROVE x \in G <=> x \in H /\ x # v
    BY <1>2, <1>3, <1>4, <2>1
  <2> QED
    BY <1>1, <2>1
<1> QED
  BY <1>5, <1>6, <1>7 DEF H, G, W

\* A new entry may come behind the first at entries.
Insertion(z, o, g, at, e) ==
  /\ e \in Entries /\ at \in 0..Len(z.ra)
  /\ \A j \in 1..Len(z.ra) : /\ j <= at => z.ra[j].key < e.key
                             /\ j > at => z.ra[j].key > e.key
  /\ Sound(g, Refs(z.ra) \cup {e.ref}, Refs(o))
  /\ e.ref \notin Refs(z.ra) /\ Object(g, e.ref).type = e.type
  /\ \A x \in Refs(z.ra) \cup Refs(o) : Same(z.h, g, x)

\* The bitmap has the values of the new entry as well.
LEMMA InsertEntry ==
  ASSUME NEW z, NEW o, Ok(z, o), NEW g, NEW at, NEW e, Insertion(z, o, g, at, e)
  PROVE  LET u == [h |-> g, ra |-> InsertAt(z.ra, at + 1, e)]
         IN  /\ Ok(u, o) /\ Kept(z.h, u.h, o)
             /\ at + 1 \in 1..Len(u.ra) /\ u.ra[at + 1] = e
             /\ \A x \in Universe :
                  x \in Held(u.h, u.ra) <=>
                    IF High(x) = e.key THEN Low(x) \in Values(g, e.ref) ELSE x \in Held(z.h, z.ra)
             /\ Values(g, e.ref) # {} /\ Filled(z.h, z.ra) => Filled(u.h, u.ra)
             /\ e.type # "shared" /\ NoneShared(z.ra) => NoneShared(u.ra)
<1> DEFINE s == z.ra
           n == Len(s)
           t == InsertAt(s, at + 1, e)
           u == [h |-> g, ra |-> t]
<1>1. /\ z.h \in Heaps /\ s \in Seq(Entries) /\ n \in Nat /\ o \in Seq(Entries)
      /\ Arranged(s) /\ Arranged(o) /\ Typed(z.h, s) /\ Typed(z.h, o)
  BY OkFacts
<1>2. /\ e \in Entries /\ at \in 0..n
      /\ \A j \in 1..n : /\ j <= at => s[j].key < e.key
                         /\ j > at => s[j].key > e.key
      /\ Sound(g, Refs(s) \cup {e.ref}, Refs(o))
      /\ e.ref \notin Refs(s) /\ Object(g, e.ref).type = e.type
      /\ \A x \in Refs(s) \cup Refs(o) : Same(z.h, g, x)
  BY DEF Insertion
<1>3. at + 1 \in 1..(n + 1)
  BY <1>1, <1>2
<1>4. OneMore(Entries, t, s, at + 1, e)
  BY <1>1, <1>2, <1>3, InsertFacts
<1>5. u.h = g /\ u.ra = t
  OBVIOUS
<1> HIDE DEF t, u, s
<1>6. /\ t \in Seq(Entries) /\ Len(t) = n + 1 /\ t[at + 1] = e
      /\ \A i \in 1..at : t[i] = s[i]
      /\ \A i \in (at + 1)..n : t[i + 1] = s[i]
  <2>1. /\ t \in Seq(Entries) /\ Len(t) = Len(s) + 1
        /\ \A i \in 1..((at + 1) - 1) : t[i] = s[i]
        /\ t[at + 1] = e
        /\ \A i \in (at + 1)..Len(s) : t[i + 1] = s[i]
    BY <1>4 DEF OneMore
  <2>2. (at + 1) - 1 = at
    BY <1>2
  <2> QED
    BY <2>1, <2>2
<1> DEFINE Old(i) == IF i <= at THEN i ELSE i - 1
<1>7. ASSUME NEW i \in 1..(n + 1), i # at + 1 PROVE Old(i) \in 1..n /\ t[i] = s[Old(i)]
  <2>1. CASE i <= at
    BY <1>1, <1>2, <1>6, <2>1
  <2>2. CASE i > at
    <3>1. i - 1 \in (at + 1)..n /\ (i - 1) + 1 = i /\ i - 1 \in 1..n /\ ~(i <= at)
      BY <1>1, <1>2, <1>7, <2>2
    <3>2. t[(i - 1) + 1] = s[i - 1]
      BY <1>6, <3>1
    <3> QED
      BY <3>1, <3>2
  <2> QED
    BY <1>1, <1>2, <2>1, <2>2
<1>8. ASSUME NEW j \in 1..n PROVE \E i \in 1..(n + 1) : i # at + 1 /\ t[i] = s[j]
  <2>1. CASE j <= at
    <3>1. j \in 1..at /\ j \in 1..(n + 1) /\ j # at + 1
      BY <1>1, <1>2, <2>1
    <3> QED
      BY <1>6, <3>1
  <2>2. CASE j > at
    <3>1. j \in (at + 1)..n /\ j + 1 \in 1..(n + 1) /\ j + 1 # at + 1
      BY <1>1, <1>2, <2>2
    <3> QED
      BY <1>6, <3>1
  <2> QED
    BY <1>1, <1>2, <2>1, <2>2
<1>9. \A j \in 1..n : s[j].ref \in Refs(s) /\ s[j].key \in Int
  BY <1>1, EntryFacts DEF n
<1>10. Refs(t) = Refs(s) \cup {e.ref}
  <2>1. ASSUME NEW x \in Refs(t) PROVE x \in Refs(s) \cup {e.ref}
    <3>1. PICK i \in 1..(n + 1) : x = t[i].ref
      BY <1>6 DEF Refs
    <3>2. CASE i = at + 1
      BY <1>6, <3>1, <3>2
    <3>3. CASE i # at + 1
      BY <1>7, <1>9, <3>1, <3>3
    <3> QED
      BY <3>2, <3>3
  <2>2. ASSUME NEW x \in Refs(s) PROVE x \in Refs(t)
    <3>1. PICK j \in 1..n : x = s[j].ref
      BY DEF Refs, n
    <3>2. PICK i \in 1..(n + 1) : t[i] = s[j]
      BY <1>8
    <3> QED
      BY <1>6, <3>1, <3>2 DEF Refs
  <2>3. e.ref \in Refs(t)
    BY <1>3, <1>6 DEF Refs
  <2> QED
    BY <2>1, <2>2, <2>3
<1>11. Arranged(t)
  <2>1. ASSUME NEW i \in 1..(n + 1), NEW j \in 1..(n + 1), i < j
        PROVE  t[i].key < t[j].key /\ t[i].ref # t[j].ref
    <3>1. CASE i = at + 1
      <4>1. j # at + 1 /\ j - 1 \in 1..n /\ j - 1 > at /\ Old(j) = j - 1
        BY <1>1, <1>2, <2>1, <3>1
      <4>2. t[i] = e /\ t[j] = s[j - 1]
        BY <1>6, <1>7, <3>1, <4>1
      <4>3. s[j - 1].key > e.key /\ s[j - 1].ref \in Refs(s)
        BY <1>2, <1>9, <4>1
      <4>4. e.key \in Int /\ s[j - 1].key \in Int
        BY <1>2, <1>9, <4>1 DEF Entries
      <4> QED
        BY <1>2, <4>2, <4>3, <4>4
    <3>2. CASE j = at + 1
      <4>1. i # at + 1 /\ i \in 1..n /\ i <= at /\ Old(i) = i
        BY <1>1, <1>2, <2>1, <3>2
      <4>2. t[j] = e /\ t[i] = s[i]
        BY <1>6, <1>7, <3>2, <4>1
      <4> QED
        BY <1>2, <1>9, <4>1, <4>2
    <3>3. CASE i # at + 1 /\ j # at + 1
      <4>1. Old(i) \in 1..n /\ Old(j) \in 1..n /\ t[i] = s[Old(i)] /\ t[j] = s[Old(j)]
        BY <1>7, <3>3
      <4>2. Old(i) < Old(j)
        BY <1>1, <1>2, <2>1, <3>3
      <4> HIDE DEF Old
      <4>3. s[Old(i)].key < s[Old(j)].key /\ s[Old(i)].ref # s[Old(j)].ref
        BY <1>1, <4>1, <4>2 DEF Arranged, n
      <4> QED
        BY <4>1, <4>3
    <3> QED
      BY <3>1, <3>2, <3>3
  <2> QED
    BY <1>6, <2>1 DEF Arranged
<1>12. \A j \in 1..n : /\ Object(g, s[j].ref).type = Object(z.h, s[j].ref).type
                       /\ Values(g, s[j].ref) = Values(z.h, s[j].ref)
  BY <1>2, <1>9 DEF Same
<1>13. Typed(g, t)
  <2>1. ASSUME NEW i \in 1..(n + 1) PROVE t[i].type = Object(g, t[i].ref).type
    <3>1. CASE i = at + 1
      BY <1>2, <1>6, <3>1
    <3>2. CASE i # at + 1
      <4>1. Old(i) \in 1..n /\ t[i] = s[Old(i)]
        BY <1>7, <3>2
      <4> HIDE DEF Old
      <4>2. s[Old(i)].type = Object(z.h, s[Old(i)].ref).type
        BY <1>1, <4>1 DEF Typed, n
      <4> QED
        BY <1>12, <4>1, <4>2
    <3> QED
      BY <3>1, <3>2
  <2> QED
    BY <1>6, <2>1 DEF Typed
<1>14. Kept(z.h, g, o)
  BY <1>2 DEF Kept
<1>15. Typed(g, o)
  BY <1>1, <1>14, KeptFacts
<1>16. g \in Heaps
  BY <1>2 DEF Sound
<1>17. u \in States
  BY <1>6, <1>16 DEF States, u
<1>18. Sound(g, Refs(t), Refs(o))
  BY <1>2, <1>10
<1>19. Ok(u, o)
  BY <1>1, <1>5, <1>11, <1>13, <1>15, <1>17, <1>18 DEF Ok
<1>20. ASSUME NEW x \in Universe, High(x) = e.key PROVE x \in Held(g, t) <=> Low(x) \in Values(g, e.ref)
  <2>1. \A i \in 1..Len(t) : t[i].key = High(x) <=> i = at + 1
    BY <1>3, <1>6, <1>11, <1>20, PlacesDiffer
  <2> QED
    BY <1>3, <1>6, <2>1 DEF Held
<1>21. ASSUME NEW x \in Universe, High(x) # e.key PROVE x \in Held(g, t) <=> x \in Held(z.h, s)
  <2>1. ASSUME x \in Held(g, t) PROVE x \in Held(z.h, s)
    <3>1. PICK i \in 1..(n + 1) : t[i].key = High(x) /\ Low(x) \in Values(g, t[i].ref)
      BY <1>6, <2>1 DEF Held
    <3>2. i # at + 1
      BY <1>6, <1>21, <3>1
    <3>3. Old(i) \in 1..n /\ t[i] = s[Old(i)]
      BY <1>7, <3>2
    <3> HIDE DEF Old
    <3> QED
      BY <1>12, <3>1, <3>3 DEF Held, n
  <2>2. ASSUME x \in Held(z.h, s) PROVE x \in Held(g, t)
    <3>1. PICK j \in 1..n : s[j].key = High(x) /\ Low(x) \in Values(z.h, s[j].ref)
      BY <2>2 DEF Held, n
    <3>2. PICK i \in 1..(n + 1) : t[i] = s[j]
      BY <1>8
    <3> QED
      BY <1>6, <1>12, <3>1, <3>2 DEF Held
  <2> QED
    BY <2>1, <2>2
<1>22. Values(g, e.ref) # {} /\ Filled(z.h, s) => Filled(g, t)
  <2>1. ASSUME Values(g, e.ref) # {}, Filled(z.h, s), NEW i \in 1..(n + 1) PROVE Values(g, t[i].ref) # {}
    <3>1. CASE i = at + 1
      BY <1>6, <2>1, <3>1
    <3>2. CASE i # at + 1
      <4>1. Old(i) \in 1..n /\ t[i] = s[Old(i)]
        BY <1>7, <3>2
      <4> HIDE DEF Old
      <4> QED
        BY <1>12, <2>1, <4>1 DEF Filled, n
    <3> QED
      BY <3>1, <3>2
  <2> QED
    BY <1>6, <2>1 DEF Filled
<1>23. e.type # "shared" /\ NoneShared(s) => NoneShared(t)
  <2>1. ASSUME e.type # "shared", NoneShared(s), NEW i \in 1..(n + 1) PROVE t[i].type # "shared"
    <3>1. CASE i = at + 1
      BY <1>6, <2>1, <3>1
    <3>2. CASE i # at + 1
      <4>1. Old(i) \in 1..n /\ t[i] = s[Old(i)]
        BY <1>7, <3>2
      <4> HIDE DEF Old
      <4> QED
        BY <2>1, <4>1 DEF NoneShared, n
    <3> QED
      BY <3>1, <3>2
  <2> QED
    BY <1>6, <2>1 DEF NoneShared
<1>24. at + 1 \in 1..Len(t)
  BY <1>3, <1>6
<1> QED
  BY <1>5, <1>6, <1>14, <1>19, <1>20, <1>21, <1>22, <1>23, <1>24 DEF u, t, s

\* The bitmap has the values of the other entries when one is dropped.
LEMMA DropEntry ==
  ASSUME NEW z, NEW o, Ok(z, o), NEW p \in 1..Len(z.ra)
  PROVE  LET u == [h |-> container_free(z.h, z.ra[p].ref, z.ra[p].type), ra |-> RemoveAt(z.ra, p)]
         IN  /\ Ok(u, o) /\ Kept(z.h, u.h, o) /\ Len(u.ra) = Len(z.ra) - 1
             /\ \A x \in Universe :
                  x \in Held(u.h, u.ra) <=> High(x) # z.ra[p].key /\ x \in Held(z.h, z.ra)
             /\ (\A i \in 1..Len(z.ra) : i # p => Values(z.h, z.ra[i].ref) # {}) => Filled(u.h, u.ra)
             /\ NoneShared(z.ra) => NoneShared(u.ra)
<1> DEFINE s == z.ra
           n == Len(s)
           t == RemoveAt(s, p)
           r == s[p].ref
           R == Refs(s)
           O == Refs(o)
           g == container_free(z.h, r, s[p].type)
           u == [h |-> g, ra |-> t]
<1>1. /\ z.h \in Heaps /\ s \in Seq(Entries) /\ n \in Nat /\ o \in Seq(Entries)
      /\ Arranged(s) /\ Arranged(o) /\ Typed(z.h, s) /\ Typed(z.h, o)
      /\ Sound(z.h, R, O)
  BY OkFacts
<1>2. p \in 1..n /\ u.h = g /\ u.ra = t
  OBVIOUS
<1>3. OneLess(Entries, t, s, p)
  BY <1>1, RemoveFacts
<1>4. g = container_free(z.h, r, Object(z.h, r).type)
  BY <1>1, <1>2 DEF Typed
<1>5. r \in R
  BY <1>1, <1>2, EntryFacts
<1> HIDE DEF t, u, s, g, R, O, r
<1>6. Sound(g, R \ {r}, O) /\ \A x \in (R \ {r}) \cup O : Same(z.h, g, x)
  BY <1>1, <1>4, <1>5, FreeCorrect
<1>7. /\ t \in Seq(Entries) /\ Len(t) = n - 1
      /\ \A i \in 1..(p - 1) : t[i] = s[i]
      /\ \A i \in (p + 1)..n : t[i - 1] = s[i]
  BY <1>3 DEF OneLess, n
<1> DEFINE Old(i) == IF i < p THEN i ELSE i + 1
<1> HIDE DEF n
<1>8. ASSUME NEW i \in 1..(n - 1) PROVE Old(i) \in 1..n /\ Old(i) # p /\ t[i] = s[Old(i)]
  <2>1. CASE i < p
    <3>1. i \in 1..(p - 1) /\ i \in 1..n
      BY <1>1, <1>2, <2>1
    <3> QED
      BY <1>7, <2>1, <3>1
  <2>2. CASE i >= p
    <3>1. i + 1 \in (p + 1)..n /\ (i + 1) - 1 = i /\ i + 1 \in 1..n /\ ~(i < p) /\ i + 1 # p
      BY <1>1, <1>2, <2>2
    <3>2. t[(i + 1) - 1] = s[i + 1]
      BY <1>7, <3>1
    <3> QED
      BY <3>1, <3>2
  <2> QED
    BY <1>1, <1>2, <2>1, <2>2
<1>9. ASSUME NEW j \in 1..n, j # p PROVE \E i \in 1..(n - 1) : t[i] = s[j]
  <2>1. CASE j < p
    <3>1. j \in 1..(p - 1) /\ j \in 1..(n - 1)
      BY <1>1, <1>2, <2>1
    <3> QED
      BY <1>7, <3>1
  <2>2. CASE j > p
    <3>1. j \in (p + 1)..n /\ j - 1 \in 1..(n - 1)
      BY <1>1, <1>2, <2>2
    <3> QED
      BY <1>7, <3>1
  <2> QED
    BY <1>1, <1>2, <1>9, <2>1, <2>2
<1>10. \A j \in 1..n : s[j].ref \in R /\ s[j].key \in Int
  BY <1>1, EntryFacts DEF n, R
<1>11. \A j \in 1..n : j # p => s[j].ref \in R \ {r}
  BY <1>1, <1>2, <1>10, PlacesDiffer DEF n, r
<1>12. Refs(t) = R \ {r}
  <2>1. ASSUME NEW x \in Refs(t) PROVE x \in R \ {r}
    <3>1. PICK i \in 1..(n - 1) : x = t[i].ref
      BY <1>7 DEF Refs
    <3>2. Old(i) \in 1..n /\ Old(i) # p /\ t[i] = s[Old(i)]
      BY <1>8
    <3> HIDE DEF Old
    <3> QED
      BY <1>11, <3>1, <3>2
  <2>2. ASSUME NEW x \in R \ {r} PROVE x \in Refs(t)
    <3>1. PICK j \in 1..n : x = s[j].ref
      BY DEF Refs, n, R
    <3>2. j # p
      BY <2>2, <3>1 DEF r
    <3>3. PICK i \in 1..(n - 1) : t[i] = s[j]
      BY <1>9, <3>2
    <3> QED
      BY <1>7, <3>1, <3>3 DEF Refs
  <2> QED
    BY <2>1, <2>2
<1>13. Arranged(t)
  <2>1. ASSUME NEW i \in 1..(n - 1), NEW j \in 1..(n - 1), i < j
        PROVE  t[i].key < t[j].key /\ t[i].ref # t[j].ref
    <3>1. Old(i) \in 1..n /\ Old(j) \in 1..n /\ t[i] = s[Old(i)] /\ t[j] = s[Old(j)]
      BY <1>8
    <3>2. Old(i) < Old(j)
      BY <1>1, <1>2, <2>1
    <3> HIDE DEF Old
    <3>3. s[Old(i)].key < s[Old(j)].key /\ s[Old(i)].ref # s[Old(j)].ref
      BY <1>1, <3>1, <3>2 DEF Arranged, n
    <3> QED
      BY <3>1, <3>3
  <2> QED
    BY <1>7, <2>1 DEF Arranged
<1>14. \A j \in 1..n : j # p => /\ Object(g, s[j].ref).type = Object(z.h, s[j].ref).type
                                /\ Values(g, s[j].ref) = Values(z.h, s[j].ref)
  BY <1>6, <1>11 DEF Same
<1>15. Typed(g, t)
  <2>1. ASSUME NEW i \in 1..(n - 1) PROVE t[i].type = Object(g, t[i].ref).type
    <3>1. Old(i) \in 1..n /\ Old(i) # p /\ t[i] = s[Old(i)]
      BY <1>8
    <3> HIDE DEF Old
    <3>2. s[Old(i)].type = Object(z.h, s[Old(i)].ref).type
      BY <1>1, <3>1 DEF Typed, n
    <3> QED
      BY <1>14, <3>1, <3>2
  <2> QED
    BY <1>7, <2>1 DEF Typed
<1>16. Kept(z.h, g, o)
  BY <1>6 DEF Kept, O
<1>17. Typed(g, o)
  BY <1>1, <1>16, KeptFacts
<1>18. g \in Heaps
  BY <1>6 DEF Sound
<1>19. u \in States
  BY <1>7, <1>18 DEF States, u
<1>20. Sound(g, Refs(t), O)
  BY <1>6, <1>12
<1>21. Ok(u, o)
  BY <1>1, <1>2, <1>13, <1>15, <1>17, <1>19, <1>20 DEF Ok, O
<1>22. ASSUME NEW x \in Universe
       PROVE  x \in Held(g, t) <=> High(x) # s[p].key /\ x \in Held(z.h, s)
  <2>1. ASSUME x \in Held(g, t) PROVE High(x) # s[p].key /\ x \in Held(z.h, s)
    <3>1. PICK i \in 1..(n - 1) : t[i].key = High(x) /\ Low(x) \in Values(g, t[i].ref)
      BY <1>7, <2>1 DEF Held
    <3>2. Old(i) \in 1..n /\ Old(i) # p /\ t[i] = s[Old(i)]
      BY <1>8
    <3> HIDE DEF Old
    <3>3. s[Old(i)].key # s[p].key
      BY <1>1, <1>2, <3>2, PlacesDiffer DEF n
    <3> QED
      BY <1>14, <3>1, <3>2, <3>3 DEF Held, n
  <2>2. ASSUME High(x) # s[p].key, x \in Held(z.h, s) PROVE x \in Held(g, t)
    <3>1. PICK j \in 1..n : s[j].key = High(x) /\ Low(x) \in Values(z.h, s[j].ref)
      BY <2>2 DEF Held, n
    <3>2. j # p
      BY <2>2, <3>1
    <3>3. PICK i \in 1..(n - 1) : t[i] = s[j]
      BY <1>9, <3>2
    <3> QED
      BY <1>7, <1>14, <3>1, <3>2, <3>3 DEF Held
  <2> QED
    BY <2>1, <2>2
<1>23. (\A i \in 1..n : i # p => Values(z.h, s[i].ref) # {}) => Filled(g, t)
  <2>1. ASSUME \A i \in 1..n : i # p => Values(z.h, s[i].ref) # {}, NEW i \in 1..(n - 1)
        PROVE  Values(g, t[i].ref) # {}
    <3>1. Old(i) \in 1..n /\ Old(i) # p /\ t[i] = s[Old(i)]
      BY <1>8
    <3> HIDE DEF Old
    <3> QED
      BY <1>14, <2>1, <3>1
  <2> QED
    BY <1>7, <2>1 DEF Filled
<1>24. NoneShared(s) => NoneShared(t)
  <2>1. ASSUME NoneShared(s), NEW i \in 1..(n - 1) PROVE t[i].type # "shared"
    <3>1. Old(i) \in 1..n /\ t[i] = s[Old(i)]
      BY <1>8
    <3> HIDE DEF Old
    <3> QED
      BY <2>1, <3>1 DEF NoneShared, n
  <2> QED
    BY <1>7, <2>1 DEF NoneShared
<1> QED
  BY <1>2, <1>7, <1>16, <1>21, <1>22, <1>23, <1>24 DEF u, t, s, g, r, n

-----------------------------------------------------------------------------
(* Calls on one bitmap.                                                    *)

\* A call has made u of z: a bitmap with the values S.
Became(z, u, o, S) ==
  /\ Ok(u, o) /\ Kept(z.h, u.h, o)
  /\ Filled(u.h, u.ra)
  /\ Held(u.h, u.ra) = S
  /\ NoneShared(z.ra) => NoneShared(u.ra)

\* Two calls, one after the other.
LEMMA BecameTwice ==
  ASSUME NEW z, NEW u, NEW w, NEW o, NEW S, NEW T, Became(z, u, o, S), Became(u, w, o, T)
  PROVE  Became(z, w, o, T)
<1>1. Kept(z.h, w.h, o)
  BY SameTwice DEF Became, Kept
<1> QED
  BY <1>1 DEF Became

\* A call that changed one entry to a value or more.
LEMMA TurnedBecame ==
  ASSUME NEW z, NEW o, Ok(z, o), Filled(z.h, z.ra), NEW p \in 1..Len(z.ra), NEW u, NEW S,
         Turned(z, u, o, p, S), S # {}, u.ra[p].type # "shared", NEW T, T = Held(u.h, u.ra)
  PROVE  Became(z, u, o, T) /\ Len(u.ra) = Len(z.ra) /\ u.ra[p].key = z.ra[p].key
<1>1. Ok(u, o) /\ Kept(z.h, u.h, o) /\ Len(u.ra) = Len(z.ra) /\ u.ra[p].key = z.ra[p].key
  BY DEF Turned
<1>2. Filled(u.h, u.ra)
  BY TurnedHeld
<1>3. NoneShared(z.ra) => NoneShared(u.ra)
  BY TurnedUnshared
<1> QED
  BY <1>1, <1>2, <1>3 DEF Became

\* A value for the container of its key, which is the bitmap's own.
LEMMA AddAtCorrect ==
  ASSUME BulkAssumption, NEW z, NEW o, Ok(z, o), Filled(z.h, z.ra), NEW p \in 1..Len(z.ra),
         z.ra[p].type # "shared", NEW val \in Universe, High(val) = z.ra[p].key
  PROVE  LET u == AddAtIndex(z, p - 1, val)
         IN  /\ Became(z, u, o, Held(z.h, z.ra) \cup {val})
             /\ Len(u.ra) = Len(z.ra) /\ u.ra[p].key = z.ra[p].key
             /\ u.ra[p].type # "shared"
             /\ LET new == container_add(z.h, z.ra[p].ref, Low(val), z.ra[p].type)
                IN  u.ra[p] = Entry(z.ra[p].key, new.ref, new.type)
<1> DEFINE new == container_add(z.h, z.ra[p].ref, Low(val), z.ra[p].type)
           V == Values(z.h, z.ra[p].ref)
           S == V \cup {Low(val)}
           u == AddAtIndex(z, p - 1, val)
<1>1. Changes(z, p, new, S)
  BY AddChanges
<1>2. V \in SUBSET Lows
  BY PlainEntry
<1>3. Low(val) \in Lows
  BY HalvesFacts
<1>4. u = PutBack(z, p - 1, new)
  <2>1. (p - 1) + 1 = p
    OBVIOUS
  <2> QED
    BY <2>1 DEF AddAtIndex
<1> HIDE DEF new, u, V
<1>5. S \in SUBSET Lows /\ S # {}
  BY <1>2, <1>3
<1> HIDE DEF S
<1>6. /\ Turned(z, u, o, p, S)
      /\ u.ra[p] = Entry(z.ra[p].key, new.ref, new.type)
      /\ new.type \in PlainTypes
  BY <1>1, <1>4, <1>5, PutBackCorrect
<1>7. u.ra[p].type # "shared"
  BY <1>6 DEF Entry, PlainTypes
<1>8. Held(u.h, u.ra) = Held(z.h, z.ra) \cup {val}
  BY <1>6, TurnedSets DEF S, V
<1>9. /\ Became(z, u, o, Held(z.h, z.ra) \cup {val})
      /\ Len(u.ra) = Len(z.ra) /\ u.ra[p].key = z.ra[p].key
  BY <1>5, <1>6, <1>7, <1>8, TurnedBecame
<1> QED
  BY <1>6, <1>7, <1>9 DEF u, new

\* ra_unshare_container_at_index makes a container the bitmap's own.
LEMMA UnshareBecame ==
  ASSUME BulkAssumption, NEW z, NEW o, Ok(z, o), Filled(z.h, z.ra), NEW p \in 1..Len(z.ra)
  PROVE  LET u == ra_unshare_container_at_index(z, p - 1)
         IN  /\ Became(z, u, o, Held(z.h, z.ra))
             /\ Len(u.ra) = Len(z.ra) /\ u.ra[p].key = z.ra[p].key
             /\ u.ra[p].type # "shared"
<1> DEFINE V == Values(z.h, z.ra[p].ref)
           u == ra_unshare_container_at_index(z, p - 1)
<1>1. Turned(z, u, o, p, V) /\ u.ra[p].type # "shared"
  BY UnshareCorrect
<1>2. V # {}
  BY DEF Filled
<1>3. Held(u.h, u.ra) = Held(z.h, z.ra)
  <2>1. z.ra[p].key \in 0..(KeyCount - 1)
    BY OkFacts, EntryFacts
  <2>2. \A x \in Universe : x \in Held(u.h, u.ra) <=> x \in Held(z.h, z.ra)
    <3> HIDE DEF u, V
    <3>1. \A x \in Universe : x \in Held(u.h, u.ra) <=>
            IF High(x) = z.ra[p].key THEN Low(x) \in V ELSE x \in Held(z.h, z.ra)
      BY <1>1, TurnedHeld
    <3>2. \A x \in Universe : High(x) = z.ra[p].key => (x \in Held(z.h, z.ra) <=> Low(x) \in V)
      BY HeldAt DEF V
    <3> QED
      BY <3>1, <3>2
  <2> QED
    BY <2>2 DEF Held
<1> HIDE DEF u, V
<1>4. /\ Became(z, u, o, Held(z.h, z.ra))
      /\ Len(u.ra) = Len(z.ra) /\ u.ra[p].key = z.ra[p].key
  BY <1>1, <1>2, <1>3, TurnedBecame
<1> QED
  BY <1>1, <1>4 DEF u

\* A new container for one value.
LEMMA CreatedWith ==
  ASSUME BulkAssumption, NEW h, NEW R, NEW O, Sound(h, R, O), NEW low \in Lows
  PROVE  LET created == New(h, Plain("array", {}))
             new == container_add(created.h, created.ref, low, "array")
         IN  /\ Sound(new.h, R \cup {new.ref}, O) /\ new.ref \notin R \cup O
             /\ new.type = "array" /\ Object(new.h, new.ref).type = "array"
             /\ Values(new.h, new.ref) = {low} /\ new.ref \in Nat
             /\ \A x \in R \cup O : Same(h, new.h, x)
<1> DEFINE empty == Plain("array", {})
           n == New(h, empty).ref
           f == New(h, empty).h
           w == Handle(f, n, "array")
           one == Plain("array", {low})
           g == Write(f, n, one)
           new == container_add(f, n, low, "array")
<1>1. /\ empty \in PlainObjects /\ empty.set = {} /\ empty.type = "array"
      /\ one \in PlainObjects /\ one.set = {low} /\ one.type = "array"
  BY DEF Plain, PlainObjects, PlainTypes
<1> HIDE DEF empty, one
<1>2. /\ n \notin Indices(h) /\ n \notin R \cup O
      /\ Sound(f, R \cup {n}, O)
      /\ IsPlain(f, n) /\ Object(f, n) = empty
      /\ \A x \in R \cup O : Same(h, f, x)
  BY <1>1, Created
<1> HIDE DEF f, n
<1>3. f \in Heaps /\ Alive(f, n) /\ n \in Nat
  <2>1. f \in Heaps /\ n \in Indices(f)
    BY <1>2 DEF Sound, IsPlain
  <2> QED
    BY <1>2, <2>1, AliveFacts, HeapFacts
<1>4. /\ Sound(g, R \cup {n}, O) /\ IsPlain(g, n) /\ Object(g, n) = one
      /\ \A x \in ((R \cup {n}) \cup O) \ {n} : Same(f, g, x)
  BY <1>1, <1>2, Written
<1>5. g \in Heaps
  BY <1>4 DEF Sound
<1>6. w.h = f /\ w.ref = n /\ w.type = "array"
  BY DEF Handle
<1>7. new = AddTo(w, low)
  BY DEF container_add, get_writable_copy_if_shared
<1> HIDE DEF w
<1>8. Cardinality(empty.set) # DEFAULT_MAX_SIZE
  BY <1>1, FS_EmptySet DEF BulkAssumption
<1>9. AddTo(w, low) = Handle(g, n, "array")
  <2>1. Object(w.h, w.ref).set = {} /\ Cardinality({}) # DEFAULT_MAX_SIZE
    BY <1>1, <1>2, <1>6, <1>8
  <2>2. {} \cup {low} = {low}
    OBVIOUS
  <2> QED
    BY <1>3, <1>6, <2>1, <2>2 DEF AddTo, one
<1>10. new.h = g /\ new.ref = n /\ new.type = "array"
  BY <1>7, <1>9 DEF Handle
<1> HIDE DEF new, g
<1>11. \A x \in R \cup O : Same(h, g, x)
  BY <1>2, <1>4, SameTwice
<1>12. Values(g, n) = {low} /\ Object(g, n).type = "array"
  BY <1>1, <1>4, <1>5, AliveFacts
<1> QED
  BY <1>2, <1>3, <1>4, <1>10, <1>11, <1>12 DEF new, f, n, empty

\* containerptr_roaring_bitmap_add: the value is in, and the index is that of the
\* container of its key, which is the bitmap's own.
LEMMA AddCorrect ==
  ASSUME BulkAssumption, NEW z, NEW o, Ok(z, o), Filled(z.h, z.ra), NEW val \in Universe
  PROVE  LET r == containerptr_roaring_bitmap_add(z, val)
         IN  /\ Became(z, r.s, o, Held(z.h, z.ra) \cup {val})
             /\ r.index + 1 \in 1..Len(r.s.ra)
             /\ r.s.ra[r.index + 1].key = High(val)
             /\ r.s.ra[r.index + 1].type # "shared"
<1> DEFINE key == High(val)
           i == ra_get_index(z.ra, key)
           r == containerptr_roaring_bitmap_add(z, val)
<1>1. /\ Sound(z.h, Refs(z.ra), Refs(o)) /\ Arranged(z.ra) /\ z.ra \in Seq(Entries)
  BY OkFacts
<1>2. key \in 0..(KeyCount - 1) /\ Low(val) \in Lows /\ key \in Nat
  BY HalvesFacts
<1> HIDE DEF key
<1>3. /\ i \in Int
      /\ i >= 0 => i + 1 \in 1..Len(z.ra) /\ z.ra[i + 1].key = key
      /\ i < 0 => /\ -i - 1 \in 0..Len(z.ra)
                  /\ \A j \in 1..Len(z.ra) : /\ j <= -i - 1 => z.ra[j].key < key
                                             /\ j > -i - 1 => z.ra[j].key > key
  BY <1>1, <1>2, SearchCorrect
<1>4. CASE i >= 0
  <2> DEFINE u == ra_unshare_container_at_index(z, i)
             w == AddAtIndex(u, i, val)
             p == i + 1
  <2>1. r = [s |-> w, index |-> i]
    BY <1>4 DEF containerptr_roaring_bitmap_add, key
  <2> HIDE DEF i
  <2>2. p \in 1..Len(z.ra) /\ p - 1 = i /\ z.ra[p].key = key
    BY <1>3, <1>4
  <2>3. /\ Became(z, u, o, Held(z.h, z.ra))
        /\ Len(u.ra) = Len(z.ra) /\ u.ra[p].key = z.ra[p].key
        /\ u.ra[p].type # "shared"
    <3> HIDE DEF p
    <3> QED
      BY <2>2, UnshareBecame
  <2> HIDE DEF u
  <2>4. Ok(u, o) /\ Filled(u.h, u.ra) /\ Held(u.h, u.ra) = Held(z.h, z.ra) /\ p \in 1..Len(u.ra)
    BY <2>2, <2>3 DEF Became
  <2>5. /\ Became(u, w, o, Held(u.h, u.ra) \cup {val})
        /\ Len(w.ra) = Len(u.ra) /\ w.ra[p].key = u.ra[p].key
        /\ w.ra[p].type # "shared"
    <3>1. High(val) = u.ra[p].key
      BY <2>2, <2>3 DEF key
    <3> HIDE DEF p
    <3> QED
      BY <2>2, <2>3, <2>4, <3>1, AddAtCorrect
  <2> HIDE DEF w, r
  <2>6. Became(z, w, o, Held(z.h, z.ra) \cup {val})
    BY <2>3, <2>4, <2>5, BecameTwice
  <2>7. r.s = w /\ r.index + 1 = p
    BY <2>1
  <2> HIDE DEF p
  <2>8. p \in 1..Len(w.ra) /\ w.ra[p].key = key
    BY <2>2, <2>3, <2>5
  <2> QED
    BY <2>5, <2>6, <2>7, <2>8 DEF r, key
<1>5. CASE i < 0
  <2> DEFINE created == New(z.h, Plain("array", {}))
             new == container_add(created.h, created.ref, Low(val), "array")
             e == Entry(key, new.ref, new.type)
             at == -i - 1
             w == [h |-> new.h, ra |-> InsertAt(z.ra, at + 1, e)]
  <2>1. at + 1 = -i
    BY <1>3
  <2>2. r = [s |-> w, index |-> at]
    <3>1. r = [s |-> InsertNew(z, -i, val, new), index |-> at]
      <4> HIDE DEF new
      <4>1. ~(i >= 0)
        BY <1>3, <1>5
      <4> QED
        BY <4>1 DEF containerptr_roaring_bitmap_add, key, new
    <3> HIDE DEF new, i, r
    <3>2. InsertNew(z, -i, val, new) = [h |-> new.h, ra |-> InsertAt(z.ra, -i, e)]
      BY DEF InsertNew, key
    <3> QED
      BY <2>1, <3>1, <3>2
  <2> HIDE DEF i
  <2>3. /\ Sound(new.h, Refs(z.ra) \cup {new.ref}, Refs(o)) /\ new.ref \notin Refs(z.ra) \cup Refs(o)
        /\ new.type = "array" /\ Object(new.h, new.ref).type = "array"
        /\ Values(new.h, new.ref) = {Low(val)} /\ new.ref \in Nat
        /\ \A x \in Refs(z.ra) \cup Refs(o) : Same(z.h, new.h, x)
    BY <1>1, <1>2, CreatedWith
  <2> HIDE DEF new
  <2>4. e \in Entries /\ e.ref = new.ref /\ e.type = "array" /\ e.key = key
    BY <1>2, <2>3 DEF Entry, Entries, PlainTypes
  <2> HIDE DEF e
  <2>5. Insertion(z, o, new.h, at, e)
    BY <1>3, <1>5, <2>3, <2>4 DEF Insertion
  <2> HIDE DEF at, w
  <2>6. /\ Ok(w, o) /\ Kept(z.h, w.h, o)
        /\ at + 1 \in 1..Len(w.ra) /\ w.ra[at + 1] = e
        /\ \A x \in Universe :
             x \in Held(w.h, w.ra) <=>
               IF High(x) = e.key THEN Low(x) \in Values(new.h, e.ref) ELSE x \in Held(z.h, z.ra)
        /\ Values(new.h, e.ref) # {} /\ Filled(z.h, z.ra) => Filled(w.h, w.ra)
        /\ e.type # "shared" /\ NoneShared(z.ra) => NoneShared(w.ra)
    BY <2>5, InsertEntry DEF w
  <2>7. Held(w.h, w.ra) = Held(z.h, z.ra) \cup {val}
    <3>1. Held(w.h, w.ra) \subseteq Universe /\ Held(z.h, z.ra) \subseteq Universe
      BY DEF Held
    <3>2. \A x \in Universe : High(x) = key /\ x \in Held(z.h, z.ra) => FALSE
      <4>1. ASSUME NEW x \in Universe, High(x) = key, x \in Held(z.h, z.ra) PROVE FALSE
        <5>1. PICK j \in 1..Len(z.ra) : z.ra[j].key = key
          BY <4>1 DEF Held
        <5>2. at \in 0..Len(z.ra) /\ (j <= at => z.ra[j].key < key) /\ (j > at => z.ra[j].key > key)
          BY <1>3, <1>5, <5>1 DEF at
        <5>3. j <= at \/ j > at
          BY <5>2
        <5> QED
          BY <1>2, <5>1, <5>2, <5>3
      <4> QED
        BY <4>1
    <3>3. \A x \in Universe : High(x) = key => (Low(x) = Low(val) <=> x = val)
      BY SameHalves DEF key
    <3>4. High(val) = key
      BY DEF key
    <3>5. \A x \in Universe : x \in Held(w.h, w.ra) <=> x \in Held(z.h, z.ra) \cup {val}
      BY <2>3, <2>4, <2>6, <3>2, <3>3, <3>4
    <3> QED
      BY <3>1, <3>5
  <2>8. Became(z, w, o, Held(z.h, z.ra) \cup {val})
    BY <2>3, <2>4, <2>6, <2>7 DEF Became
  <2> HIDE DEF r
  <2>9. r.s = w /\ r.index = at
    BY <2>2
  <2> QED
    BY <2>4, <2>6, <2>8, <2>9 DEF r, key
<1> QED
  BY <1>3, <1>4, <1>5 DEF key

\* RemoveAtIndex: a value is out of the container of its key, which is dropped when it
\* is empty.
LEMMA RemoveAtCorrect ==
  ASSUME BulkAssumption, NEW z, NEW o, Ok(z, o), Filled(z.h, z.ra), NEW p \in 1..Len(z.ra),
         z.ra[p].type # "shared", NEW val \in Universe, High(val) = z.ra[p].key
  PROVE  LET u == RemoveAtIndex(z, p - 1, val)
         IN  /\ Became(z, u, o, Held(z.h, z.ra) \ {val})
             /\ \/ Len(u.ra) = Len(z.ra) - 1
                \/ Len(u.ra) = Len(z.ra) /\ u.ra[p].key = z.ra[p].key /\ u.ra[p].type # "shared"
<1> DEFINE new == container_remove(z.h, z.ra[p].ref, Low(val), z.ra[p].type)
           V == Values(z.h, z.ra[p].ref)
           S == V \ {Low(val)}
           w == PutBack(z, p - 1, new)
           u == RemoveAtIndex(z, p - 1, val)
           d == [h |-> container_free(w.h, w.ra[p].ref, w.ra[p].type), ra |-> RemoveAt(w.ra, p)]
<1>1. Changes(z, p, new, S)
  BY RemoveChanges
<1>2. V \in SUBSET Lows
  BY PlainEntry
<1>3. (p - 1) + 1 = p
  OBVIOUS
<1>4. u = DropIfEmpty(w, p - 1)
  BY <1>3 DEF RemoveAtIndex
<1> HIDE DEF new, w
<1>5. u = IF Values(w.h, w.ra[p].ref) # {} THEN w ELSE d
  BY <1>3, <1>4 DEF DropIfEmpty
<1> HIDE DEF u, V, d
<1>6. S \in SUBSET Lows
  BY <1>2
<1> HIDE DEF S
<1>7. /\ Turned(z, w, o, p, S)
      /\ w.ra[p] = Entry(z.ra[p].key, new.ref, new.type)
      /\ new.type \in PlainTypes
  BY <1>1, <1>6, PutBackCorrect DEF w
<1>8. w.ra[p].type # "shared"
  BY <1>7 DEF Entry, PlainTypes
<1>9. Held(w.h, w.ra) = Held(z.h, z.ra) \ {val}
  BY <1>7, TurnedSets DEF S, V
<1>10. /\ Values(w.h, w.ra[p].ref) = S /\ w.ra[p].key = z.ra[p].key /\ Len(w.ra) = Len(z.ra)
       /\ Ok(w, o) /\ Kept(z.h, w.h, o)
  BY <1>7 DEF Turned
<1>11. CASE S # {}
  <2>1. u = w
    BY <1>5, <1>10, <1>11
  <2>2. Became(z, w, o, Held(z.h, z.ra) \ {val})
    BY <1>7, <1>8, <1>9, <1>11, TurnedBecame
  <2> QED
    BY <1>8, <1>10, <2>1, <2>2 DEF u
<1>12. CASE S = {}
  <2>1. u = d
    BY <1>5, <1>10, <1>12
  <2>2. p \in 1..Len(w.ra)
    BY <1>10
  <2>3. /\ Ok(d, o) /\ Kept(w.h, d.h, o) /\ Len(d.ra) = Len(w.ra) - 1
        /\ \A x \in Universe :
             x \in Held(d.h, d.ra) <=> High(x) # w.ra[p].key /\ x \in Held(w.h, w.ra)
        /\ (\A i \in 1..Len(w.ra) : i # p => Values(w.h, w.ra[i].ref) # {}) => Filled(d.h, d.ra)
        /\ NoneShared(w.ra) => NoneShared(d.ra)
    BY <1>10, <2>2, DropEntry DEF d
  <2>4. \A i \in 1..Len(w.ra) : i # p => Values(w.h, w.ra[i].ref) # {}
    <3>1. \A i \in 1..Len(z.ra) : i # p /\ Values(z.h, z.ra[i].ref) # {} => Values(w.h, w.ra[i].ref) # {}
      BY <1>7, TurnedHeld
    <3> QED
      BY <1>10, <3>1 DEF Filled
  <2>5. \A x \in Universe : High(x) = w.ra[p].key => x \notin Held(w.h, w.ra)
    BY <1>10, <1>12, <2>2, HeldAt
  <2>6. Held(d.h, d.ra) = Held(w.h, w.ra)
    <3>1. Held(d.h, d.ra) \subseteq Universe /\ Held(w.h, w.ra) \subseteq Universe
      BY DEF Held
    <3> QED
      BY <2>3, <2>5, <3>1
  <2>7. Kept(z.h, d.h, o)
    BY <1>10, <2>3, SameTwice DEF Kept
  <2>8. NoneShared(z.ra) => NoneShared(w.ra)
    BY <1>7, <1>8, TurnedUnshared
  <2>9. Became(z, d, o, Held(z.h, z.ra) \ {val})
    BY <1>9, <2>3, <2>4, <2>6, <2>7, <2>8 DEF Became
  <2> QED
    BY <1>10, <2>1, <2>3, <2>9 DEF u
<1> QED
  BY <1>11, <1>12

\* A call that finds nothing to do.
LEMMA Unchanged ==
  ASSUME NEW z, NEW o, Ok(z, o), Filled(z.h, z.ra)
  PROVE  Became(z, z, o, Held(z.h, z.ra))
BY DEF Became, Kept, Same

\* A value whose key the bitmap does not have is not in it.
LEMMA NotHeld ==
  ASSUME BulkAssumption, NEW z, NEW o, Ok(z, o), NEW val \in Universe,
         ra_get_index(z.ra, High(val)) < 0
  PROVE  val \notin Held(z.h, z.ra)
<1> DEFINE key == High(val)
           i == ra_get_index(z.ra, key)
<1>1. Arranged(z.ra) /\ z.ra \in Seq(Entries) /\ key \in Nat
  BY OkFacts, HalvesFacts
<1> HIDE DEF key
<1>2. /\ i \in Int
      /\ i < 0 => /\ -i - 1 \in 0..Len(z.ra)
                  /\ \A j \in 1..Len(z.ra) : /\ j <= -i - 1 => z.ra[j].key < key
                                             /\ j > -i - 1 => z.ra[j].key > key
  BY <1>1, SearchCorrect
<1>3. i < 0
  BY DEF key
<1> HIDE DEF i
<1>4. ASSUME NEW j \in 1..Len(z.ra), z.ra[j].key = key PROVE FALSE
  <2>1. (j <= -i - 1 => z.ra[j].key < key) /\ (j > -i - 1 => z.ra[j].key > key)
    BY <1>2, <1>3
  <2>2. j <= -i - 1 \/ j > -i - 1
    BY <1>2
  <2> QED
    BY <1>1, <1>4, <2>1, <2>2
<1> QED
  BY <1>4 DEF Held, key

\* roaring_bitmap_remove: the value is out.
LEMMA RemoveCorrect ==
  ASSUME BulkAssumption, NEW z, NEW o, Ok(z, o), Filled(z.h, z.ra), NEW val \in Universe
  PROVE  Became(z, roaring_bitmap_remove(z, val), o, Held(z.h, z.ra) \ {val})
<1> DEFINE i == ra_get_index(z.ra, High(val))
           r == roaring_bitmap_remove(z, val)
<1>1. i \in Int /\ (i >= 0 => i + 1 \in 1..Len(z.ra) /\ z.ra[i + 1].key = High(val))
  BY OkFacts, HalvesFacts, SearchCorrect
<1>2. CASE i < 0
  <2>1. r = z
    BY <1>2 DEF roaring_bitmap_remove
  <2>2. val \notin Held(z.h, z.ra)
    BY <1>2, NotHeld
  <2>3. Held(z.h, z.ra) \ {val} = Held(z.h, z.ra)
    BY <2>2
  <2> QED
    BY <2>1, <2>3, Unchanged
<1>3. CASE i >= 0
  <2> DEFINE u == ra_unshare_container_at_index(z, i)
             w == RemoveAtIndex(u, i, val)
             p == i + 1
  <2>1. r = w
    BY <1>1, <1>3 DEF roaring_bitmap_remove
  <2> HIDE DEF i, r
  <2>2. p \in 1..Len(z.ra) /\ p - 1 = i /\ z.ra[p].key = High(val)
    BY <1>1, <1>3
  <2>3. /\ Became(z, u, o, Held(z.h, z.ra))
        /\ Len(u.ra) = Len(z.ra) /\ u.ra[p].key = z.ra[p].key
        /\ u.ra[p].type # "shared"
    <3> HIDE DEF p
    <3> QED
      BY <2>2, UnshareBecame
  <2> HIDE DEF u
  <2>4. Ok(u, o) /\ Filled(u.h, u.ra) /\ Held(u.h, u.ra) = Held(z.h, z.ra) /\ p \in 1..Len(u.ra)
    BY <2>2, <2>3 DEF Became
  <2>5. Became(u, w, o, Held(u.h, u.ra) \ {val})
    <3> HIDE DEF p
    <3> QED
      BY <2>2, <2>3, <2>4, RemoveAtCorrect
  <2> HIDE DEF w
  <2>6. Became(z, w, o, Held(z.h, z.ra) \ {val})
    BY <2>3, <2>4, <2>5, BecameTwice
  <2> QED
    BY <2>1, <2>6 DEF r
<1> QED
  BY <1>1, <1>2, <1>3

\* One step of roaring_bitmap_remove_many.
RemoveStep(t, val) ==
  LET same == t.pos >= 0 /\ t.s.ra[t.pos + 1].key = High(val)
      pos == IF same THEN t.pos ELSE ra_get_index(t.s.ra, High(val))
  IN  RemoveNext(IF ~same /\ pos >= 0 THEN ra_unshare_container_at_index(t.s, pos)
                 ELSE t.s, pos, val)

\* The container at the position that it keeps is the bitmap's own.
Stays(t) == /\ t.pos \in Int
            /\ t.pos >= 0 => t.pos + 1 \in 1..Len(t.s.ra) /\ t.s.ra[t.pos + 1].type # "shared"

\* The value is out and the position is that of a container of the bitmap's own.
LEMMA RemoveAtPosition ==
  ASSUME BulkAssumption, NEW u, NEW o, Ok(u, o), Filled(u.h, u.ra), NEW pos \in Nat,
         pos + 1 \in 1..Len(u.ra), u.ra[pos + 1].type # "shared",
         NEW val \in Universe, High(val) = u.ra[pos + 1].key
  PROVE  LET n == RemoveNext(u, pos, val)
         IN  Became(u, n.s, o, Held(u.h, u.ra) \ {val}) /\ Stays(n)
<1> DEFINE p == pos + 1
           w == RemoveAtIndex(u, pos, val)
           n == RemoveNext(u, pos, val)
<1>1. p \in 1..Len(u.ra) /\ p - 1 = pos
  OBVIOUS
<1>2. n = [s |-> w, pos |-> IF Len(w.ra) < Len(u.ra) THEN -1 ELSE pos]
  BY DEF RemoveNext, StayAt
<1>3. /\ Became(u, w, o, Held(u.h, u.ra) \ {val})
      /\ \/ Len(w.ra) = Len(u.ra) - 1
         \/ Len(w.ra) = Len(u.ra) /\ w.ra[p].key = u.ra[p].key /\ w.ra[p].type # "shared"
  <2> HIDE DEF p
  <2> QED
    BY <1>1, RemoveAtCorrect DEF p
<1> HIDE DEF w, n
<1>4. n.s = w /\ n.pos = IF Len(w.ra) < Len(u.ra) THEN -1 ELSE pos
  BY <1>2
<1>5. Len(u.ra) \in Nat
  BY OkFacts
<1>6. Stays(n)
  BY <1>1, <1>3, <1>4, <1>5 DEF Stays
<1> QED
  BY <1>3, <1>4, <1>6 DEF n

\* A step takes its value out.
LEMMA RemoveStepCorrect ==
  ASSUME BulkAssumption, NEW t, NEW o, Ok(t.s, o), Filled(t.s.h, t.s.ra), Stays(t),
         NEW val \in Universe
  PROVE  LET n == RemoveStep(t, val)
         IN  Became(t.s, n.s, o, Held(t.s.h, t.s.ra) \ {val}) /\ Stays(n)
<1> DEFINE z == t.s
           i == ra_get_index(z.ra, High(val))
           n == RemoveStep(t, val)
           same == t.pos >= 0 /\ z.ra[t.pos + 1].key = High(val)
<1>1. i \in Int /\ (i >= 0 => i + 1 \in 1..Len(z.ra) /\ z.ra[i + 1].key = High(val))
  BY OkFacts, HalvesFacts, SearchCorrect
<1>2. CASE same
  <2>1. n = RemoveNext(z, t.pos, val)
    BY <1>2 DEF RemoveStep
  <2>2. t.pos \in Nat /\ t.pos + 1 \in 1..Len(z.ra) /\ z.ra[t.pos + 1].type # "shared"
    BY <1>2 DEF Stays
  <2> HIDE DEF z, n
  <2>3. Ok(z, o) /\ Filled(z.h, z.ra)
    BY DEF z
  <2> QED
    BY <1>2, <2>1, <2>2, <2>3, RemoveAtPosition DEF n, z
<1>3. CASE ~same /\ i >= 0
  <2> DEFINE u == ra_unshare_container_at_index(z, i)
             p == i + 1
  <2>1. n = RemoveNext(u, i, val)
    BY <1>3 DEF RemoveStep
  <2> HIDE DEF i, z, n
  <2>2. Ok(z, o) /\ Filled(z.h, z.ra)
    BY DEF z
  <2>3. p \in 1..Len(z.ra) /\ p - 1 = i /\ z.ra[p].key = High(val) /\ i \in Nat
    BY <1>1, <1>3
  <2>4. /\ Became(z, u, o, Held(z.h, z.ra))
        /\ Len(u.ra) = Len(z.ra) /\ u.ra[p].key = z.ra[p].key
        /\ u.ra[p].type # "shared"
    <3> HIDE DEF p
    <3> QED
      BY <2>2, <2>3, UnshareBecame
  <2> HIDE DEF u
  <2>5. Ok(u, o) /\ Filled(u.h, u.ra) /\ Held(u.h, u.ra) = Held(z.h, z.ra) /\ p \in 1..Len(u.ra)
    BY <2>3, <2>4 DEF Became
  <2>6. Became(u, n.s, o, Held(u.h, u.ra) \ {val}) /\ Stays(n)
    BY <2>1, <2>3, <2>4, <2>5, RemoveAtPosition
  <2>7. Became(z, n.s, o, Held(z.h, z.ra) \ {val})
    BY <2>4, <2>5, <2>6, BecameTwice
  <2> QED
    BY <2>6, <2>7 DEF z, n
<1>4. CASE ~same /\ i < 0
  <2>1. n = [s |-> z, pos |-> i]
    BY <1>1, <1>4 DEF RemoveStep, RemoveNext
  <2>2. Ok(z, o) /\ Filled(z.h, z.ra)
    OBVIOUS
  <2>3. val \notin Held(z.h, z.ra)
    <3> HIDE DEF z
    <3> QED
      BY <1>4, <2>2, NotHeld
  <2> HIDE DEF n, i, z
  <2>4. n.s = z /\ n.pos = i
    BY <2>1
  <2>5. Held(z.h, z.ra) \ {val} = Held(z.h, z.ra)
    BY <2>3
  <2>6. Became(z, z, o, Held(z.h, z.ra))
    BY <2>2, Unchanged
  <2>7. Stays(n)
    BY <1>1, <1>4, <2>4 DEF Stays
  <2> QED
    BY <2>4, <2>5, <2>6, <2>7 DEF n, z
<1> QED
  BY <1>1, <1>2, <1>3, <1>4

-----------------------------------------------------------------------------
(* Calls with a context.                                                   *)

Contexts == [container : Nat, idx : Nat, key : 0..(KeyCount - 1),
             typecode : PlainTypes \cup {"shared", "none"}, use : {"none", "add", "search"}]

\* A context that has a container has that of an entry.
Fits(context, s) ==
  context.container # NullRef =>
    /\ context.idx + 1 \in 1..Len(s)
    /\ s[context.idx + 1] = Entry(context.key, context.container, context.typecode)

\* A context that a container may be changed through.
Writes(context) == context.container # NullRef => context.typecode # "shared"

\* A container that was changed in place has the type that it had.
LEMMA InPlace ==
  ASSUME NEW z, NEW o, Ok(z, o), NEW p \in 1..Len(z.ra), z.ra[p].type # "shared",
         NEW S \in SUBSET Lows, NEW new, Changes(z, p, new, S), new.ref = z.ra[p].ref
  PROVE  new.type = z.ra[p].type
<1> DEFINE r == z.ra[p].ref
           type == z.ra[p].type
<1>1. CASE new = Handle(Write(z.h, r, Plain(type, S)), r, type)
  <2> HIDE DEF type
  <2>1. new.type = type
    BY <1>1 DEF Handle
  <2> QED
    BY <2>1 DEF type
<1>2. ASSUME NEW t \in PlainTypes, new = Handle(New(z.h, Plain(t, S)).h, New(z.h, Plain(t, S)).ref, t)
      PROVE  FALSE
  <2> DEFINE obj == Plain(t, S)
             n == New(z.h, obj).ref
             f == New(z.h, obj).h
  <2>1. obj \in PlainObjects
    BY DEF Plain, PlainObjects
  <2>2. Sound(z.h, Refs(z.ra), Refs(o)) /\ r \in Indices(z.h)
    BY OkFacts, PlainEntry DEF IsPlain
  <2>3. n \notin Indices(z.h)
    <3> HIDE DEF obj
    <3> QED
      BY <2>1, <2>2, Created
  <2>4. new = Handle(f, n, t)
    BY <1>2
  <2> HIDE DEF f, n
  <2>5. new.ref = n
    BY <2>4 DEF Handle
  <2> QED
    BY <2>2, <2>3, <2>5
<1> QED
  BY <1>1, <1>2 DEF Changes

\* The cached path of add_bulk_impl does what adding at the index does.
LEMMA CachedIsAt ==
  ASSUME BulkAssumption, NEW z, NEW o, Ok(z, o), NEW context \in Contexts, Fits(context, z.ra),
         Writes(context), context.container # NullRef, NEW val \in Universe
  PROVE  LET new == container_add(z.h, context.container, Low(val), context.typecode)
             d == AddCached(z, context, new)
         IN  /\ d.s = AddAtIndex(z, context.idx, val)
             /\ d.context \in Contexts /\ d.context.use = context.use
             /\ d.context.container = new.ref /\ d.context.typecode = new.type
             /\ d.context.idx = context.idx /\ d.context.key = context.key
<1> DEFINE r == context.container
           type == context.typecode
           key == context.key
           p == context.idx + 1
           new == container_add(z.h, r, Low(val), type)
           d == AddCached(z, context, new)
           S == Values(z.h, r) \cup {Low(val)}
           g == container_free(new.h, r, type)
<1>1. /\ context.idx \in Nat /\ p - 1 = context.idx /\ p \in 1..Len(z.ra) /\ type # "shared"
      /\ z.ra[p] = Entry(key, r, type)
  BY DEF Fits, Writes, Contexts
<1>2. z.ra[p].ref = r /\ z.ra[p].type = type /\ z.ra[p].key = key
  <2> HIDE DEF r, type, key, p
  <2> QED
    BY <1>1 DEF Entry
<1>3. Changes(z, p, new, S)
  <2> HIDE DEF r, type, p
  <2> QED
    BY <1>1, <1>2, AddChanges
<1>4. S \in SUBSET Lows
  <2>1. Values(z.h, z.ra[p].ref) \in SUBSET Lows
    <3> HIDE DEF p, r, type
    <3> QED
      BY <1>1, <1>2, PlainEntry
  <2>2. Low(val) \in Lows
    BY HalvesFacts
  <2> HIDE DEF p
  <2> QED
    BY <1>2, <2>1, <2>2
<1>5. AddAtIndex(z, context.idx, val) = PutBack(z, context.idx, new)
  BY <1>2 DEF AddAtIndex
<1>6. PutBack(z, context.idx, new) =
        ra_set_container_at_index([z EXCEPT !.h = IF new.ref # r THEN g ELSE new.h],
                                  context.idx, new.ref, new.type)
  BY <1>2 DEF PutBack
<1>7. new.type \in PlainTypes /\ new.ref \in Nat
  <2>1. new.type \in PlainTypes
    <3> HIDE DEF new, S, r, type, p
    <3> QED
      BY <1>1, <1>2, <1>3, <1>4, PutBackCorrect
  <2>2. /\ Ok(PutBack(z, p - 1, new), o) /\ PutBack(z, p - 1, new).ra[p] = Entry(z.ra[p].key, new.ref, new.type)
        /\ Len(PutBack(z, p - 1, new).ra) = Len(z.ra)
    <3> HIDE DEF new, S, r, type, p
    <3>1. /\ Turned(z, PutBack(z, p - 1, new), o, p, S)
          /\ PutBack(z, p - 1, new).ra[p] = Entry(z.ra[p].key, new.ref, new.type)
      BY <1>1, <1>2, <1>3, <1>4, PutBackCorrect
    <3> QED
      BY <3>1 DEF Turned
  <2>3. new.ref \in Nat
    <3> DEFINE u == PutBack(z, p - 1, new)
    <3>1. p \in 1..Len(u.ra) /\ Ok(u, o) /\ u.ra[p] = Entry(z.ra[p].key, new.ref, new.type)
      BY <1>1, <2>2
    <3> HIDE DEF u, new, p
    <3>2. u.ra[p].ref \in Nat
      BY <3>1, OkFacts, EntryFacts
    <3> QED
      BY <3>1, <3>2 DEF Entry
  <2> QED
    BY <2>1, <2>3
<1>8. CASE new.ref = r
  <2>1. d = [s |-> [z EXCEPT !.h = new.h], context |-> context]
    BY <1>8 DEF AddCached
  <2>2. new.type = type
    <3> HIDE DEF new, S, r, type, p
    <3> QED
      BY <1>1, <1>2, <1>3, <1>4, <1>8, InPlace
  <2> HIDE DEF new
  <2>3. ra_set_container_at_index([z EXCEPT !.h = new.h], context.idx, r, type) = [z EXCEPT !.h = new.h]
    <3> DEFINE x == [z EXCEPT !.h = new.h]
               s == z.ra
    <3>1. s \in Seq(Entries) /\ z = [h |-> z.h, ra |-> s]
      BY OkFacts
    <3> HIDE DEF s
    <3>2. x = [h |-> new.h, ra |-> s]
      BY <3>1
    <3>3. s[p].ref = r /\ s[p].type = type /\ s[p] \in Entries /\ p \in 1..Len(s)
      <4> HIDE DEF r, type, p
      <4>1. p \in 1..Len(s)
        BY <1>1 DEF s
      <4> QED
        BY <1>2, <3>1, <4>1, EntryFacts DEF s
    <3> HIDE DEF x, p
    <3>4. ra_set_container_at_index(x, context.idx, r, type) =
            [h |-> new.h, ra |-> [s EXCEPT ![p].ref = r, ![p].type = type]]
      <4>1. ra_set_container_at_index(x, context.idx, r, type) =
              [[h |-> new.h, ra |-> s] EXCEPT !.ra[p].ref = r, !.ra[p].type = type]
        BY <3>2 DEF ra_set_container_at_index, p
      <4> HIDE DEF r, type
      <4>2. [[h |-> new.h, ra |-> s] EXCEPT !.ra[p].ref = r, !.ra[p].type = type] =
              [h |-> new.h, ra |-> [s EXCEPT ![p].ref = r, ![p].type = type]]
        <5> DEFINE y == [h |-> new.h, ra |-> s]
                   y2 == [y EXCEPT !.ra[p].ref = r]
                   s2 == [s EXCEPT ![p].ref = r]
        <5>1. y2 = [h |-> new.h, ra |-> s2]
          OBVIOUS
        <5> HIDE DEF y2, s2
        <5>2. [y2 EXCEPT !.ra[p].type = type] = [h |-> new.h, ra |-> [s2 EXCEPT ![p].type = type]]
          BY <5>1
        <5> QED
          BY <5>2 DEF y2, s2
      <4> QED
        BY <4>1, <4>2
    <3>5. [s EXCEPT ![p].ref = r, ![p].type = type] = s
      <4> HIDE DEF r, type
      <4> DEFINE e == s[p]
      <4>1. e \in [key : 0..(KeyCount - 1), ref : Nat, type : PlainTypes \cup {"shared"}]
        BY <3>3 DEF Entries
      <4>2. e.ref = r /\ e.type = type
        BY <3>3
      <4> HIDE DEF e
      <4>3. [e EXCEPT !.ref = r] = e
        BY <4>1, <4>2
      <4>4. [e EXCEPT !.type = type] = e
        BY <4>1, <4>2
      <4>5. [s EXCEPT ![p].ref = r] = s
        BY <3>1, <3>3, <4>3 DEF e
      <4>6. [s EXCEPT ![p].type = type] = s
        BY <3>1, <3>3, <4>4 DEF e
      <4>7. [s EXCEPT ![p].ref = r, ![p].type = type] = [[s EXCEPT ![p].ref = r] EXCEPT ![p].type = type]
        OBVIOUS
      <4> QED
        BY <4>5, <4>6, <4>7
    <3> QED
      BY <3>2, <3>4, <3>5 DEF x
  <2>4. AddAtIndex(z, context.idx, val) = [z EXCEPT !.h = new.h]
    BY <1>5, <1>6, <1>8, <2>2, <2>3
  <2> HIDE DEF d
  <2>5. d.s = [z EXCEPT !.h = new.h] /\ d.context = context
    BY <2>1
  <2> QED
    BY <1>8, <2>2, <2>4, <2>5 DEF d, new
<1>9. CASE new.ref # r
  <2> DEFINE c == [context EXCEPT !.container = new.ref, !.typecode = new.type]
  <2>1. d = [s |-> ra_set_container_at_index([z EXCEPT !.h = g], context.idx, new.ref, new.type),
             context |-> c]
    BY <1>9 DEF AddCached
  <2> HIDE DEF new, g
  <2>2. d.s = AddAtIndex(z, context.idx, val) /\ d.context = c
    <3> HIDE DEF c, d
    <3> QED
      BY <1>5, <1>6, <1>9, <2>1
  <2>3. /\ c \in Contexts /\ c.use = context.use /\ c.container = new.ref /\ c.typecode = new.type
        /\ c.idx = context.idx /\ c.key = context.key
    BY <1>7 DEF Contexts
  <2> HIDE DEF c, d
  <2> QED
    BY <2>2, <2>3 DEF d, new
<1> QED
  BY <1>8, <1>9

\* The context after a call that looked the container up.
LEMMA RememberFits ==
  ASSUME BulkAssumption, NEW context \in Contexts, NEW found, NEW val \in Universe,
         found.s.ra \in Seq(Entries), found.index + 1 \in 1..Len(found.s.ra), found.index \in Int,
         found.s.ra[found.index + 1].key = High(val), found.s.ra[found.index + 1].type # "shared"
  PROVE  LET d == Remember(context, found, val)
         IN  /\ d.s = found.s /\ d.context \in Contexts /\ d.context.use = context.use
             /\ Fits(d.context, found.s.ra) /\ Writes(d.context)
<1> DEFINE e == found.s.ra[found.index + 1]
           c == [context EXCEPT !.container = e.ref, !.typecode = e.type,
                                !.idx = found.index, !.key = High(val)]
           d == Remember(context, found, val)
<1>1. d = [s |-> found.s, context |-> c]
  BY DEF Remember
<1>2. /\ e.ref \in Nat /\ e.type \in PlainTypes \cup {"shared"} /\ e = Entry(e.key, e.ref, e.type)
  <2>1. e \in [key : 0..(KeyCount - 1), ref : Nat, type : PlainTypes \cup {"shared"}]
    BY EntryFacts DEF Entries
  <2> HIDE DEF e
  <2> QED
    BY <2>1 DEF Entry
<1>3. e.key = High(val) /\ e.type # "shared"
  OBVIOUS
<1>4. High(val) \in 0..(KeyCount - 1)
  BY HalvesFacts
<1>5. found.index \in Nat
  OBVIOUS
<1> HIDE DEF e, d
<1>6. /\ c \in Contexts /\ c.use = context.use /\ c.container = e.ref /\ c.typecode = e.type
      /\ c.idx = found.index /\ c.key = High(val)
  BY <1>2, <1>4, <1>5 DEF Contexts
<1> HIDE DEF c
<1>7. d.s = found.s /\ d.context = c
  BY <1>1
<1>8. Fits(c, found.s.ra)
  BY <1>2, <1>3, <1>6 DEF Fits, e
<1>9. Writes(c)
  BY <1>3, <1>6 DEF Writes
<1> QED
  BY <1>6, <1>7, <1>8, <1>9 DEF d

\* add_bulk_impl: the value is in, and the context is that of its container.
LEMMA AddBulkCorrect ==
  ASSUME BulkAssumption, NEW z, NEW o, Ok(z, o), Filled(z.h, z.ra),
         NEW context \in Contexts, Fits(context, z.ra), Writes(context), NEW val \in Universe
  PROVE  LET d == add_bulk_impl(z, context, val)
         IN  /\ Became(z, d.s, o, Held(z.h, z.ra) \cup {val})
             /\ d.context \in Contexts /\ d.context.use = context.use
             /\ Fits(d.context, d.s.ra) /\ Writes(d.context)
<1> DEFINE d == add_bulk_impl(z, context, val)
<1>1. CASE context.container = NullRef \/ context.key # High(val)
  <2> DEFINE r == containerptr_roaring_bitmap_add(z, val)
  <2>1. d = Remember(context, r, val)
    BY <1>1 DEF add_bulk_impl
  <2>2. /\ Became(z, r.s, o, Held(z.h, z.ra) \cup {val})
        /\ r.index + 1 \in 1..Len(r.s.ra)
        /\ r.s.ra[r.index + 1].key = High(val)
        /\ r.s.ra[r.index + 1].type # "shared"
    BY AddCorrect
  <2>3. r.index \in Int
    <3> DEFINE i == ra_get_index(z.ra, High(val))
    <3>1. i \in Int
      BY OkFacts, HalvesFacts, SearchCorrect
    <3> HIDE DEF i
    <3>2. r.index = i \/ r.index = -i - 1
      BY DEF containerptr_roaring_bitmap_add, i
    <3> QED
      BY <3>1, <3>2
  <2> HIDE DEF r, d
  <2>4. r.s.ra \in Seq(Entries)
    BY <2>2, OkFacts DEF Became
  <2>5. /\ d.s = r.s /\ d.context \in Contexts /\ d.context.use = context.use
        /\ Fits(d.context, r.s.ra) /\ Writes(d.context)
    BY <2>1, <2>2, <2>3, <2>4, RememberFits
  <2> QED
    BY <2>2, <2>5 DEF d
<1>2. CASE context.container # NullRef /\ context.key = High(val)
  <2> DEFINE new == container_add(z.h, context.container, Low(val), context.typecode)
             p == context.idx + 1
             u == AddAtIndex(z, context.idx, val)
  <2>1. d = AddCached(z, context, new)
    BY <1>2 DEF add_bulk_impl
  <2>2. /\ d.s = u
        /\ d.context \in Contexts /\ d.context.use = context.use
        /\ d.context.container = new.ref /\ d.context.typecode = new.type
        /\ d.context.idx = context.idx /\ d.context.key = context.key
    BY <1>2, <2>1, CachedIsAt
  <2> HIDE DEF d
  <2>3. /\ p \in 1..Len(z.ra) /\ p - 1 = context.idx
        /\ z.ra[p] = Entry(context.key, context.container, context.typecode)
    BY <1>2 DEF Fits, Contexts
  <2> HIDE DEF p
  <2>4. z.ra[p].key = High(val) /\ z.ra[p].ref = context.container /\ z.ra[p].type = context.typecode
    BY <1>2, <2>3 DEF Entry
  <2>5. context.typecode # "shared"
    BY <1>2 DEF Writes
  <2>6. /\ Became(z, u, o, Held(z.h, z.ra) \cup {val})
        /\ Len(u.ra) = Len(z.ra) /\ u.ra[p].key = z.ra[p].key
        /\ u.ra[p].type # "shared"
        /\ u.ra[p] = Entry(z.ra[p].key, new.ref, new.type)
    BY <2>3, <2>4, <2>5, AddAtCorrect
  <2> HIDE DEF new, u
  <2>7. d.context.idx + 1 = p /\ new.type # "shared"
    BY <2>2, <2>6 DEF Entry, p
  <2>8. Fits(d.context, u.ra) /\ Writes(d.context)
    BY <1>2, <2>2, <2>3, <2>4, <2>6, <2>7 DEF Fits, Writes
  <2> QED
    BY <2>2, <2>6, <2>8 DEF d
<1> QED
  BY <1>1, <1>2

-----------------------------------------------------------------------------
(* Calls that loop.                                                        *)

AddStep(t, val) == add_bulk_impl(t.s, t.context, val)
ClearStep(h, e) == container_free(h, e.ref, e.type)
CopyStep(s, e, copy_on_write) ==
  ShareEntry(s, e.key, get_copy_of_container(s.h, e.ref, e.type, copy_on_write))

\* One turn of a loop.
Turn(loop, acc, e) ==
  IF loop = "remove" THEN RemoveStep(acc, e)
  ELSE IF loop = "add" THEN AddStep(acc, e)
  ELSE IF loop = "clear" THEN ClearStep(acc, e)
  ELSE CopyStep(acc, e, loop = "share")

\* All the turns over the first n elements of s.
Looped(loop, f, n, base, s) ==
  \A x \in SUBSET (1..n) :
    f[x] = IF x = {} THEN base ELSE Turn(loop, f[x \ {Max(x)}], s[Max(x)])

\* Every loop comes to an end.
LEMMA LoopExists ==
  ASSUME NEW loop, NEW n \in Nat, NEW base, NEW s
  PROVE  \E f : Looped(loop, f, n, base, s)
<1> DEFINE T == {k \in 0..n : \E f : Looped(loop, f, k, base, s)}
<1>1. 0 \in T
  <2> DEFINE f == [x \in {{}} |-> base]
  <2>1. \A x \in SUBSET (1..0) : x = {}
    OBVIOUS
  <2>2. Looped(loop, f, 0, base, s)
    BY <2>1 DEF Looped
  <2> QED
    BY <2>2
<1>2. ASSUME NEW k \in 1..n, k - 1 \in T PROVE k \in T
  <2>1. PICK f : Looped(loop, f, k - 1, base, s)
    BY <1>2
  <2> DEFINE g == [x \in SUBSET (1..k) |-> IF k \in x THEN Turn(loop, f[x \ {k}], s[k]) ELSE f[x]]
  <2>2. ASSUME NEW x \in SUBSET (1..k)
        PROVE  g[x] = IF x = {} THEN base ELSE Turn(loop, g[x \ {Max(x)}], s[Max(x)])
    <3>1. CASE k \in x
      <4>1. Max(x) = k
        <5>1. x \in SUBSET Int /\ \A y \in x : y <= k
          OBVIOUS
        <5> QED
          BY <3>1, <5>1, MaxIs
      <4>2. x \ {k} \in SUBSET (1..k) /\ k \notin x \ {k}
        OBVIOUS
      <4>3. g[x] = Turn(loop, f[x \ {k}], s[k])
        BY <3>1
      <4>4. g[x \ {k}] = f[x \ {k}]
        BY <4>2
      <4> QED
        BY <3>1, <4>1, <4>3, <4>4
    <3>2. CASE k \notin x
      <4>1. x \in SUBSET (1..(k - 1)) /\ k - 1 \in Nat
        BY <3>2
      <4>2. g[x] = f[x]
        BY <3>2
      <4>3. f[x] = IF x = {} THEN base ELSE Turn(loop, f[x \ {Max(x)}], s[Max(x)])
        BY <2>1, <4>1 DEF Looped
      <4>4. x \ {Max(x)} \in SUBSET (1..k) /\ k \notin x \ {Max(x)}
        BY <3>2
      <4>5. g[x \ {Max(x)}] = f[x \ {Max(x)}]
        BY <4>4
      <4> QED
        BY <4>2, <4>3, <4>5
    <3> QED
      BY <3>1, <3>2
  <2>3. Looped(loop, g, k, base, s)
    BY <2>2 DEF Looped
  <2> QED
    BY <2>3
<1> HIDE DEF T
<1>3. n \in T
  BY <1>1, <1>2, BoundedInduction
<1> QED
  BY <1>3 DEF T

\* The turns of a loop, one after the other.
Turns(loop, it, n, base, s) ==
  /\ it[1..0] = base
  /\ \A i \in 1..n : it[1..i] = Turn(loop, it[1..(i - 1)], s[i])

\* A function that solves the equation of a loop makes its turns one after the other.
LEMMA LoopTurns ==
  ASSUME NEW loop, NEW n \in Nat, NEW s, NEW base, NEW it, Looped(loop, it, n, base, s)
  PROVE  Turns(loop, it, n, base, s)
<1>1. it[1..0] = base
  <2>1. 1..0 = {} /\ {} \in SUBSET (1..n)
    OBVIOUS
  <2>2. it[{}] = base
    BY <2>1 DEF Looped
  <2> QED
    BY <2>1, <2>2
<1>2. ASSUME NEW i \in 1..n PROVE it[1..i] = Turn(loop, it[1..(i - 1)], s[i])
  <2>1. 1..i \in SUBSET (1..n) /\ 1..i # {} /\ Max(1..i) = i /\ (1..i) \ {Max(1..i)} = 1..(i - 1)
    BY Segment
  <2>2. it[1..i] = Turn(loop, it[(1..i) \ {Max(1..i)}], s[Max(1..i)])
    BY <2>1 DEF Looped
  <2> QED
    BY <2>1, <2>2
<1> QED
  BY <1>1, <1>2 DEF Turns

NoKeys(z) == z.ra = <<>>

\* The loop of roaring_bitmap_remove_many.
LEMMA RemoveManyTurns ==
  ASSUME NEW z, ~NoKeys(z), NEW n \in Nat, NEW s, DOMAIN s = 1..n,
         NEW start, start = [s |-> z, pos |-> -1]
  PROVE  \E it : /\ roaring_bitmap_remove_many(z, s) = it[1..n].s
                 /\ it[1..0] = start
                 /\ \A i \in 1..n : it[1..i] = RemoveStep(it[1..(i - 1)], s[i])
<1> DEFINE loop == "remove"
           base == [s |-> z, pos |-> -1]
           OneTurn(f) == [x \in SUBSET DOMAIN s |->
                            IF x = {} THEN base ELSE RemoveStep(f[x \ {Max(x)}], s[Max(x)])]
           it == CHOOSE f : f = OneTurn(f)
<1>1. roaring_bitmap_remove_many(z, s) = it[DOMAIN s].s
  BY DEF NoKeys, roaring_bitmap_remove_many, RemoveStep, FoldLeft, MapThenFoldSet
<1>2. \A acc, e : Turn(loop, acc, e) = RemoveStep(acc, e)
  BY DEF Turn
<1> HIDE DEF base, loop
<1>3. PICK f : Looped(loop, f, n, base, s)
  BY LoopExists
<1> DEFINE g == [x \in SUBSET DOMAIN s |-> f[x]]
<1>4. g = OneTurn(g)
  <2>1. \A x \in SUBSET DOMAIN s : g[x] = f[x] /\ x \ {Max(x)} \in SUBSET DOMAIN s
    OBVIOUS
  <2>2. \A x \in SUBSET DOMAIN s :
          g[x] = IF x = {} THEN base ELSE RemoveStep(g[x \ {Max(x)}], s[Max(x)])
    BY <1>2, <1>3, <2>1 DEF Looped
  <2> QED
    BY <2>2
<1>5. it = OneTurn(it)
  <2> HIDE DEF g
  <2> QED
    BY <1>4
<1> HIDE DEF it
<1>6. Looped(loop, it, n, base, s)
  <2>1. \A x \in SUBSET (1..n) :
          it[x] = IF x = {} THEN base ELSE RemoveStep(it[x \ {Max(x)}], s[Max(x)])
    BY <1>5
  <2>2. ASSUME NEW x \in SUBSET (1..n)
        PROVE  it[x] = IF x = {} THEN base ELSE Turn(loop, it[x \ {Max(x)}], s[Max(x)])
    <3>1. it[x] = IF x = {} THEN base ELSE RemoveStep(it[x \ {Max(x)}], s[Max(x)])
      BY <2>1
    <3>2. Turn(loop, it[x \ {Max(x)}], s[Max(x)]) = RemoveStep(it[x \ {Max(x)}], s[Max(x)])
      BY <1>2
    <3> QED
      BY <3>1, <3>2
  <2> QED
    BY <2>2 DEF Looped
<1>7. /\ it[1..0] = base
      /\ \A i \in 1..n : it[1..i] = Turn(loop, it[1..(i - 1)], s[i])
  <2>1. n \in Nat
    OBVIOUS
  <2>2. Turns(loop, it, n, base, s)
    BY ONLY <1>6, <2>1, LoopTurns
  <2> QED
    BY <2>2 DEF Turns
<1> QED
  BY <1>1, <1>2, <1>7 DEF base

\* The loop of roaring_bitmap_add_many.
LEMMA AddManyTurns ==
  ASSUME NEW z, NEW n \in Nat, NEW s, DOMAIN s = 1..n
  PROVE  \E it : /\ roaring_bitmap_add_many(z, s) = it[1..n].s
                 /\ it[1..0] = Remember(ZeroContext, containerptr_roaring_bitmap_add(z, Head(s)), Head(s))
                 /\ \A i \in 1..n : it[1..i] = AddStep(it[1..(i - 1)], s[i])
<1> DEFINE loop == "add"
           base == Remember(ZeroContext, containerptr_roaring_bitmap_add(z, Head(s)), Head(s))
           OneTurn(f) == [x \in SUBSET DOMAIN s |->
                            IF x = {} THEN base ELSE AddStep(f[x \ {Max(x)}], s[Max(x)])]
           it == CHOOSE f : f = OneTurn(f)
<1>1. roaring_bitmap_add_many(z, s) = it[DOMAIN s].s
  BY DEF roaring_bitmap_add_many, AddStep, FoldLeft, MapThenFoldSet
<1>2. \A acc, e : Turn(loop, acc, e) = AddStep(acc, e)
  BY DEF Turn
<1> HIDE DEF base, loop
<1>3. PICK f : Looped(loop, f, n, base, s)
  BY LoopExists
<1> DEFINE g == [x \in SUBSET DOMAIN s |-> f[x]]
<1>4. g = OneTurn(g)
  <2>1. \A x \in SUBSET DOMAIN s : g[x] = f[x] /\ x \ {Max(x)} \in SUBSET DOMAIN s
    OBVIOUS
  <2>2. \A x \in SUBSET DOMAIN s :
          g[x] = IF x = {} THEN base ELSE AddStep(g[x \ {Max(x)}], s[Max(x)])
    BY <1>2, <1>3, <2>1 DEF Looped
  <2> QED
    BY <2>2
<1>5. it = OneTurn(it)
  <2> HIDE DEF g
  <2> QED
    BY <1>4
<1> HIDE DEF it
<1>6. Looped(loop, it, n, base, s)
  <2>1. \A x \in SUBSET (1..n) :
          it[x] = IF x = {} THEN base ELSE AddStep(it[x \ {Max(x)}], s[Max(x)])
    BY <1>5
  <2>2. ASSUME NEW x \in SUBSET (1..n)
        PROVE  it[x] = IF x = {} THEN base ELSE Turn(loop, it[x \ {Max(x)}], s[Max(x)])
    <3>1. it[x] = IF x = {} THEN base ELSE AddStep(it[x \ {Max(x)}], s[Max(x)])
      BY <2>1
    <3>2. Turn(loop, it[x \ {Max(x)}], s[Max(x)]) = AddStep(it[x \ {Max(x)}], s[Max(x)])
      BY <1>2
    <3> QED
      BY <3>1, <3>2
  <2> QED
    BY <2>2 DEF Looped
<1>7. /\ it[1..0] = base
      /\ \A i \in 1..n : it[1..i] = Turn(loop, it[1..(i - 1)], s[i])
  <2>1. n \in Nat
    OBVIOUS
  <2>2. Turns(loop, it, n, base, s)
    BY ONLY <1>6, <2>1, LoopTurns
  <2> QED
    BY <2>2 DEF Turns
<1> QED
  BY <1>1, <1>2, <1>7 DEF base

\* roaring_bitmap_remove_many: the values are out.
LEMMA RemoveManyCorrect ==
  ASSUME BulkAssumption, NEW z, NEW o, Ok(z, o), Filled(z.h, z.ra),
         NEW v \in Universe, NEW w \in Universe
  PROVE  Became(z, roaring_bitmap_remove_many(z, <<v, w>>), o, Held(z.h, z.ra) \ {v, w})
<1> DEFINE s == <<v, w>>
           r == roaring_bitmap_remove_many(z, s)
<1>1. CASE z.ra = <<>>
  <2>1. r = z
    BY <1>1 DEF roaring_bitmap_remove_many
  <2>2. Held(z.h, z.ra) = {}
    BY <1>1 DEF Held
  <2>3. Held(z.h, z.ra) \ {v, w} = Held(z.h, z.ra)
    BY <2>2
  <2> HIDE DEF r
  <2> QED
    BY <2>1, <2>3, Unchanged DEF r
<1>2. CASE z.ra # <<>>
  <2>1. DOMAIN s = 1..2 /\ s[1] = v /\ s[2] = w /\ 2 \in Nat
    OBVIOUS
  <2> HIDE DEF s
  <2>2. PICK it : /\ r = it[1..2].s
                  /\ it[1..0] = [s |-> z, pos |-> -1]
                  /\ \A i \in 1..2 : it[1..i] = RemoveStep(it[1..(i - 1)], s[i])
    <3> DEFINE n == 2
    <3>1. n \in Nat /\ DOMAIN s = 1..n
      BY <2>1
    <3> DEFINE start == [s |-> z, pos |-> -1]
    <3>2. ~NoKeys(z) /\ start = [s |-> z, pos |-> -1]
      BY <1>2 DEF NoKeys
    <3> HIDE DEF n, start
    <3>3. \E it : /\ roaring_bitmap_remove_many(z, s) = it[1..n].s
                  /\ it[1..0] = start
                  /\ \A i \in 1..n : it[1..i] = RemoveStep(it[1..(i - 1)], s[i])
      BY ONLY <3>1, <3>2, RemoveManyTurns
    <3> QED
      BY <3>3 DEF n, start, r
  <2> DEFINE t0 == it[1..0]
             t1 == it[1..1]
             t2 == it[1..2]
  <2>3. t1 = RemoveStep(t0, v) /\ t2 = RemoveStep(t1, w)
    <3>1. 1 \in 1..2 /\ 2 \in 1..2 /\ 1 - 1 = 0 /\ 2 - 1 = 1
      OBVIOUS
    <3>2. it[1..1] = RemoveStep(it[1..(1 - 1)], s[1]) /\ it[1..2] = RemoveStep(it[1..(2 - 1)], s[2])
      BY <2>2, <3>1
    <3> QED
      BY <2>1, <3>1, <3>2
  <2>4. t0.s = z /\ t0.pos = -1
    BY <2>2
  <2>5. r = t2.s
    BY <2>2
  <2> HIDE DEF t0, t1, t2, r
  <2>6. Ok(t0.s, o) /\ Filled(t0.s.h, t0.s.ra) /\ Stays(t0)
    BY <2>4 DEF Stays
  <2>7. Became(z, t1.s, o, Held(z.h, z.ra) \ {v}) /\ Stays(t1)
    BY <2>3, <2>4, <2>6, RemoveStepCorrect
  <2>8. /\ Ok(t1.s, o) /\ Filled(t1.s.h, t1.s.ra)
        /\ Held(t1.s.h, t1.s.ra) = Held(z.h, z.ra) \ {v}
    BY <2>7 DEF Became
  <2>9. Became(t1.s, t2.s, o, Held(t1.s.h, t1.s.ra) \ {w})
    BY <2>3, <2>7, <2>8, RemoveStepCorrect
  <2>10. Held(t1.s.h, t1.s.ra) \ {w} = Held(z.h, z.ra) \ {v, w}
    BY <2>8
  <2>11. Became(z, t2.s, o, Held(z.h, z.ra) \ {v, w})
    BY <2>7, <2>9, <2>10, BecameTwice
  <2> QED
    BY <2>5, <2>11 DEF r, s
<1> QED
  BY <1>1, <1>2

\* A context of zeroes has no container.
LEMMA ZeroFits ==
  ASSUME BulkAssumption, NEW s
  PROVE  ZeroContext \in Contexts /\ Fits(ZeroContext, s) /\ Writes(ZeroContext)
<1>1. 0 \in 0..(KeyCount - 1)
  BY DEF BulkAssumption
<1>2. ZeroContext \in Contexts /\ ZeroContext.container = NullRef
  BY <1>1 DEF ZeroContext, Contexts, NullRef
<1> QED
  BY <1>2 DEF Fits, Writes

\* roaring_bitmap_add_many: the values are in.
LEMMA AddManyCorrect ==
  ASSUME BulkAssumption, NEW z, NEW o, Ok(z, o), Filled(z.h, z.ra),
         NEW v \in Universe, NEW w \in Universe
  PROVE  Became(z, roaring_bitmap_add_many(z, <<v, w>>), o, Held(z.h, z.ra) \cup {v, w})
<1> DEFINE s == <<v, w>>
           a == containerptr_roaring_bitmap_add(z, v)
           r == roaring_bitmap_add_many(z, s)
<1>1. DOMAIN s = 1..2 /\ s[1] = v /\ s[2] = w /\ 2 \in Nat /\ Head(s) = v
  OBVIOUS
<1>2. /\ Became(z, a.s, o, Held(z.h, z.ra) \cup {v})
      /\ a.index + 1 \in 1..Len(a.s.ra)
      /\ a.s.ra[a.index + 1].key = High(v)
      /\ a.s.ra[a.index + 1].type # "shared"
  BY AddCorrect
<1>3. a.index \in Int
  <2> DEFINE i == ra_get_index(z.ra, High(v))
  <2>1. i \in Int
    BY OkFacts, HalvesFacts, SearchCorrect
  <2> HIDE DEF i
  <2>2. a.index = i \/ a.index = -i - 1
    BY DEF containerptr_roaring_bitmap_add, i
  <2> HIDE DEF a
  <2> QED
    BY <2>1, <2>2
<1> HIDE DEF s, r
<1>4. PICK it : /\ r = it[1..2].s
                /\ it[1..0] = Remember(ZeroContext, containerptr_roaring_bitmap_add(z, Head(s)), Head(s))
                /\ \A i \in 1..2 : it[1..i] = AddStep(it[1..(i - 1)], s[i])
  <2> DEFINE n == 2
  <2>1. n \in Nat /\ DOMAIN s = 1..n
    BY <1>1
  <2> HIDE DEF n, a
  <2>2. \E it : /\ roaring_bitmap_add_many(z, s) = it[1..n].s
                /\ it[1..0] = Remember(ZeroContext, containerptr_roaring_bitmap_add(z, Head(s)), Head(s))
                /\ \A i \in 1..n : it[1..i] = AddStep(it[1..(i - 1)], s[i])
    BY ONLY <2>1, AddManyTurns
  <2> QED
    BY <2>2 DEF n, r
<1> DEFINE t0 == it[1..0]
           t1 == it[1..1]
           t2 == it[1..2]
<1>5. t1 = AddStep(t0, v) /\ t2 = AddStep(t1, w)
  <2>1. 1 \in 1..2 /\ 2 \in 1..2 /\ 1 - 1 = 0 /\ 2 - 1 = 1
    OBVIOUS
  <2>2. it[1..1] = AddStep(it[1..(1 - 1)], s[1]) /\ it[1..2] = AddStep(it[1..(2 - 1)], s[2])
    BY <1>4, <2>1
  <2> QED
    BY <1>1, <2>1, <2>2
<1>6. t0 = Remember(ZeroContext, a, v) /\ r = t2.s
  BY <1>1, <1>4
<1> HIDE DEF t0, t1, t2, a
<1>7. a.s.ra \in Seq(Entries)
  BY <1>2, OkFacts DEF Became
<1>8. t0.s = a.s /\ t0.context \in Contexts /\ Fits(t0.context, t0.s.ra) /\ Writes(t0.context)
  <2>1. ZeroContext \in Contexts
    BY ZeroFits
  <2> HIDE DEF ZeroContext
  <2> QED
    BY <1>2, <1>3, <1>6, <1>7, <2>1, RememberFits
<1>9. /\ Ok(t0.s, o) /\ Filled(t0.s.h, t0.s.ra)
      /\ Held(t0.s.h, t0.s.ra) = Held(z.h, z.ra) \cup {v} /\ Became(z, t0.s, o, Held(z.h, z.ra) \cup {v})
  BY <1>2, <1>8 DEF Became
<1>10. /\ Became(t0.s, t1.s, o, Held(t0.s.h, t0.s.ra) \cup {v})
       /\ t1.context \in Contexts /\ Fits(t1.context, t1.s.ra) /\ Writes(t1.context)
  <2>1. t1 = add_bulk_impl(t0.s, t0.context, v)
    BY <1>5 DEF AddStep
  <2> QED
    BY <1>8, <1>9, <2>1, AddBulkCorrect
<1>11. /\ Ok(t1.s, o) /\ Filled(t1.s.h, t1.s.ra)
       /\ Held(t1.s.h, t1.s.ra) = Held(z.h, z.ra) \cup {v}
  BY <1>9, <1>10 DEF Became
<1>12. Became(t1.s, t2.s, o, Held(t1.s.h, t1.s.ra) \cup {w})
  <2>1. t2 = add_bulk_impl(t1.s, t1.context, w)
    BY <1>5 DEF AddStep
  <2> QED
    BY <1>10, <1>11, <2>1, AddBulkCorrect
<1>13. Held(t1.s.h, t1.s.ra) \cup {w} = Held(z.h, z.ra) \cup {v, w}
  BY <1>11
<1>14. Became(z, t1.s, o, Held(t0.s.h, t0.s.ra) \cup {v})
  BY <1>9, <1>10, BecameTwice
<1>15. Became(z, t2.s, o, Held(z.h, z.ra) \cup {v, w})
  BY <1>12, <1>13, <1>14, BecameTwice
<1> QED
  BY <1>6, <1>15 DEF r, s

\* ra_advance_until: it passes the entries with smaller keys.
LEMMA AdvanceCorrect ==
  ASSUME NEW s, Arranged(s), NEW key \in Nat, NEW pos \in -1..(Len(s) - 1),
         pos >= 0 => s[pos + 1].key < key
  PROVE  LET i == ra_advance_until(s, key, pos)
         IN  /\ i \in 0..Len(s)
             /\ i < Len(s) => s[i + 1].key >= key
             /\ \A j \in 1..Len(s) : j <= i => s[j].key < key
<1> DEFINE n == Len(s)
           S == {i \in pos + 1 .. n - 1 : s[i + 1].key >= key}
           i == ra_advance_until(s, key, pos)
<1>1. s \in Seq(Entries) /\ n \in Nat
  BY DEF Arranged
<1>2. \A j \in 1..n : s[j].key \in Int
  BY <1>1, EntryFacts
<1>3. \A j, k \in 1..n : j < k => s[j].key < s[k].key
  BY DEF Arranged
<1>4. i = IF S = {} THEN n ELSE Min(S)
  BY DEF ra_advance_until
<1> HIDE DEF i, n
<1>5. pos \in -1..(n - 1) /\ (pos >= 0 => s[pos + 1].key < key)
  BY DEF n
<1>6. ASSUME NEW j \in 1..n, j - 1 <= pos PROVE s[j].key < key
  <2>1. pos >= 0 /\ pos + 1 \in 1..n /\ s[pos + 1].key < key
    BY <1>1, <1>5, <1>6
  <2>2. j = pos + 1 \/ j < pos + 1
    BY <1>5, <1>6
  <2> QED
    BY <1>2, <1>3, <2>1, <2>2
<1>7. CASE S = {}
  <2>1. ASSUME NEW j \in 1..n PROVE s[j].key < key
    <3>1. CASE j - 1 <= pos
      BY <1>6, <3>1
    <3>2. CASE j - 1 > pos
      <4>1. j - 1 \in pos + 1 .. n - 1 /\ (j - 1) + 1 = j
        BY <1>1, <1>5, <3>2
      <4>2. ~(s[j].key >= key)
        BY <1>7, <4>1
      <4> QED
        BY <1>2, <4>2
    <3> QED
      BY <1>5, <3>1, <3>2
  <2> QED
    BY <1>1, <1>4, <1>7, <2>1 DEF i, n
<1>8. CASE S # {}
  <2>1. S \in SUBSET Nat
    BY <1>5
  <2>2. i \in S /\ \A k \in S : i <= k
    <3> HIDE DEF S
    <3> QED
      BY <1>4, <1>8, <2>1, MinFacts
  <2>3. i \in pos + 1 .. n - 1 /\ s[i + 1].key >= key /\ i \in 0..n
    BY <1>1, <1>5, <2>2
  <2>4. ASSUME NEW j \in 1..n, j <= i PROVE s[j].key < key
    <3>1. CASE j - 1 <= pos
      BY <1>6, <3>1
    <3>2. CASE j - 1 > pos
      <4>1. j - 1 \in pos + 1 .. n - 1 /\ (j - 1) + 1 = j /\ ~(i <= j - 1)
        BY <1>1, <1>5, <2>3, <2>4, <3>2
      <4>2. j - 1 \notin S
        BY <2>2, <4>1
      <4>3. ~(s[j].key >= key)
        BY <4>1, <4>2
      <4> QED
        BY <1>2, <4>3
    <3> QED
      BY <1>5, <3>1, <3>2
  <2> QED
    BY <2>3, <2>4 DEF i, n
<1> QED
  BY <1>7, <1>8

\* A value is not in the bitmap when no entry has its key.
LEMMA KeyMissing ==
  ASSUME NEW h, NEW s, NEW val, \A j \in 1..Len(s) : s[j].key # High(val)
  PROVE  val \notin Held(h, s)
BY DEF Held

\* The entry that a new search finds.
LEMMA FoundAt ==
  ASSUME BulkAssumption, NEW z, NEW o, Ok(z, o), NEW val \in Universe, NEW i \in 0..Len(z.ra),
         i < Len(z.ra) => z.ra[i + 1].key >= High(val),
         \A j \in 1..Len(z.ra) : j <= i => z.ra[j].key < High(val)
  PROVE  val \in Held(z.h, z.ra) <=>
           /\ i # Len(z.ra)
           /\ z.ra[i + 1].key = High(val)
           /\ Low(val) \in Values(z.h, z.ra[i + 1].ref)
<1> DEFINE key == High(val)
           s == z.ra
           n == Len(s)
           p == i + 1
<1>1. s \in Seq(Entries) /\ Arranged(s) /\ n \in Nat /\ key \in Nat
  BY OkFacts, HalvesFacts
<1>2. \A j \in 1..n : s[j].key \in Int
  BY <1>1, EntryFacts
<1>3. \A j, k \in 1..n : j < k => s[j].key < s[k].key
  BY <1>1 DEF Arranged
<1>4. CASE i # n /\ s[p].key = key
  <2>1. p \in 1..n
    BY <1>1, <1>4
  <2> HIDE DEF p
  <2> QED
    BY <1>4, <2>1, HeldAt DEF p
<1>5. CASE ~(i # n /\ s[p].key = key)
  <2>1. ASSUME NEW j \in 1..n PROVE s[j].key # key
    <3>1. CASE j <= i
      BY <1>1, <1>2, <3>1
    <3>2. CASE j > i
      <4>1. i # n /\ p \in 1..n /\ s[p].key > key
        <5>1. i # n /\ p \in 1..n /\ s[p].key >= key
          BY <1>1, <3>2
        <5> QED
          BY <1>1, <1>2, <1>5, <5>1
      <4>2. j = p \/ p < j
        BY <3>2
      <4> QED
        BY <1>1, <1>2, <1>3, <4>1, <4>2
    <3> QED
      BY <3>1, <3>2
  <2>2. val \notin Held(z.h, z.ra)
    BY <2>1, KeyMissing
  <2> QED
    BY <1>5, <2>2
<1> QED
  BY <1>4, <1>5

\* roaring_bitmap_contains_bulk: it finds what is in the bitmap, and the context is that
\* of an entry.
LEMMA SearchBulkCorrect ==
  ASSUME BulkAssumption, NEW z, NEW o, Ok(z, o),
         NEW context \in Contexts, Fits(context, z.ra), NEW val \in Universe
  PROVE  LET d == roaring_bitmap_contains_bulk(z, context, val)
         IN  /\ d.h = z.h
             /\ d.context \in Contexts /\ d.context.use = context.use /\ Fits(d.context, z.ra)
             /\ d.found = (val \in Held(z.h, z.ra))
<1> DEFINE key == High(val)
           s == z.ra
           n == Len(s)
           start == IF context.container # NullRef /\ context.key < key THEN context.idx ELSE -1
           idx == ra_advance_until(s, key, start)
           e == s[idx + 1]
           now == [context EXCEPT !.container = e.ref, !.typecode = e.type, !.idx = idx, !.key = e.key]
           seek == context.container = NullRef \/ context.key # key
           d == roaring_bitmap_contains_bulk(z, context, val)
<1>1. /\ s \in Seq(Entries) /\ Arranged(s) /\ n \in Nat /\ key \in Nat
      /\ Sound(z.h, Refs(s), Refs(o)) /\ z.h \in Heaps
  BY OkFacts, HalvesFacts
<1>2. ASSUME context.container # NullRef
      PROVE  /\ context.idx \in Nat /\ context.idx + 1 \in 1..n
             /\ s[context.idx + 1].key = context.key /\ s[context.idx + 1].ref = context.container
  <2>1. context.idx \in Nat /\ context.idx + 1 \in 1..n
        /\ s[context.idx + 1] = Entry(context.key, context.container, context.typecode)
    BY <1>2 DEF Fits, Contexts
  <2> HIDE DEF s
  <2> QED
    BY <2>1 DEF Entry
<1>3. ASSUME NEW x \in Refs(s) PROVE Touch(z.h, x) = z.h
  <2>1. IsPlain(z.h, x) \/ IsShared(z.h, x)
    BY <1>1, <1>3, SoundFacts
  <2>2. Alive(z.h, x)
    BY <1>1, <2>1, AliveFacts
  <2> QED
    BY <2>2 DEF Touch
<1>4. CASE seek
  <2>1. start \in -1..(n - 1) /\ (start >= 0 => s[start + 1].key < key)
    BY <1>1, <1>2
  <2>2. d = IF idx = n THEN [h |-> z.h, context |-> context, found |-> FALSE]
            ELSE [h |-> Touch(z.h, now.container), context |-> now,
                  found |-> now.key = key /\ Low(val) \in Values(z.h, now.container)]
    BY <1>4 DEF roaring_bitmap_contains_bulk
  <2> HIDE DEF start
  <2>3. /\ idx \in 0..n
        /\ idx < n => s[idx + 1].key >= key
        /\ \A j \in 1..n : j <= idx => s[j].key < key
    <3> HIDE DEF s, key
    <3> QED
      BY <1>1, <2>1, AdvanceCorrect DEF n
  <2> HIDE DEF idx
  <2>4. val \in Held(z.h, s) <=> idx # n /\ e.key = key /\ Low(val) \in Values(z.h, e.ref)
    <3>1. val \in Held(z.h, z.ra) <=>
           /\ idx # Len(z.ra)
           /\ z.ra[idx + 1].key = High(val)
           /\ Low(val) \in Values(z.h, z.ra[idx + 1].ref)
      BY <2>3, FoundAt
    <3> QED
      BY <3>1
  <2>5. CASE idx = n
    <3> HIDE DEF now, d, e
    <3>1. d.h = z.h /\ d.context = context /\ d.found = FALSE
      BY <2>2, <2>5
    <3>2. (val \in Held(z.h, s)) = FALSE
      BY <2>4, <2>5
    <3> HIDE DEF s
    <3> QED
      BY <3>1, <3>2 DEF d, s
  <2>6. CASE idx # n
    <3>1. idx + 1 \in 1..n /\ idx \in Nat
      BY <1>1, <2>3, <2>6
    <3>2. /\ e \in Entries /\ e.ref \in Refs(s) /\ e.ref \in Nat /\ e.key \in 0..(KeyCount - 1)
          /\ e.type \in PlainTypes \cup {"shared"}
      BY <1>1, <3>1, EntryFacts
    <3>3. e = Entry(e.key, e.ref, e.type)
      <4> HIDE DEF e
      <4> QED
        BY <3>2 DEF Entries, Entry
    <3> HIDE DEF e
    <3>4. /\ now \in Contexts /\ now.use = context.use /\ now.container = e.ref /\ now.typecode = e.type
          /\ now.idx = idx /\ now.key = e.key
      BY <3>1, <3>2 DEF Contexts
    <3> HIDE DEF now
    <3>5. Touch(z.h, now.container) = z.h
      BY <1>3, <3>2, <3>4
    <3> HIDE DEF d
    <3>6. d.h = z.h /\ d.context = now /\ d.found = (e.key = key /\ Low(val) \in Values(z.h, e.ref))
      BY <2>2, <2>6, <3>4, <3>5
    <3>7. Fits(now, s)
      BY <3>1, <3>3, <3>4 DEF Fits, e
    <3>8. d.found = (val \in Held(z.h, s))
      BY <2>4, <2>6, <3>6
    <3> HIDE DEF s
    <3> QED
      BY <3>4, <3>6, <3>7, <3>8 DEF d, s
  <2> QED
    BY <2>5, <2>6
<1>5. CASE ~seek
  <2> DEFINE p == context.idx + 1
             hit == Low(val) \in Values(z.h, context.container)
  <2>1. /\ context.container # NullRef /\ p \in 1..n
        /\ context.key = key /\ s[p].key = key /\ s[p].ref = context.container
    BY <1>2, <1>5
  <2>2. context.container \in Refs(s)
    BY <1>1, <2>1, EntryFacts
  <2>3. Touch(z.h, context.container) = z.h
    BY <1>3, <2>2
  <2>4. d = [h |-> Touch(z.h, context.container), context |-> context,
             found |-> context.key = key /\ hit]
    BY <1>5 DEF roaring_bitmap_contains_bulk
  <2> HIDE DEF p
  <2>5. val \in Held(z.h, s) <=> hit
    BY <2>1, HeldAt
  <2> HIDE DEF d
  <2>6. d.h = z.h /\ d.context = context /\ d.found = (context.key = key /\ hit)
    BY <2>3, <2>4
  <2>7. d.found = (val \in Held(z.h, s))
    BY <2>1, <2>5, <2>6
  <2> QED
    BY <2>6, <2>7 DEF d
<1> QED
  BY <1>4, <1>5

\* What the two loops of ra_overwrite do.
OverwriteLoops(cl, it, a, b, m, n) ==
  /\ ra_overwrite = it[1..m]
  /\ cl[1..0] = heap
  /\ \A i \in 1..n : cl[1..i] = ClearStep(cl[1..(i - 1)], b[i])
  /\ it[1..0] = [h |-> cl[1..n], ra |-> <<>>]
  /\ \A i \in 1..m : it[1..i] = CopyStep(it[1..(i - 1)], a[i], cow)

\* The two loops of ra_overwrite.
LEMMA OverwriteTurns ==
  ASSUME cow \in BOOLEAN, NEW a, a = bitmaps["a"], NEW b, b = bitmaps["b"],
         NEW m \in Nat, DOMAIN a = 1..m, NEW n \in Nat, DOMAIN b = 1..n
  PROVE  \E cl, it : OverwriteLoops(cl, it, a, b, m, n)
<1> DEFINE loop == "clear"
           way == IF cow THEN "share" ELSE "clone"
           Clear(f) == [x \in SUBSET DOMAIN b |->
                          IF x = {} THEN heap ELSE ClearStep(f[x \ {Max(x)}], b[Max(x)])]
           cl == CHOOSE f : f = Clear(f)
           base == [h |-> cl[DOMAIN b], ra |-> <<>>]
           Copy(f) == [x \in SUBSET DOMAIN a |->
                         IF x = {} THEN base ELSE CopyStep(f[x \ {Max(x)}], a[Max(x)], cow)]
           it == CHOOSE f : f = Copy(f)
<1>1. ra_overwrite = it[DOMAIN a]
  BY DEF ra_overwrite, ClearStep, CopyStep, FoldLeft, MapThenFoldSet
<1>2. \A acc, e : Turn(loop, acc, e) = ClearStep(acc, e)
  BY DEF Turn
<1>3. \A acc, e : Turn(way, acc, e) = CopyStep(acc, e, cow)
  BY DEF Turn
<1> HIDE DEF loop, way
<1>4. PICK f : Looped(loop, f, n, heap, b)
  BY LoopExists
<1> DEFINE g == [x \in SUBSET DOMAIN b |-> f[x]]
<1>5. g = Clear(g)
  <2>1. \A x \in SUBSET DOMAIN b : g[x] = f[x] /\ x \ {Max(x)} \in SUBSET DOMAIN b
    OBVIOUS
  <2>2. ASSUME NEW x \in SUBSET DOMAIN b
        PROVE  g[x] = IF x = {} THEN heap ELSE ClearStep(g[x \ {Max(x)}], b[Max(x)])
    <3>1. g[x] = f[x] /\ g[x \ {Max(x)}] = f[x \ {Max(x)}]
      BY <2>1
    <3>2. f[x] = IF x = {} THEN heap ELSE Turn(loop, f[x \ {Max(x)}], b[Max(x)])
      BY <1>2, <1>4 DEF Looped
    <3> HIDE DEF g
    <3> QED
      BY <1>2, <3>1, <3>2
  <2> QED
    BY <2>2
<1>6. cl = Clear(cl)
  <2> HIDE DEF g
  <2> QED
    BY <1>5
<1> HIDE DEF cl, base
<1>7. PICK k : Looped(way, k, m, base, a)
  BY LoopExists
<1> DEFINE d == [x \in SUBSET DOMAIN a |-> k[x]]
<1>8. d = Copy(d)
  <2>1. \A x \in SUBSET DOMAIN a : d[x] = k[x] /\ x \ {Max(x)} \in SUBSET DOMAIN a
    OBVIOUS
  <2>2. ASSUME NEW x \in SUBSET DOMAIN a
        PROVE  d[x] = IF x = {} THEN base ELSE CopyStep(d[x \ {Max(x)}], a[Max(x)], cow)
    <3>1. d[x] = k[x] /\ d[x \ {Max(x)}] = k[x \ {Max(x)}]
      BY <2>1
    <3>2. k[x] = IF x = {} THEN base ELSE Turn(way, k[x \ {Max(x)}], a[Max(x)])
      BY <1>3, <1>7 DEF Looped
    <3> HIDE DEF d
    <3> QED
      BY <1>3, <3>1, <3>2
  <2> QED
    BY <2>2
<1>9. it = Copy(it)
  <2> HIDE DEF d
  <2> QED
    BY <1>8
<1> HIDE DEF it
<1>10. Looped(loop, cl, n, heap, b)
  <2>1. \A x \in SUBSET (1..n) :
          cl[x] = IF x = {} THEN heap ELSE ClearStep(cl[x \ {Max(x)}], b[Max(x)])
    BY <1>6
  <2>2. ASSUME NEW x \in SUBSET (1..n)
        PROVE  cl[x] = IF x = {} THEN heap ELSE Turn(loop, cl[x \ {Max(x)}], b[Max(x)])
    <3>1. cl[x] = IF x = {} THEN heap ELSE ClearStep(cl[x \ {Max(x)}], b[Max(x)])
      BY <2>1
    <3>2. Turn(loop, cl[x \ {Max(x)}], b[Max(x)]) = ClearStep(cl[x \ {Max(x)}], b[Max(x)])
      BY <1>2
    <3> QED
      BY <3>1, <3>2
  <2> QED
    BY <2>2 DEF Looped
<1>11. Looped(way, it, m, base, a)
  <2>1. \A x \in SUBSET (1..m) :
          it[x] = IF x = {} THEN base ELSE CopyStep(it[x \ {Max(x)}], a[Max(x)], cow)
    BY <1>9
  <2>2. ASSUME NEW x \in SUBSET (1..m)
        PROVE  it[x] = IF x = {} THEN base ELSE Turn(way, it[x \ {Max(x)}], a[Max(x)])
    <3>1. it[x] = IF x = {} THEN base ELSE CopyStep(it[x \ {Max(x)}], a[Max(x)], cow)
      BY <2>1
    <3>2. Turn(way, it[x \ {Max(x)}], a[Max(x)]) = CopyStep(it[x \ {Max(x)}], a[Max(x)], cow)
      BY <1>3
    <3> QED
      BY <3>1, <3>2
  <2> QED
    BY <2>2 DEF Looped
<1>13. /\ cl[1..0] = heap
       /\ \A i \in 1..n : cl[1..i] = Turn(loop, cl[1..(i - 1)], b[i])
  <2>1. n \in Nat
    OBVIOUS
  <2>2. Turns(loop, cl, n, heap, b)
    BY ONLY <1>10, <2>1, LoopTurns
  <2> QED
    BY <2>2 DEF Turns
<1>14. /\ it[1..0] = base
       /\ \A i \in 1..m : it[1..i] = Turn(way, it[1..(i - 1)], a[i])
  <2>1. m \in Nat
    OBVIOUS
  <2>2. Turns(way, it, m, base, a)
    BY ONLY <1>11, <2>1, LoopTurns
  <2> QED
    BY <2>2 DEF Turns
<1>15. base = [h |-> cl[1..n], ra |-> <<>>]
  BY DEF base
<1>16. ra_overwrite = it[1..m]
  BY <1>1
<1>17. \A i \in 1..n : cl[1..i] = ClearStep(cl[1..(i - 1)], b[i])
  BY <1>2, <1>13
<1>18. \A i \in 1..m : it[1..i] = CopyStep(it[1..(i - 1)], a[i], cow)
  BY <1>3, <1>14
<1>19. it[1..0] = [h |-> cl[1..n], ra |-> <<>>]
  BY <1>14, <1>15
<1> HIDE DEF ClearStep, CopyStep, ra_overwrite
<1> QED
  BY ONLY <1>13, <1>16, <1>17, <1>18, <1>19 DEF OverwriteLoops

-----------------------------------------------------------------------------
(* A bitmap is overwritten with the other one.                             *)

\* What the entries behind the first i point at.
Rest(s, i) == {s[j].ref : j \in (i + 1)..Len(s)}

\* One entry after the other.
LEMMA RestFacts ==
  ASSUME NEW s, Arranged(s)
  PROVE  /\ Rest(s, 0) = Refs(s) /\ Rest(s, Len(s)) = {}
         /\ \A i \in 1..Len(s) : /\ s[i].ref \in Rest(s, i - 1) /\ s[i].ref \notin Rest(s, i)
                                 /\ Rest(s, i - 1) \ {s[i].ref} = Rest(s, i)
<1>1. s \in Seq(Entries) /\ Len(s) \in Nat
  BY DEF Arranged
<1>2. Rest(s, 0) = Refs(s) /\ Rest(s, Len(s)) = {}
  BY <1>1 DEF Rest, Refs
<1>3. ASSUME NEW i \in 1..Len(s)
      PROVE  /\ s[i].ref \in Rest(s, i - 1) /\ s[i].ref \notin Rest(s, i)
             /\ Rest(s, i - 1) \ {s[i].ref} = Rest(s, i)
  <2> DEFINE n == Len(s)
  <2>1. (i - 1) + 1 = i /\ i \in i..n
    BY <1>1
  <2>2. \A j \in i..n : j = i \/ j \in (i + 1)..n
    BY <1>1
  <2>3. \A j \in (i + 1)..n : j \in i..n /\ j \in 1..n /\ j # i
    BY <1>1
  <2>4. \A j \in (i + 1)..n : s[j].ref # s[i].ref
    BY <2>3, PlacesDiffer
  <2>5. s[i].ref \in Rest(s, i - 1) /\ s[i].ref \notin Rest(s, i)
    BY <2>1, <2>4 DEF Rest
  <2>6. Rest(s, i - 1) = {s[j].ref : j \in i..n}
    BY <2>1 DEF Rest
  <2>7. Rest(s, i) = {s[j].ref : j \in (i + 1)..n}
    BY DEF Rest
  <2> HIDE DEF n
  <2>8. {s[j].ref : j \in i..n} \ {s[i].ref} = {s[j].ref : j \in (i + 1)..n}
    BY <2>2, <2>3, <2>4
  <2> QED
    BY <2>5, <2>6, <2>7, <2>8
<1> QED
  BY <1>2, <1>3

\* The first i entries of s have been freed.
Clearing(h, g, s, i, O) ==
  /\ Sound(g, Rest(s, i), O)
  /\ \A x \in Rest(s, i) \cup O : Same(h, g, x)

\* One more entry is freed.
LEMMA ClearOne ==
  ASSUME NEW h, NEW s, Arranged(s), Typed(h, s), NEW O, NEW i \in 1..Len(s), NEW g,
         Clearing(h, g, s, i - 1, O)
  PROVE  Clearing(h, ClearStep(g, s[i]), s, i, O)
<1> DEFINE r == s[i].ref
           R == Rest(s, i - 1)
           f == container_free(g, r, Object(g, r).type)
<1>1. r \in R /\ R \ {r} = Rest(s, i)
  BY RestFacts
<1>2. Sound(g, R, O) /\ \A x \in R \cup O : Same(h, g, x)
  BY DEF Clearing
<1>3. s[i].type = Object(g, r).type
  <2>1. Same(h, g, r)
    BY <1>1, <1>2
  <2> QED
    BY <2>1 DEF Same, Typed
<1>4. ClearStep(g, s[i]) = f
  BY <1>3 DEF ClearStep
<1> HIDE DEF R, r
<1>5. Sound(f, R \ {r}, O) /\ \A x \in (R \ {r}) \cup O : Same(g, f, x)
  BY <1>1, <1>2, FreeCorrect
<1>6. \A x \in (R \ {r}) \cup O : Same(h, f, x)
  BY <1>2, <1>5, SameTwice
<1> HIDE DEF f
<1> QED
  BY <1>1, <1>4, <1>5, <1>6 DEF Clearing

\* The first i entries of a have copies in s, whose heap was h.
Halfway(h, s, a, i) ==
  /\ s \in States /\ Len(s.ra) = i /\ Arranged(s.ra) /\ Typed(s.h, s.ra)
  /\ \A j \in 1..i : s.ra[j].key = a[j].key /\ Values(s.h, s.ra[j].ref) = Values(h, a[j].ref)
  /\ \A x \in Rest(a, i) : Same(h, s.h, x)

\* c is a copy of entry i of a for s.
CopyFor(s, a, i, c) ==
  /\ c.h \in Heaps /\ c.ref \in Nat /\ c.type \in PlainTypes \cup {"shared"}
  /\ Object(c.h, c.ref).type = c.type /\ Values(c.h, c.ref) = Values(s.h, a[i].ref)
  /\ c.ref \notin Refs(s.ra)
  /\ \A x \in Rest(a, i) \cup Refs(s.ra) : Same(s.h, c.h, x)

\* One more copy, c.
LEMMA CopyOne ==
  ASSUME NEW h, NEW a, Arranged(a), NEW i \in 1..Len(a), NEW s, Halfway(h, s, a, i - 1),
         NEW c, CopyFor(s, a, i, c)
  PROVE  LET u == ShareEntry(s, a[i].key, c)
         IN  /\ Halfway(h, u, a, i)
             /\ Refs(u.ra) = Refs(s.ra) \cup {c.ref} /\ u.h = c.h
             /\ c.type # "shared" /\ NoneShared(s.ra) => NoneShared(u.ra)
<1> DEFINE e == Entry(a[i].key, c.ref, c.type)
           q == s.ra
           t == Append(q, e)
           u == ShareEntry(s, a[i].key, c)
           k == i - 1
<1>1. /\ a \in Seq(Entries) /\ s \in States /\ q \in Seq(Entries) /\ Len(q) = k /\ Arranged(q)
      /\ Typed(s.h, q)
      /\ \A j \in 1..k : q[j].key = a[j].key /\ Values(s.h, q[j].ref) = Values(h, a[j].ref)
      /\ \A x \in Rest(a, k) : Same(h, s.h, x)
  BY DEF Halfway, Arranged
<1>0. /\ c.h \in Heaps /\ c.ref \in Nat /\ c.type \in PlainTypes \cup {"shared"}
      /\ Object(c.h, c.ref).type = c.type /\ Values(c.h, c.ref) = Values(s.h, a[i].ref)
      /\ c.ref \notin Refs(q)
      /\ \A x \in Rest(a, i) \cup Refs(q) : Same(s.h, c.h, x)
  BY DEF CopyFor
<1>2. a[i].key \in 0..(KeyCount - 1)
  BY <1>1, EntryFacts
<1>3. e \in Entries /\ e.key = a[i].key /\ e.ref = c.ref /\ e.type = c.type
  BY <1>0, <1>2 DEF Entry, Entries
<1>4. u = [h |-> c.h, ra |-> t]
  BY DEF ShareEntry
<1> HIDE DEF e, q
<1>5. /\ t \in Seq(Entries) /\ Len(t) = i /\ t[i] = e
      /\ \A j \in 1..k : t[j] = q[j]
  BY <1>1, <1>3
<1> HIDE DEF t, u
<1>6. u.h = c.h /\ u.ra = t /\ u \in States
  BY <1>0, <1>4, <1>5 DEF States
<1>7. \A j \in 1..i : j = i \/ j \in 1..k
  OBVIOUS
<1>8. i \in 1..i /\ i \notin 1..k
  OBVIOUS
<1>9. \A j \in 1..k : q[j].ref \in Refs(q) /\ q[j].ref # c.ref
  BY <1>0, <1>1 DEF Refs, q
<1>10. Refs(t) = Refs(q) \cup {c.ref}
  <2>1. ASSUME NEW x \in Refs(t) PROVE x \in Refs(q) \cup {c.ref}
    <3>1. PICK j \in 1..i : x = t[j].ref
      BY <1>5 DEF Refs
    <3> QED
      BY <1>3, <1>5, <1>7, <1>9, <3>1
  <2>2. ASSUME NEW x \in Refs(q) PROVE x \in Refs(t)
    <3>1. PICK j \in 1..k : x = q[j].ref
      BY <1>1 DEF Refs
    <3>2. j \in 1..Len(t) /\ t[j] = q[j]
      BY <1>5
    <3> QED
      BY <3>1, <3>2 DEF Refs
  <2>3. c.ref \in Refs(t)
    BY <1>3, <1>5, <1>8 DEF Refs
  <2> QED
    BY <2>1, <2>2, <2>3
<1>11. Arranged(t)
  <2>1. ASSUME NEW j \in 1..i, NEW l \in 1..i, j < l
        PROVE  t[j].key < t[l].key /\ t[j].ref # t[l].ref
    <3>1. j \in 1..k /\ t[j] = q[j]
      BY <1>5, <2>1
    <3>2. CASE l = i
      <4>1. a[j].key < a[i].key
        <5>1. j \in 1..Len(a) /\ j < i
          BY <2>1, <3>2
        <5> QED
          BY <5>1 DEF Arranged
      <4> QED
        BY <1>1, <1>3, <1>5, <1>9, <3>1, <3>2, <4>1
    <3>3. CASE l # i
      <4>1. l \in 1..k /\ t[l] = q[l]
        BY <1>5, <1>7, <3>3
      <4> QED
        BY <1>1, <2>1, <3>1, <4>1 DEF Arranged
    <3> QED
      BY <3>2, <3>3
  <2> QED
    BY <1>5, <2>1 DEF Arranged
<1>12. \A j \in 1..k : Same(s.h, c.h, q[j].ref)
  BY <1>0, <1>9 DEF q
<1>13. Typed(c.h, t)
  <2>1. ASSUME NEW j \in 1..i PROVE t[j].type = Object(c.h, t[j].ref).type
    <3>1. CASE j = i
      BY <1>0, <1>3, <1>5, <3>1
    <3>2. CASE j \in 1..k
      <4>1. t[j] = q[j] /\ q[j].type = Object(s.h, q[j].ref).type /\ Same(s.h, c.h, q[j].ref)
        BY <1>1, <1>5, <1>12, <3>2 DEF Typed
      <4> QED
        BY <4>1 DEF Same
    <3> QED
      BY <1>7, <3>1, <3>2
  <2> QED
    BY <1>5, <2>1 DEF Typed
<1>14. ASSUME NEW j \in 1..i
       PROVE  t[j].key = a[j].key /\ Values(c.h, t[j].ref) = Values(h, a[j].ref)
  <2>1. CASE j = i
    <3>1. a[i].ref \in Rest(a, k)
      BY RestFacts
    <3>2. Same(h, s.h, a[i].ref)
      BY <1>1, <3>1
    <3>3. Values(s.h, a[i].ref) = Values(h, a[i].ref)
      BY <3>2 DEF Same
    <3> QED
      BY <1>0, <1>3, <1>5, <2>1, <3>3
  <2>2. CASE j \in 1..k
    <3>1. t[j] = q[j] /\ Same(s.h, c.h, q[j].ref)
      BY <1>5, <1>12, <2>2
    <3>2. Values(c.h, q[j].ref) = Values(s.h, q[j].ref)
      BY <3>1 DEF Same
    <3> QED
      BY <1>1, <2>2, <3>1, <3>2
  <2> QED
    BY <1>7, <2>1, <2>2
<1>15. ASSUME NEW x \in Rest(a, i) PROVE Same(h, c.h, x)
  <2>1. Rest(a, i) \subseteq Rest(a, k)
    BY RestFacts
  <2>2. Same(h, s.h, x) /\ Same(s.h, c.h, x)
    BY <1>0, <1>1, <1>15, <2>1
  <2> QED
    BY <2>2, SameTwice
<1>16. Halfway(h, u, a, i)
  BY <1>5, <1>6, <1>11, <1>13, <1>14, <1>15 DEF Halfway
<1>17. ASSUME c.type # "shared", NoneShared(q) PROVE NoneShared(t)
  <2>1. ASSUME NEW j \in 1..i PROVE t[j].type # "shared"
    BY <1>1, <1>3, <1>5, <1>7, <1>17 DEF NoneShared
  <2> QED
    BY <1>5, <2>1 DEF NoneShared
<1> QED
  BY <1>6, <1>10, <1>16, <1>17 DEF u, q

\* With copy-on-write, both bitmaps hold the containers that the first i entries share.
Sharing(h, s, a, i) ==
  /\ Halfway(h, s, a, i)
  /\ Sound(s.h, Rest(a, i) \cup Refs(s.ra), Refs(s.ra))
  /\ Rest(a, i) \cap Refs(s.ra) = {}

\* Without, the other bitmap has containers of its own.
Cloning(h, s, a, i) ==
  /\ Halfway(h, s, a, i)
  /\ Sound(s.h, Refs(a), Refs(s.ra))
  /\ \A x \in Refs(a) : Same(h, s.h, x)
  /\ NoneShared(s.ra)

\* One more container is shared.
LEMMA ShareOne ==
  ASSUME NEW h, NEW a, Arranged(a), Typed(h, a), NEW i \in 1..Len(a), NEW s, Sharing(h, s, a, i - 1)
  PROVE  Sharing(h, CopyStep(s, a[i], TRUE), a, i)
<1> DEFINE k == i - 1
           r == a[i].ref
           N == Refs(s.ra)
           R == Rest(a, k) \cup N
           c == get_copy_of_container(s.h, r, Object(s.h, r).type, TRUE)
           u == CopyStep(s, a[i], TRUE)
<1>1. r \in Rest(a, k) /\ r \notin Rest(a, i) /\ Rest(a, k) \ {r} = Rest(a, i)
  BY RestFacts
<1>2. /\ Halfway(h, s, a, k) /\ Sound(s.h, R, N) /\ Rest(a, k) \cap N = {}
      /\ Same(h, s.h, r)
  BY <1>1 DEF Sharing, Halfway
<1>3. a[i].type = Object(s.h, r).type
  BY <1>2 DEF Same, Typed
<1>4. u = ShareEntry(s, a[i].key, c)
  BY <1>3 DEF CopyStep
<1>5. r \in R /\ r \notin N /\ R \ {r} = Rest(a, i) \cup N
  BY <1>1, <1>2
<1> HIDE DEF r, R, u
<1>6. /\ Sound(c.h, (R \ {r}) \cup {c.ref}, N \cup {c.ref})
      /\ c.ref \notin (R \ {r}) \cup N
      /\ c.type = "shared" /\ Object(c.h, c.ref).type = "shared"
      /\ Values(c.h, c.ref) = Values(s.h, r)
      /\ \A x \in (R \ {r}) \cup N : Same(s.h, c.h, x)
  BY <1>2, <1>5, ShareCorrect
<1> HIDE DEF c, N
<1>7. c.h \in Heaps /\ c.ref \in Nat
  <2>1. c.h \in Heaps /\ c.ref \in Indices(c.h)
    BY <1>6, SoundFacts
  <2> QED
    BY <2>1, HeapFacts
<1>8. /\ Halfway(h, u, a, i)
      /\ Refs(u.ra) = N \cup {c.ref} /\ u.h = c.h
  <2>1. CopyFor(s, a, i, c)
    BY <1>5, <1>6, <1>7 DEF CopyFor, r, N
  <2> HIDE DEF k
  <2>2. Halfway(h, s, a, i - 1) /\ i \in 1..Len(a) /\ Arranged(a)
    BY <1>2 DEF k
  <2> DEFINE w == ShareEntry(s, a[i].key, c)
  <2>3. /\ Halfway(h, w, a, i)
        /\ Refs(w.ra) = Refs(s.ra) \cup {c.ref} /\ w.h = c.h
        /\ c.type # "shared" /\ NoneShared(s.ra) => NoneShared(w.ra)
    BY ONLY <2>1, <2>2, CopyOne
  <2> HIDE DEF w
  <2>4. u = w
    BY <1>4 DEF w
  <2> QED
    BY <2>3, <2>4 DEF N
<1>9. Sound(u.h, Rest(a, i) \cup Refs(u.ra), Refs(u.ra))
  <2>1. (R \ {r}) \cup {c.ref} = Rest(a, i) \cup Refs(u.ra)
    BY <1>5, <1>8
  <2> QED
    BY <1>6, <1>8, <2>1
<1>10. Rest(a, i) \cap Refs(u.ra) = {}
  BY <1>1, <1>2, <1>5, <1>6, <1>8
<1> QED
  BY <1>8, <1>9, <1>10 DEF Sharing, u

\* One more container is cloned.
LEMMA CloneOne ==
  ASSUME NEW h, NEW a, Arranged(a), Typed(h, a), NEW i \in 1..Len(a), NEW s, Cloning(h, s, a, i - 1)
  PROVE  Cloning(h, CopyStep(s, a[i], FALSE), a, i)
<1> DEFINE k == i - 1
           r == a[i].ref
           N == Refs(s.ra)
           R == Refs(a)
           c == get_copy_of_container(s.h, r, Object(s.h, r).type, FALSE)
           u == CopyStep(s, a[i], FALSE)
<1>1. Rest(a, i) \subseteq R
  <2>1. Len(a) \in Nat
    BY DEF Arranged
  <2> QED
    BY <2>1 DEF Rest, Refs
<1>2. /\ Halfway(h, s, a, k) /\ Sound(s.h, R, N) /\ \A x \in R : Same(h, s.h, x)
      /\ NoneShared(s.ra)
  BY DEF Cloning
<1>3. r \in R
  BY DEF Refs
<1>4. a[i].type = Object(s.h, r).type
  BY <1>2, <1>3 DEF Same, Typed
<1>5. u = ShareEntry(s, a[i].key, c)
  BY <1>4 DEF CopyStep
<1> HIDE DEF r, R, u
<1>6. /\ Sound(c.h, R, N \cup {c.ref})
      /\ c.ref \notin R \cup N
      /\ c.type # "shared" /\ Object(c.h, c.ref).type = c.type
      /\ Values(c.h, c.ref) = Values(s.h, r)
      /\ \A x \in R \cup N : Same(s.h, c.h, x)
  BY <1>2, <1>3, CloneCorrect
<1> HIDE DEF c, N
<1>7. c.h \in Heaps /\ c.ref \in Nat /\ c.type \in PlainTypes \cup {"shared"}
  <2>1. c.h \in Heaps /\ c.ref \in Indices(c.h) /\ (IsPlain(c.h, c.ref) \/ IsShared(c.h, c.ref))
    BY <1>6, SoundFacts
  <2> QED
    BY <1>6, <2>1, HeapFacts, AliveFacts
<1>8. /\ Halfway(h, u, a, i)
      /\ Refs(u.ra) = N \cup {c.ref} /\ u.h = c.h
      /\ NoneShared(u.ra)
  <2>1. CopyFor(s, a, i, c)
    BY <1>1, <1>6, <1>7 DEF CopyFor, r, N
  <2> HIDE DEF k
  <2>2. Halfway(h, s, a, i - 1) /\ i \in 1..Len(a) /\ Arranged(a)
    BY <1>2 DEF k
  <2> DEFINE w == ShareEntry(s, a[i].key, c)
  <2>3. /\ Halfway(h, w, a, i)
        /\ Refs(w.ra) = Refs(s.ra) \cup {c.ref} /\ w.h = c.h
        /\ c.type # "shared" /\ NoneShared(s.ra) => NoneShared(w.ra)
    BY ONLY <2>1, <2>2, CopyOne
  <2> HIDE DEF w
  <2>4. u = w
    BY <1>5 DEF w
  <2> QED
    BY <1>2, <1>6, <2>3, <2>4 DEF N
<1>9. \A x \in R : Same(h, u.h, x)
  BY <1>2, <1>6, <1>8, SameTwice
<1> QED
  BY <1>6, <1>8, <1>9 DEF Cloning, u, R

\* Copies of all the entries.
LEMMA HalfwayHeld ==
  ASSUME NEW h, NEW a, Arranged(a), NEW s, Halfway(h, s, a, Len(a))
  PROVE  /\ Len(s.ra) = Len(a) /\ Held(s.h, s.ra) = Held(h, a)
         /\ Filled(h, a) => Filled(s.h, s.ra)
<1>1. /\ Len(s.ra) = Len(a)
      /\ \A j \in 1..Len(a) : s.ra[j].key = a[j].key /\ Values(s.h, s.ra[j].ref) = Values(h, a[j].ref)
  BY DEF Halfway
<1>2. Held(s.h, s.ra) = Held(h, a)
  BY <1>1 DEF Held
<1>3. Filled(h, a) => Filled(s.h, s.ra)
  BY <1>1 DEF Filled
<1> QED
  BY <1>1, <1>2, <1>3

\* roaring_bitmap_overwrite: both bitmaps hold what the first one held; with
\* copy-on-write they have the same entries, and without it the first one is as it was.
LEMMA OverwriteCorrect ==
  ASSUME BulkAssumption, cow \in BOOLEAN, NEW a, a = bitmaps["a"], NEW b, b = bitmaps["b"],
         NEW z, z = [h |-> heap, ra |-> b], Ok(z, a), Filled(heap, a)
  PROVE  LET d == ra_overwrite
             o == IF cow THEN d.ra ELSE a
         IN  /\ Ok(d, o)
             /\ Filled(d.h, d.ra) /\ Filled(d.h, o)
             /\ Held(d.h, d.ra) = Held(heap, a) /\ Held(d.h, o) = Held(heap, a)
             /\ ~cow => NoneShared(d.ra)
<1> DEFINE n == Len(b)
           m == Len(a)
           d == ra_overwrite
           o == IF cow THEN d.ra ELSE a
<1>1. /\ z.h = heap /\ z.ra = b
      /\ b \in Seq(Entries) /\ a \in Seq(Entries) /\ n \in Nat /\ m \in Nat
      /\ Sound(heap, Refs(b), Refs(a)) /\ Arranged(b) /\ Arranged(a)
      /\ Typed(heap, b) /\ Typed(heap, a)
  <2>1. z.h = heap /\ z.ra = b
    OBVIOUS
  <2> QED
    BY <2>1, OkFacts
<1>2. DOMAIN b = 1..n /\ DOMAIN a = 1..m
  BY <1>1
<1> HIDE DEF n, m
<1>0. PICK cl, it : OverwriteLoops(cl, it, a, b, m, n)
  BY <1>1, <1>2, OverwriteTurns
<1>3. /\ d = it[1..m]
      /\ cl[1..0] = heap
      /\ \A i \in 1..n : cl[1..i] = ClearStep(cl[1..(i - 1)], b[i])
      /\ it[1..0] = [h |-> cl[1..n], ra |-> <<>>]
      /\ \A i \in 1..m : it[1..i] = CopyStep(it[1..(i - 1)], a[i], cow)
  BY <1>0 DEF OverwriteLoops
<1> DEFINE h == cl[1..n]
           s(i) == it[1..i]
<1>4. Clearing(heap, h, b, n, Refs(a))
  <2> DEFINE T == {i \in 0..n : Clearing(heap, cl[1..i], b, i, Refs(a))}
  <2>1. 0 \in T
    <3>1. Clearing(heap, heap, b, 0, Refs(a))
      BY <1>1, RestFacts DEF Clearing, Same
    <3> QED
      BY <1>1, <1>3, <3>1
  <2>2. ASSUME NEW i \in 1..n, i - 1 \in T PROVE i \in T
    <3>1. Clearing(heap, cl[1..(i - 1)], b, i - 1, Refs(a))
      BY <2>2
    <3>2. Clearing(heap, ClearStep(cl[1..(i - 1)], b[i]), b, i, Refs(a))
      BY <1>1, <3>1, ClearOne DEF n
    <3> QED
      BY <1>1, <1>3, <3>2
  <2> HIDE DEF T
  <2>3. n \in T
    BY <1>1, <2>1, <2>2, BoundedInduction
  <2> QED
    BY <2>3 DEF T
<1>5. s(0) = [h |-> h, ra |-> <<>>] /\ d = s(m)
  BY <1>3
<1>6. \A i \in 1..m : s(i) = CopyStep(s(i - 1), a[i], cow)
  BY <1>3
<1> HIDE DEF h, s, d
<1>7. Sound(h, {}, Refs(a)) /\ Kept(heap, h, a)
  <2>1. Rest(b, n) = {}
    BY <1>1, RestFacts DEF n
  <2> QED
    BY <1>4, <2>1 DEF Clearing, Kept
<1>8. Typed(h, a) /\ Held(h, a) = Held(heap, a) /\ Filled(h, a)
  BY <1>1, <1>7, KeptFacts
<1>9. Sound(h, Refs(a), {}) /\ h \in Heaps
  BY <1>7, Swapped DEF Sound
<1>10. /\ Halfway(h, s(0), a, 0) /\ Refs(s(0).ra) = {} /\ s(0).h = h /\ NoneShared(s(0).ra)
  <2>1. s(0).h = h /\ s(0).ra = <<>> /\ <<>> \in Seq(Entries) /\ Len(<<>>) = 0
    BY <1>5
  <2>2. s(0) \in States
    BY <1>5, <1>9, <2>1 DEF States
  <2>3. Arranged(<<>>) /\ Typed(h, <<>>) /\ Refs(<<>>) = {} /\ NoneShared(<<>>)
    BY <2>1 DEF Arranged, Typed, Refs, NoneShared
  <2>4. \A x \in Rest(a, 0) : Same(h, h, x)
    BY DEF Same
  <2> QED
    BY <2>1, <2>2, <2>3, <2>4 DEF Halfway
<1>11. CASE cow
  <2> DEFINE T == {i \in 0..m : Sharing(h, s(i), a, i)}
  <2>1. 0 \in T
    <3>1. Rest(a, 0) = Refs(a) /\ 0 \in 0..m
      BY <1>1, RestFacts
    <3>2. Refs(a) \cup {} = Refs(a) /\ Refs(a) \cap {} = {}
      OBVIOUS
    <3>3. Sharing(h, s(0), a, 0)
      BY <1>9, <1>10, <3>1, <3>2 DEF Sharing
    <3> QED
      BY <3>1, <3>3
  <2>2. ASSUME NEW i \in 1..m, i - 1 \in T PROVE i \in T
    <3>1. Sharing(h, s(i - 1), a, i - 1)
      BY <2>2
    <3>2. Sharing(h, CopyStep(s(i - 1), a[i], TRUE), a, i)
      BY <1>1, <1>8, <3>1, ShareOne DEF m
    <3>3. s(i) = CopyStep(s(i - 1), a[i], TRUE)
      BY <1>6, <1>11
    <3>4. i \in 0..m
      BY <1>1
    <3> QED
      BY <3>2, <3>3, <3>4
  <2> HIDE DEF T
  <2>3. m \in T
    BY <1>1, <2>1, <2>2, BoundedInduction
  <2>4. Sharing(h, d, a, m)
    BY <1>5, <2>3 DEF T
  <2>5. Rest(a, m) = {}
    BY <1>1, RestFacts DEF m
  <2>6. /\ Halfway(h, d, a, m) /\ Sound(d.h, Refs(d.ra), Refs(d.ra))
    BY <2>4, <2>5 DEF Sharing
  <2>7. Held(d.h, d.ra) = Held(heap, a) /\ Filled(d.h, d.ra)
    BY <1>1, <1>8, <2>6, HalfwayHeld DEF m
  <2>8. Ok(d, d.ra)
    BY <2>6 DEF Ok, Halfway
  <2> QED
    BY <1>11, <2>7, <2>8 DEF d
<1>12. CASE ~cow
  <2> DEFINE T == {i \in 0..m : Cloning(h, s(i), a, i)}
  <2>1. 0 \in T
    <3>1. 0 \in 0..m /\ \A x \in Refs(a) : Same(h, h, x)
      BY <1>1 DEF Same
    <3>2. Cloning(h, s(0), a, 0)
      BY <1>9, <1>10, <3>1 DEF Cloning
    <3> QED
      BY <3>1, <3>2
  <2>2. ASSUME NEW i \in 1..m, i - 1 \in T PROVE i \in T
    <3>1. Cloning(h, s(i - 1), a, i - 1)
      BY <2>2
    <3>2. Cloning(h, CopyStep(s(i - 1), a[i], FALSE), a, i)
      BY <1>1, <1>8, <3>1, CloneOne DEF m
    <3>3. s(i) = CopyStep(s(i - 1), a[i], FALSE)
      <4>1. cow = FALSE
        BY <1>12
      <4> QED
        BY <1>6, <4>1
    <3>4. i \in 0..m
      BY <1>1
    <3> QED
      BY <3>2, <3>3, <3>4
  <2> HIDE DEF T
  <2>3. m \in T
    BY <1>1, <2>1, <2>2, BoundedInduction
  <2>4. Cloning(h, d, a, m)
    BY <1>5, <2>3 DEF T
  <2>5. /\ Halfway(h, d, a, m) /\ Sound(d.h, Refs(a), Refs(d.ra)) /\ NoneShared(d.ra)
        /\ Kept(h, d.h, a)
    BY <2>4 DEF Cloning, Kept
  <2>6. Held(d.h, d.ra) = Held(heap, a) /\ Filled(d.h, d.ra)
    BY <1>1, <1>8, <2>5, HalfwayHeld DEF m
  <2>7. Typed(d.h, a) /\ Held(d.h, a) = Held(heap, a) /\ Filled(d.h, a)
    BY <1>1, <1>8, <2>5, KeptFacts
  <2>8. Sound(d.h, Refs(d.ra), Refs(a))
    BY <2>5, Swapped
  <2>9. Ok(d, a)
    BY <1>1, <2>5, <2>7, <2>8 DEF Ok, Halfway
  <2> QED
    BY <1>12, <2>5, <2>6, <2>7, <2>9 DEF d
<1> QED
  BY <1>11, <1>12

-----------------------------------------------------------------------------
(* The invariant.                                                          *)

\* A context is never used to add after it was used to search a bitmap that shares
\* containers, nor after its bitmap was copied.
ContextRules == ~MixedWhenShared /\ ~KeptOverCopy

Other(b) == IF b = "a" THEN "b" ELSE "a"

TypeOK ==
  /\ bitmaps \in [Bitmaps -> Seq(Entries)]
  /\ contexts \in [Bitmaps -> Contexts]
  /\ members \in [Bitmaps -> SUBSET Universe]
  /\ cow \in BOOLEAN

\* A context is that of an entry, and that of a container of the bitmap's own unless it
\* was used to search.
ContextOk(context, s) ==
  /\ Fits(context, s)
  /\ context.use = "none" => context.container = NullRef
  /\ context.use # "search" => Writes(context)

BitmapOk(b) ==
  /\ Ok(State(b), bitmaps[Other(b)])
  /\ Filled(heap, bitmaps[b])
  /\ Held(heap, bitmaps[b]) = members[b]
  /\ ~cow => NoneShared(bitmaps[b])
  /\ ContextOk(contexts[b], bitmaps[b])

IInv == TypeOK /\ \A b \in Bitmaps : BitmapOk(b)

\* The two bitmaps.
LEMMA OtherFacts ==
  ASSUME NEW b \in Bitmaps
  PROVE  /\ Other(b) \in Bitmaps /\ Other(b) # b /\ Other(Other(b)) = b
         /\ \A c \in Bitmaps : c = b \/ c = Other(b)
BY DEF Bitmaps, Other

\* The program starts with empty bitmaps and nothing on the heap.
LEMMA InitInv ==
  ASSUME BulkAssumption, Init
  PROVE  IInv
<1>1. /\ heap = EmptyHeap /\ bitmaps = [b \in Bitmaps |-> <<>>]
      /\ contexts = [b \in Bitmaps |-> ZeroContext] /\ members = [b \in Bitmaps |-> {}]
      /\ cow \in BOOLEAN
  BY DEF Init
<1>2. <<>> \in Seq(Entries) /\ Len(<<>>) = 0
  OBVIOUS
<1>3. ZeroContext \in Contexts /\ Fits(ZeroContext, <<>>) /\ Writes(ZeroContext)
  BY ZeroFits
<1>4. TypeOK
  BY <1>1, <1>2, <1>3 DEF TypeOK
<1>5. heap \in Heaps /\ heap.objs = <<>>
  <2>1. <<>> \in Seq(Objects)
    OBVIOUS
  <2>2. EmptyHeap \in [objs : Seq(Objects), touched : BOOLEAN] /\ ~EmptyHeap.touched /\ EmptyHeap.objs = <<>>
    BY <2>1 DEF EmptyHeap
  <2> QED
    BY <1>1, <2>2 DEF Heaps
<1>6. Sound(heap, {}, {})
  <2>1. Indices(heap) = {}
    BY <1>5 DEF Indices
  <2>2. Pointed(heap, {}, {}) /\ WrappersSound(heap, {}, {}) /\ InnersDiffer(heap) /\ PlainsSound(heap, {}, {})
    BY <2>1 DEF Pointed, WrappersSound, InnersDiffer, PlainsSound
  <2> QED
    BY <1>5, <2>2 DEF Sound
<1>7. /\ Refs(<<>>) = {} /\ Arranged(<<>>) /\ Typed(heap, <<>>) /\ Filled(heap, <<>>)
      /\ Held(heap, <<>>) = {} /\ NoneShared(<<>>)
  BY <1>2 DEF Refs, Arranged, Typed, Filled, Held, NoneShared
<1>8. ASSUME NEW b \in Bitmaps PROVE BitmapOk(b)
  <2>1. bitmaps[b] = <<>> /\ bitmaps[Other(b)] = <<>> /\ contexts[b] = ZeroContext /\ members[b] = {}
    BY <1>1, OtherFacts
  <2>2. State(b) = [h |-> heap, ra |-> <<>>]
    BY <2>1 DEF State
  <2>3. State(b).h = heap /\ State(b).ra = <<>> /\ State(b) \in States
    BY <1>2, <1>5, <2>2 DEF States
  <2>4. Ok(State(b), <<>>)
    BY <1>6, <1>7, <2>3 DEF Ok
  <2>5. ContextOk(ZeroContext, <<>>)
    BY <1>3 DEF ContextOk, ZeroContext
  <2> QED
    BY <1>7, <2>1, <2>4, <2>5 DEF BitmapOk
<1> QED
  BY <1>4, <1>8 DEF IInv

\* What the invariant says of one bitmap and its context.
LEMMA BitmapFacts ==
  ASSUME IInv, NEW b \in Bitmaps
  PROVE  /\ TypeOK /\ cow \in BOOLEAN
         /\ bitmaps[b] \in Seq(Entries) /\ bitmaps[Other(b)] \in Seq(Entries)
         /\ contexts[b] \in Contexts /\ members[b] \in SUBSET Universe
         /\ State(b) = [h |-> heap, ra |-> bitmaps[b]]
         /\ State(b).h = heap /\ State(b).ra = bitmaps[b]
         /\ Ok(State(b), bitmaps[Other(b)])
         /\ Filled(heap, bitmaps[b]) /\ Held(heap, bitmaps[b]) = members[b]
         /\ ~cow => NoneShared(bitmaps[b])
         /\ ContextOk(contexts[b], bitmaps[b])
<1>1. BitmapOk(b) /\ TypeOK
  BY DEF IInv
<1>2. State(b) = [h |-> heap, ra |-> bitmaps[b]]
  BY DEF State
<1>3. State(b).h = heap /\ State(b).ra = bitmaps[b]
  BY <1>2
<1>4. Other(b) \in Bitmaps
  BY OtherFacts
<1> QED
  BY <1>1, <1>2, <1>3, <1>4 DEF BitmapOk, TypeOK

\* A call on one bitmap leaves the other one as it was.
LEMMA CallKeeps ==
  ASSUME IInv, NEW b \in Bitmaps, NEW s, NEW S, NEW c \in Contexts,
         Became(State(b), s, bitmaps[Other(b)], S), ContextOk(c, s.ra),
         heap' = s.h, bitmaps' = [bitmaps EXCEPT ![b] = s.ra], members' = [members EXCEPT ![b] = S],
         contexts' = [contexts EXCEPT ![b] = c], cow' = cow
  PROVE  IInv'
<1> DEFINE d == Other(b)
           o == bitmaps[d]
<1>1. d \in Bitmaps /\ d # b /\ Other(d) = b /\ \A x \in Bitmaps : x = b \/ x = d
  BY OtherFacts
<1>2. /\ TypeOK /\ Ok(State(b), o) /\ State(b).h = heap /\ State(b).ra = bitmaps[b]
      /\ ~cow => NoneShared(bitmaps[b])
  BY BitmapFacts
<1>3. /\ Filled(heap, o) /\ Held(heap, o) = members[d] /\ (~cow => NoneShared(o))
      /\ ContextOk(contexts[d], o)
  BY <1>1, BitmapFacts
<1> HIDE DEF d
<1>4. /\ Ok(s, o) /\ Kept(heap, s.h, o) /\ Filled(s.h, s.ra) /\ Held(s.h, s.ra) = S
      /\ NoneShared(bitmaps[b]) => NoneShared(s.ra)
  BY <1>2 DEF Became, d
<1>5. /\ s.ra \in Seq(Entries) /\ o \in Seq(Entries) /\ Sound(s.h, Refs(s.ra), Refs(o))
      /\ Arranged(s.ra) /\ Arranged(o) /\ Typed(s.h, s.ra) /\ Typed(s.h, o)
      /\ s = [h |-> s.h, ra |-> s.ra] /\ s.h \in Heaps
  BY <1>4, OkFacts
<1>6. S \in SUBSET Universe
  BY <1>4 DEF Held
<1>7. /\ bitmaps'[b] = s.ra /\ bitmaps'[d] = o /\ members'[b] = S /\ members'[d] = members[d]
      /\ contexts'[b] = c /\ contexts'[d] = contexts[d]
  BY <1>1, <1>2 DEF TypeOK
<1>8. TypeOK'
  BY <1>2, <1>5, <1>6 DEF TypeOK
<1>9. /\ State(b)' = s /\ State(d)' = [h |-> s.h, ra |-> o]
  BY <1>5, <1>7 DEF State
<1>10. Held(s.h, o) = members[d] /\ Filled(s.h, o)
  BY <1>3, <1>4, <1>5, KeptFacts
<1>11. Ok([h |-> s.h, ra |-> o], s.ra)
  <2> DEFINE z == [h |-> s.h, ra |-> o]
  <2>1. z.h = s.h /\ z.ra = o /\ z \in States
    BY <1>5 DEF States
  <2>2. Sound(s.h, Refs(o), Refs(s.ra))
    BY <1>5, Swapped
  <2> HIDE DEF z
  <2>3. Ok(z, s.ra)
    BY <1>5, <2>1, <2>2 DEF Ok
  <2> QED
    BY <2>3 DEF z
<1>12. BitmapOk(b)'
  <2>1. Ok(s, o) /\ Filled(s.h, s.ra) /\ Held(s.h, s.ra) = S /\ (~cow => NoneShared(s.ra)) /\ ContextOk(c, s.ra)
    BY <1>2, <1>4
  <2> HIDE DEF o
  <2> QED
    BY <1>1, <1>7, <1>9, <2>1 DEF BitmapOk, d
<1>13. BitmapOk(d)'
  <2> HIDE DEF o
  <2> QED
    BY <1>1, <1>3, <1>7, <1>9, <1>10, <1>11 DEF BitmapOk
<1> QED
  BY <1>1, <1>8, <1>12, <1>13 DEF IInv

\* A context with which a call may be made.
LEMMA ContextFits ==
  ASSUME BulkAssumption, ContextRules, IInv, NEW b \in Bitmaps, NEW use \in {"add", "search"}
  PROVE  LET c == Context(b, use)
         IN  /\ c \in Contexts /\ c.use = use /\ Fits(c, bitmaps[b])
             /\ use = "add" => Writes(c)
<1> DEFINE old == contexts[b]
           kept == old.use \in {"none", use} \/ ~cow \/ MixedWhenShared
           c == Context(b, use)
<1>1. /\ old \in Contexts /\ Fits(old, bitmaps[b]) /\ (~cow => NoneShared(bitmaps[b]))
      /\ old.use # "search" => Writes(old)
  BY BitmapFacts DEF ContextOk
<1>2. c = IF kept THEN [old EXCEPT !.use = use] ELSE [ZeroContext EXCEPT !.use = use]
  BY DEF Context
<1>3. ZeroContext \in Contexts /\ ZeroContext.container = NullRef
  BY ZeroFits DEF ZeroContext
<1>4. kept => old.use \in {"none", use} \/ ~cow
  BY DEF ContextRules
<1> HIDE DEF old, kept, c
<1>5. CASE kept
  <2>1. /\ c \in Contexts /\ c.use = use /\ c.container = old.container /\ c.idx = old.idx
        /\ c.key = old.key /\ c.typecode = old.typecode
    BY <1>1, <1>2, <1>5 DEF Contexts
  <2>2. Fits(c, bitmaps[b])
    BY <1>1, <2>1 DEF Fits
  <2>3. ASSUME use = "add" PROVE Writes(c)
    <3>1. CASE old.use # "search"
      BY <1>1, <2>1, <3>1 DEF Writes
    <3>2. CASE old.use = "search"
      <4>1. NoneShared(bitmaps[b])
        BY <1>1, <1>4, <1>5, <2>3, <3>2
      <4>2. ASSUME old.container # NullRef PROVE old.typecode # "shared"
        <5>1. /\ old.idx + 1 \in 1..Len(bitmaps[b])
              /\ bitmaps[b][old.idx + 1] = Entry(old.key, old.container, old.typecode)
          BY <1>1, <4>2 DEF Fits
        <5> QED
          BY <4>1, <5>1 DEF NoneShared, Entry
      <4> QED
        BY <2>1, <4>2 DEF Writes
    <3> QED
      BY <3>1, <3>2
  <2> QED
    BY <2>1, <2>2, <2>3 DEF c
<1>6. CASE ~kept
  <2>1. c \in Contexts /\ c.use = use /\ c.container = NullRef
    BY <1>2, <1>3, <1>6 DEF Contexts
  <2> QED
    BY <2>1 DEF Fits, Writes, c
<1> QED
  BY <1>5, <1>6

\* A call without a context keeps the invariant.
LEMMA ChangedKeeps ==
  ASSUME BulkAssumption, IInv, NEW b \in Bitmaps, NEW s, NEW S, Changed(b, s, S),
         Became(State(b), s, bitmaps[Other(b)], S)
  PROVE  IInv'
<1>1. ZeroContext \in Contexts /\ ContextOk(ZeroContext, s.ra)
  BY ZeroFits DEF ContextOk, ZeroContext
<1>2. /\ heap' = s.h /\ bitmaps' = [bitmaps EXCEPT ![b] = s.ra] /\ cow' = cow
      /\ members' = [members EXCEPT ![b] = S] /\ contexts' = [contexts EXCEPT ![b] = ZeroContext]
  BY DEF Changed, Step
<1> QED
  BY <1>1, <1>2, CallKeeps

\* roaring_bitmap_add_bulk keeps the invariant.
LEMMA AddBulkKeeps ==
  ASSUME BulkAssumption, ContextRules, IInv, NEW b \in Bitmaps, NEW v \in Universe, AddBulk(b, v)
  PROVE  IInv'
<1> DEFINE use == "add"
           z == State(b)
           o == bitmaps[Other(b)]
           c == Context(b, use)
           d == add_bulk_impl(z, c, v)
           S == members[b] \cup {v}
<1>1. /\ heap' = d.s.h /\ bitmaps' = [bitmaps EXCEPT ![b] = d.s.ra] /\ cow' = cow
      /\ members' = [members EXCEPT ![b] = S] /\ contexts' = [contexts EXCEPT ![b] = d.context]
  <2>1. members' = [members EXCEPT ![b] = @ \cup {v}]
    BY DEF AddBulk, AddedBulk
  <2>2. members \in [Bitmaps -> SUBSET Universe]
    BY BitmapFacts DEF TypeOK
  <2> QED
    BY <2>1, <2>2 DEF AddBulk, AddedBulk, Step
<1>2. /\ Ok(z, o) /\ Filled(z.h, z.ra) /\ Held(z.h, z.ra) = members[b] /\ z.ra = bitmaps[b]
  <2>1. State(b).h = heap /\ State(b).ra = bitmaps[b]
    BY BitmapFacts
  <2> QED
    BY <2>1, BitmapFacts
<1>3. use \in {"add", "search"} /\ use = "add"
  OBVIOUS
<1> HIDE DEF use, z
<1>4. c \in Contexts /\ c.use = use /\ Fits(c, z.ra) /\ Writes(c)
  BY <1>2, <1>3, ContextFits
<1> HIDE DEF c, o
<1>5. /\ Became(z, d.s, o, S) /\ d.context \in Contexts /\ d.context.use = use
      /\ Fits(d.context, d.s.ra) /\ Writes(d.context)
  BY <1>2, <1>4, AddBulkCorrect
<1> HIDE DEF d, S
<1>6. ContextOk(d.context, d.s.ra)
  BY <1>3, <1>5 DEF ContextOk
<1>7. Became(State(b), d.s, bitmaps[Other(b)], S)
  BY <1>5 DEF z, o
<1> QED
  BY <1>1, <1>5, <1>6, <1>7, CallKeeps

\* roaring_bitmap_contains_bulk changes only the context, which still fits.
LEMMA ContainsBulkKeeps ==
  ASSUME BulkAssumption, ContextRules, IInv, NEW b \in Bitmaps, NEW v \in Universe,
         ContainsBulk(b, v)
  PROVE  IInv'
<1> DEFINE use == "search"
           z == State(b)
           o == bitmaps[Other(b)]
           c == Context(b, use)
           d == roaring_bitmap_contains_bulk(z, c, v)
<1>1. /\ heap' = d.h /\ bitmaps' = bitmaps /\ members' = members /\ cow' = cow
      /\ contexts' = [contexts EXCEPT ![b] = d.context]
  BY DEF ContainsBulk, Searched, Step
<1>2. Ok(z, o) /\ z.h = heap /\ z.ra = bitmaps[b] /\ TypeOK
  BY BitmapFacts
<1>3. use \in {"add", "search"} /\ use = "search"
  OBVIOUS
<1> HIDE DEF use, z
<1>4. c \in Contexts /\ c.use = use /\ Fits(c, z.ra)
  BY <1>2, <1>3, ContextFits
<1> HIDE DEF c, o
<1>5. d.h = z.h /\ d.context \in Contexts /\ d.context.use = use /\ Fits(d.context, z.ra)
  BY <1>2, <1>4, SearchBulkCorrect
<1> HIDE DEF d
<1>6. ContextOk(d.context, bitmaps[b])
  BY <1>2, <1>3, <1>5 DEF ContextOk
<1>7. heap' = heap
  BY <1>1, <1>2, <1>5
<1>8. /\ contexts' \in [Bitmaps -> Contexts]
      /\ \A x \in Bitmaps : contexts'[x] = IF x = b THEN d.context ELSE contexts[x]
  BY <1>1, <1>2, <1>5 DEF TypeOK
<1>9. ASSUME NEW x \in Bitmaps PROVE BitmapOk(x)'
  <2>1. BitmapOk(x)
    BY DEF IInv
  <2>2. ContextOk(contexts'[x], bitmaps[x])
    BY <1>6, <1>8, <2>1 DEF BitmapOk
  <2>3. State(x)' = State(x)
    BY <1>1, <1>7 DEF State
  <2> QED
    BY <1>1, <1>7, <2>1, <2>2, <2>3 DEF BitmapOk
<1>10. TypeOK'
  BY <1>1, <1>2, <1>8 DEF TypeOK
<1> QED
  BY <1>9, <1>10 DEF IInv

\* roaring_bitmap_overwrite keeps the invariant: both bitmaps hold what the first one
\* held, and the contexts that pointed at what was freed or shared are invalid.
LEMMA OverwriteKeeps ==
  ASSUME BulkAssumption, ContextRules, IInv, Overwrite
  PROVE  IInv'
<1> DEFINE x == "a"
           y == "b"
           a == bitmaps[x]
           z == [h |-> heap, ra |-> bitmaps[y]]
           d == ra_overwrite
           o == IF cow THEN d.ra ELSE a
           c == IF cow THEN ZeroContext ELSE contexts[x]
<1>1. x \in Bitmaps /\ y \in Bitmaps /\ x # y /\ Other(x) = y /\ Other(y) = x /\ \A b \in Bitmaps : b = x \/ b = y
  BY DEF Bitmaps, Other
<1>2. /\ heap' = d.h /\ bitmaps' = [bitmaps EXCEPT ![y] = d.ra, ![x] = IF cow THEN d.ra ELSE @]
      /\ members' = [members EXCEPT ![y] = members[x]] /\ cow' = cow
      /\ contexts' = [contexts EXCEPT ![y] = ZeroContext,
                                      ![x] = IF cow /\ ~KeptOverCopy THEN ZeroContext ELSE @]
  BY DEF Overwrite, Overwritten, Step
<1>3. bitmaps["a"] = bitmaps[x] /\ bitmaps["b"] = bitmaps[y]
  OBVIOUS
<1>4. z = [h |-> heap, ra |-> bitmaps["b"]]
  OBVIOUS
<1> HIDE DEF x, y
<1>5. /\ TypeOK /\ cow \in BOOLEAN /\ Ok(State(y), a) /\ State(y) = z
      /\ Filled(heap, a) /\ Held(heap, a) = members[x] /\ (~cow => NoneShared(a))
      /\ contexts[x] \in Contexts /\ ContextOk(contexts[x], a)
  <2>1. Ok(State(y), bitmaps[Other(y)]) /\ State(y) = [h |-> heap, ra |-> bitmaps[y]] /\ TypeOK /\ cow \in BOOLEAN
    BY <1>1, BitmapFacts
  <2>2. /\ Filled(heap, a) /\ Held(heap, a) = members[x] /\ (~cow => NoneShared(a))
        /\ contexts[x] \in Contexts /\ ContextOk(contexts[x], a)
    BY <1>1, BitmapFacts
  <2> QED
    BY <1>1, <2>1, <2>2
<1> HIDE DEF z
<1>6. /\ Ok(d, o) /\ Filled(d.h, d.ra) /\ Filled(d.h, o)
      /\ Held(d.h, d.ra) = members[x] /\ Held(d.h, o) = members[x]
      /\ ~cow => NoneShared(d.ra)
  BY <1>3, <1>4, <1>5, OverwriteCorrect
<1> HIDE DEF d
<1>7. /\ d.h \in Heaps /\ d.ra \in Seq(Entries) /\ o \in Seq(Entries) /\ d = [h |-> d.h, ra |-> d.ra]
      /\ Sound(d.h, Refs(d.ra), Refs(o))
      /\ Arranged(d.ra) /\ Arranged(o) /\ Typed(d.h, d.ra) /\ Typed(d.h, o)
  BY <1>6, OkFacts
<1>8. ~cow => NoneShared(o)
  BY <1>5
<1>9. c \in Contexts /\ ContextOk(c, o) /\ ContextOk(ZeroContext, d.ra) /\ ZeroContext \in Contexts
  <2>1. ZeroContext \in Contexts /\ ContextOk(ZeroContext, d.ra) /\ ContextOk(ZeroContext, o)
    BY ZeroFits DEF ContextOk, ZeroContext
  <2> QED
    BY <1>5, <2>1
<1>10. /\ bitmaps'[x] = o /\ bitmaps'[y] = d.ra /\ members'[x] = members[x] /\ members'[y] = members[x]
       /\ contexts'[x] = c /\ contexts'[y] = ZeroContext
  BY <1>1, <1>2, <1>5 DEF TypeOK, ContextRules
<1>11. TypeOK'
  <2>1. bitmaps' \in [Bitmaps -> Seq(Entries)]
    BY <1>1, <1>2, <1>5, <1>7 DEF TypeOK
  <2>2. members' \in [Bitmaps -> SUBSET Universe]
    BY <1>1, <1>2, <1>5 DEF TypeOK
  <2>3. contexts' \in [Bitmaps -> Contexts]
    BY <1>1, <1>2, <1>5, <1>9 DEF TypeOK
  <2> QED
    BY <1>2, <1>5, <2>1, <2>2, <2>3 DEF TypeOK
<1>12. Ok([h |-> d.h, ra |-> o], d.ra)
  <2> DEFINE w == [h |-> d.h, ra |-> o]
  <2> HIDE DEF o
  <2>1. w.h = d.h /\ w.ra = o /\ w \in States
    BY <1>7 DEF States
  <2>2. Sound(d.h, Refs(o), Refs(d.ra))
    BY <1>7, Swapped
  <2> HIDE DEF w
  <2>3. Ok(w, d.ra)
    BY <1>7, <2>1, <2>2 DEF Ok
  <2> QED
    BY <2>3 DEF w
<1>13. State(y)' = d /\ State(x)' = [h |-> d.h, ra |-> o]
  <2> HIDE DEF o
  <2> QED
    BY <1>2, <1>7, <1>10 DEF State
<1> HIDE DEF o, c
<1>14. BitmapOk(y)'
  BY <1>1, <1>2, <1>6, <1>9, <1>10, <1>13 DEF BitmapOk
<1>15. BitmapOk(x)'
  BY <1>1, <1>2, <1>6, <1>8, <1>9, <1>10, <1>12, <1>13 DEF BitmapOk
<1> QED
  BY <1>1, <1>11, <1>14, <1>15 DEF IInv

\* Every step keeps the invariant.
LEMMA NextKeeps ==
  ASSUME BulkAssumption, ContextRules, IInv, [Next]_vars
  PROVE  IInv'
<1>1. ASSUME NEW b \in Bitmaps
      PROVE  LET z == State(b)
             IN  Ok(z, bitmaps[Other(b)]) /\ Filled(z.h, z.ra) /\ Held(z.h, z.ra) = members[b]
  <2>1. State(b).h = heap /\ State(b).ra = bitmaps[b]
    BY BitmapFacts
  <2> QED
    BY <2>1, BitmapFacts
<1>2. CASE \E b \in Bitmaps, v \in Universe : AddOne(b, v)
  <2>1. PICK b \in Bitmaps, v \in Universe : AddOne(b, v)
    BY <1>2
  <2> DEFINE z == State(b)
             r == containerptr_roaring_bitmap_add(z, v)
             s == roaring_bitmap_add(z, v)
  <2>2. Ok(z, bitmaps[Other(b)]) /\ Filled(z.h, z.ra) /\ Held(z.h, z.ra) = members[b]
    BY <1>1
  <2> HIDE DEF z
  <2>3. Became(z, r.s, bitmaps[Other(b)], members[b] \cup {v})
    BY <2>2, AddCorrect
  <2> HIDE DEF r
  <2>4. s = r.s
    BY DEF roaring_bitmap_add, r
  <2> HIDE DEF s
  <2>5. Changed(b, s, members[b] \cup {v})
    BY <2>1 DEF AddOne, s, z
  <2>6. Became(State(b), s, bitmaps[Other(b)], members[b] \cup {v})
    BY <2>3, <2>4 DEF z
  <2> QED
    BY <2>5, <2>6, ChangedKeeps
<1>3. CASE \E b \in Bitmaps, v \in Universe : RemoveOne(b, v)
  <2>1. PICK b \in Bitmaps, v \in Universe : RemoveOne(b, v)
    BY <1>3
  <2> DEFINE z == State(b)
             s == roaring_bitmap_remove(z, v)
  <2>2. Ok(z, bitmaps[Other(b)]) /\ Filled(z.h, z.ra) /\ Held(z.h, z.ra) = members[b]
    BY <1>1
  <2> HIDE DEF z
  <2>3. Became(z, s, bitmaps[Other(b)], members[b] \ {v})
    BY <2>2, RemoveCorrect
  <2> HIDE DEF s
  <2>4. Changed(b, s, members[b] \ {v})
    BY <2>1 DEF RemoveOne, s, z
  <2>5. Became(State(b), s, bitmaps[Other(b)], members[b] \ {v})
    BY <2>3 DEF z
  <2> QED
    BY <2>4, <2>5, ChangedKeeps
<1>4. CASE \E b \in Bitmaps, v \in Universe : AddBulk(b, v)
  BY <1>4, AddBulkKeeps
<1>5. CASE \E b \in Bitmaps, v \in Universe : ContainsBulk(b, v)
  BY <1>5, ContainsBulkKeeps
<1>6. CASE \E b \in Bitmaps, v, w \in Universe : AddMany(b, v, w)
  <2>1. PICK b \in Bitmaps, v \in Universe, w \in Universe : AddMany(b, v, w)
    BY <1>6
  <2> DEFINE z == State(b)
             s == roaring_bitmap_add_many(z, <<v, w>>)
             S == members[b] \cup {v, w}
  <2>2. Ok(z, bitmaps[Other(b)]) /\ Filled(z.h, z.ra) /\ Held(z.h, z.ra) = members[b]
    BY <1>1
  <2> HIDE DEF z
  <2>3. Became(z, s, bitmaps[Other(b)], S)
    BY <2>2, AddManyCorrect
  <2> HIDE DEF s
  <2>4. Changed(b, s, S)
    BY <2>1 DEF AddMany, s, z
  <2> HIDE DEF S
  <2>5. Became(State(b), s, bitmaps[Other(b)], S)
    BY <2>3 DEF z
  <2> QED
    BY <2>4, <2>5, ChangedKeeps
<1>7. CASE \E b \in Bitmaps, v, w \in Universe : RemoveMany(b, v, w)
  <2>1. PICK b \in Bitmaps, v \in Universe, w \in Universe : RemoveMany(b, v, w)
    BY <1>7
  <2> DEFINE z == State(b)
             s == roaring_bitmap_remove_many(z, <<v, w>>)
             S == members[b] \ {v, w}
  <2>2. Ok(z, bitmaps[Other(b)]) /\ Filled(z.h, z.ra) /\ Held(z.h, z.ra) = members[b]
    BY <1>1
  <2> HIDE DEF z
  <2>3. Became(z, s, bitmaps[Other(b)], S)
    BY <2>2, RemoveManyCorrect
  <2> HIDE DEF s
  <2>4. Changed(b, s, S)
    BY <2>1 DEF RemoveMany, s, z
  <2> HIDE DEF S
  <2>5. Became(State(b), s, bitmaps[Other(b)], S)
    BY <2>3 DEF z
  <2> QED
    BY <2>4, <2>5, ChangedKeeps
<1>8. CASE Overwrite
  BY <1>8, OverwriteKeeps
<1>9. CASE UNCHANGED vars
  <2>1. heap' = heap /\ bitmaps' = bitmaps /\ contexts' = contexts /\ members' = members /\ cow' = cow
    BY <1>9 DEF vars
  <2>2. TypeOK'
    BY <2>1 DEF IInv, TypeOK
  <2>3. ASSUME NEW b \in Bitmaps PROVE BitmapOk(b)'
    <3>1. BitmapOk(b)
      BY DEF IInv
    <3>2. State(b)' = State(b)
      BY <2>1 DEF State
    <3> QED
      BY <2>1, <3>1, <3>2 DEF BitmapOk
  <2> QED
    BY <2>2, <2>3 DEF IInv
<1>10. [Next]_vars
  OBVIOUS
<1> QED
  BY <1>2, <1>3, <1>4, <1>5, <1>6, <1>7, <1>8, <1>9, <1>10 DEF Next

-----------------------------------------------------------------------------
(* What the invariant means for the properties.                            *)

\* The container of an entry holds low halves.
LEMMA ValuesLow ==
  ASSUME NEW z, NEW o, Ok(z, o), NEW p \in 1..Len(z.ra)
  PROVE  Values(z.h, z.ra[p].ref) \in SUBSET Lows
<1> DEFINE x == z.ra[p].ref
<1>1. Sound(z.h, Refs(z.ra), Refs(o)) /\ z.ra[p].ref \in Refs(z.ra)
  BY OkFacts, EntryFacts
<1>2. x \in Refs(z.ra) \cup Refs(o)
  BY <1>1
<1> HIDE DEF x
<1>3. z.h \in Heaps /\ (IsPlain(z.h, x) \/ IsShared(z.h, x))
  BY <1>1, <1>2, SoundFacts
<1>4. CASE IsPlain(z.h, x)
  <2>1. Values(z.h, x) = Object(z.h, x).set /\ Object(z.h, x).set \in SUBSET Lows
    BY <1>3, <1>4, AliveFacts
  <2> QED
    BY <2>1 DEF x
<1>5. CASE IsShared(z.h, x)
  <2> DEFINE inner == Object(z.h, x).inner
  <2>1. IsPlain(z.h, inner)
    BY <1>1, <1>5, SoundFacts
  <2>2. Values(z.h, x) = Object(z.h, inner).set
    BY <1>3, <1>5, <2>1, ValuesShared
  <2> HIDE DEF inner
  <2>3. Object(z.h, inner).set \in SUBSET Lows
    BY <1>3, <2>1, AliveFacts
  <2> QED
    BY <2>2, <2>3 DEF x
<1> QED
  BY <1>3, <1>4, <1>5

\* The values that are read from the key array are those that are held.
LEMMA ContentsHeld ==
  ASSUME BulkAssumption, IInv, NEW b \in Bitmaps
  PROVE  Contents(b) = Held(heap, bitmaps[b])
<1> DEFINE s == bitmaps[b]
           z == State(b)
           o == bitmaps[Other(b)]
           C(e) == {e.key * ChunkSize + v : v \in Values(heap, e.ref)}
<1>1. s \in Seq(Entries) /\ Ok(z, o) /\ z.h = heap /\ z.ra = s
  BY BitmapFacts
<1> HIDE DEF z, o
<1>2. DOMAIN s = 1..Len(s) /\ ToSet(s) = {s[i] : i \in 1..Len(s)}
  BY <1>1 DEF ToSet
<1>3. Contents(b) = UNION {C(e) : e \in ToSet(s)}
  BY DEF Contents
<1>4. \A i \in 1..Len(s) : Values(heap, s[i].ref) \in SUBSET Lows /\ s[i].key \in 0..(KeyCount - 1)
  BY <1>1, ValuesLow, EntryFacts
<1> HIDE DEF s
<1>5. ASSUME NEW x \in Contents(b) PROVE x \in Held(heap, s)
  <2>1. PICK e \in ToSet(s) : x \in C(e)
    BY <1>3, <1>5
  <2>2. PICK i \in 1..Len(s) : e = s[i]
    BY <1>2
  <2>3. PICK v \in Values(heap, s[i].ref) : x = s[i].key * ChunkSize + v
    BY <2>1, <2>2
  <2> DEFINE key == s[i].key
  <2>4. v \in Lows /\ key \in 0..(KeyCount - 1)
    BY <1>4
  <2> HIDE DEF key
  <2>5. /\ key * ChunkSize + v \in Universe
        /\ High(key * ChunkSize + v) = key /\ Low(key * ChunkSize + v) = v
    BY <2>4, HalvesFacts
  <2>6. x \in Universe /\ High(x) = s[i].key /\ Low(x) = v
    BY <2>3, <2>5 DEF key
  <2> QED
    BY <2>6 DEF Held
<1>6. ASSUME NEW x \in Held(heap, s) PROVE x \in Contents(b)
  <2>1. x \in Universe /\ \E i \in 1..Len(s) : s[i].key = High(x) /\ Low(x) \in Values(heap, s[i].ref)
    BY <1>6 DEF Held
  <2>2. PICK i \in 1..Len(s) : s[i].key = High(x) /\ Low(x) \in Values(heap, s[i].ref)
    BY <2>1
  <2>3. x = High(x) * ChunkSize + Low(x)
    BY <2>1, HalvesFacts
  <2>4. x = s[i].key * ChunkSize + Low(x)
    BY <2>2, <2>3
  <2>5. x \in C(s[i])
    BY <2>2, <2>4
  <2>6. s[i] \in ToSet(s)
    BY <1>2
  <2> QED
    BY <1>3, <2>5, <2>6
<1> QED
  BY <1>5, <1>6 DEF s

\* The entries that hold an object, as NothingDangles counts them.
Slots(arrays) == UNION {{<<b, i>> : i \in DOMAIN arrays[b]} : b \in DOMAIN arrays}
Holders(arrays, ref) == {p \in Slots(arrays) : arrays[p[1]][p[2]].ref = ref}
Wrappers(h, ref) == {x \in DOMAIN h.objs : Object(h, x).type = "shared" /\ Object(h, x).inner = ref}

\* The entries of the two bitmaps.
LEMMA SlotFacts ==
  ASSUME NEW arrays \in [Bitmaps -> Seq(Entries)], NEW p
  PROVE  p \in Slots(arrays) <=> \E b \in Bitmaps : \E i \in 1..Len(arrays[b]) : p = <<b, i>>
<1>1. DOMAIN arrays = Bitmaps /\ \A b \in Bitmaps : DOMAIN arrays[b] = 1..Len(arrays[b])
  <2>1. ASSUME NEW b \in Bitmaps PROVE DOMAIN arrays[b] = 1..Len(arrays[b])
    <3>1. arrays[b] \in Seq(Entries)
      OBVIOUS
    <3> QED
      BY <3>1
  <2> QED
    BY <2>1
<1> QED
  BY <1>1 DEF Slots

\* A bitmap holds an object at most once, so that an object has as many holders as
\* there are bitmaps that hold it.
LEMMA HoldersCount ==
  ASSUME NEW arrays \in [Bitmaps -> Seq(Entries)], NEW ref, NEW c \in Bitmaps, NEW d \in Bitmaps,
         c # d, \A b \in Bitmaps : b = c \/ b = d, Arranged(arrays[c]), Arranged(arrays[d])
  PROVE  LET n == Cardinality(Holders(arrays, ref))
             inC == ref \in Refs(arrays[c])
             inD == ref \in Refs(arrays[d])
         IN  /\ inC /\ inD => n = 2
             /\ (inC \/ inD) /\ ~(inC /\ inD) => n = 1
             /\ ~inC /\ ~inD => n = 0
<1> DEFINE H == Holders(arrays, ref)
           At(b) == {i \in 1..Len(arrays[b]) : arrays[b][i].ref = ref}
<1>1. \A p : p \in H <=> \E b \in Bitmaps : \E i \in At(b) : p = <<b, i>>
  <2>1. SUFFICES ASSUME NEW p PROVE p \in H <=> \E b \in Bitmaps : \E i \in At(b) : p = <<b, i>>
    OBVIOUS
  <2>2. p \in Slots(arrays) <=> \E b \in Bitmaps : \E i \in 1..Len(arrays[b]) : p = <<b, i>>
    BY SlotFacts
  <2>3. p \in H <=> p \in Slots(arrays) /\ arrays[p[1]][p[2]].ref = ref
    BY DEF Holders
  <2> QED
    BY <2>2, <2>3
<1> HIDE DEF H
<1>2. ASSUME NEW b \in Bitmaps, Arranged(arrays[b])
      PROVE  /\ \A i, j \in At(b) : i = j
             /\ At(b) # {} <=> ref \in Refs(arrays[b])
  <2> DEFINE s == arrays[b]
  <2> HIDE DEF s
  <2>1. \A i, j \in 1..Len(s) : s[i].ref = ref /\ s[j].ref = ref => i = j
    BY <1>2, PlacesDiffer DEF s
  <2>2. ref \in Refs(s) <=> \E i \in 1..Len(s) : s[i].ref = ref
    BY DEF Refs
  <2> QED
    BY <2>1, <2>2 DEF s
<1>3. /\ \A i, j \in At(c) : i = j
      /\ \A i, j \in At(d) : i = j
      /\ At(c) # {} <=> ref \in Refs(arrays[c])
      /\ At(d) # {} <=> ref \in Refs(arrays[d])
  BY <1>2
<1> DEFINE A == At(c)
           B == At(d)
<1>4. \A p : p \in H <=> (\E i \in A : p = <<c, i>>) \/ (\E i \in B : p = <<d, i>>)
  BY <1>1
<1> HIDE DEF At, A, B
<1>5. CASE A # {} /\ B # {}
  <2>1. PICK i, j : i \in A /\ j \in B /\ (\A k \in A : k = i) /\ \A k \in B : k = j
    BY <1>3, <1>5 DEF A, B
  <2>2. H = {<<c, i>>} \cup {<<d, j>>}
    BY <1>3, <1>4, <2>1 DEF A, B
  <2>3. IsFiniteSet({<<c, i>>}) /\ Cardinality({<<c, i>>}) = 1
    BY FS_Singleton
  <2>4. <<d, j>> \notin {<<c, i>>}
    OBVIOUS
  <2>5. Cardinality(H) = 1 + 1
    BY <2>2, <2>3, <2>4, FS_AddElement
  <2> QED
    BY <1>3, <1>5, <2>5 DEF A, B, H
<1>6. CASE A # {} /\ B = {}
  <2>1. PICK i \in A : TRUE
    BY <1>6
  <2>2. H = {<<c, i>>}
    BY <1>3, <1>4, <1>6, <2>1 DEF A, B
  <2>3. Cardinality(H) = 1
    BY <2>2, FS_Singleton
  <2> QED
    BY <1>3, <1>6, <2>3 DEF A, B, H
<1>7. CASE A = {} /\ B # {}
  <2>1. PICK i \in B : TRUE
    BY <1>7
  <2>2. H = {<<d, i>>}
    BY <1>3, <1>4, <1>7, <2>1 DEF A, B
  <2>3. Cardinality(H) = 1
    BY <2>2, FS_Singleton
  <2> QED
    BY <1>3, <1>7, <2>3 DEF A, B, H
<1>8. CASE A = {} /\ B = {}
  <2>1. H = {}
    BY <1>4, <1>8
  <2>2. Cardinality(H) = 0
    BY <2>1, FS_EmptySet
  <2> QED
    BY <1>3, <1>8, <2>2 DEF A, B, H
<1> QED
  BY <1>5, <1>6, <1>7, <1>8

\* A container that no entry holds has one shared container, another one has none.
LEMMA WrappersCount ==
  ASSUME NEW h, NEW R, NEW O, Sound(h, R, O), NEW ref, IsPlain(h, ref)
  PROVE  Cardinality(Wrappers(h, ref)) = IF ref \in R \cup O THEN 0 ELSE 1
<1> DEFINE W == Wrappers(h, ref)
<1>1. h \in Heaps /\ InnersDiffer(h)
  BY DEF Sound
<1>2. \A x : x \in W <=> IsShared(h, x) /\ Object(h, x).inner = ref
  <2>1. SUFFICES ASSUME NEW x PROVE x \in W <=> IsShared(h, x) /\ Object(h, x).inner = ref
    OBVIOUS
  <2>2. DOMAIN h.objs = Indices(h)
    BY <1>1, HeapFacts
  <2>3. x \in Indices(h) => (Object(h, x).type = "shared" <=> IsShared(h, x))
    <3>1. x \in Indices(h) => Object(h, x) \in Objects
      BY <1>1, HeapFacts
    <3> QED
      BY <3>1, ObjectFacts DEF IsShared
  <2>4. IsShared(h, x) => x \in Indices(h)
    BY DEF IsShared
  <2> QED
    BY <2>2, <2>3, <2>4 DEF Wrappers
<1> HIDE DEF W
<1>3. CASE ref \in R \cup O
  <2>1. W = {}
    <3>1. ASSUME NEW x \in W PROVE FALSE
      <4>1. IsShared(h, x) /\ Object(h, x).inner = ref
        BY <1>2, <3>1
      <4>2. Object(h, x).inner \notin R \cup O
        BY <4>1, SoundFacts
      <4> QED
        BY <1>3, <4>1, <4>2
    <3> QED
      BY <3>1
  <2>2. Cardinality(W) = 0
    BY <2>1, FS_EmptySet
  <2> QED
    BY <1>3, <2>2 DEF W
<1>4. CASE ref \notin R \cup O
  <2>1. PICK y \in Indices(h) : IsShared(h, y) /\ Object(h, y).inner = ref
    BY <1>4, SoundFacts
  <2>2. \A x \in W : x = y
    <3>1. SUFFICES ASSUME NEW x \in W PROVE x = y
      OBVIOUS
    <3>2. IsShared(h, x) /\ Object(h, x).inner = ref
      BY <1>2
    <3>3. x \in Indices(h)
      BY <3>2 DEF IsShared
    <3> QED
      BY <1>1, <2>1, <3>2, <3>3 DEF InnersDiffer
  <2>3. W = {y}
    BY <1>2, <2>1, <2>2
  <2>4. Cardinality(W) = 1
    BY <2>3, FS_Singleton
  <2> QED
    BY <1>4, <2>4 DEF W
<1> QED
  BY <1>3, <1>4

\* The two bitmaps and what the invariant says of them together.
LEMMA BothFacts ==
  ASSUME IInv
  PROVE  LET c == "a"
             d == "b"
         IN  /\ c \in Bitmaps /\ d \in Bitmaps /\ c # d /\ \A b \in Bitmaps : b = c \/ b = d
             /\ bitmaps \in [Bitmaps -> Seq(Entries)] /\ heap \in Heaps
             /\ Arranged(bitmaps[c]) /\ Arranged(bitmaps[d])
             /\ Sound(heap, Refs(bitmaps[c]), Refs(bitmaps[d]))
<1> DEFINE c == "a"
           d == "b"
<1>1. c \in Bitmaps /\ d \in Bitmaps /\ c # d /\ Other(c) = d /\ \A b \in Bitmaps : b = c \/ b = d
  BY DEF Bitmaps, Other
<1> HIDE DEF c, d
<1>2. Ok(State(c), bitmaps[d]) /\ State(c).h = heap /\ State(c).ra = bitmaps[c] /\ TypeOK
  BY <1>1, BitmapFacts
<1>3. /\ heap \in Heaps /\ Arranged(bitmaps[c]) /\ Arranged(bitmaps[d])
      /\ Sound(heap, Refs(bitmaps[c]), Refs(bitmaps[d]))
  BY <1>2, OkFacts
<1> QED
  BY <1>1, <1>2, <1>3 DEF TypeOK, c, d

\* Nothing dangles.
LEMMA InvOwned ==
  ASSUME IInv
  PROVE  NothingDangles
<1> DEFINE c == "a"
           d == "b"
           R == Refs(bitmaps[c])
           O == Refs(bitmaps[d])
<1>1. /\ c \in Bitmaps /\ d \in Bitmaps /\ c # d /\ \A b \in Bitmaps : b = c \/ b = d
      /\ bitmaps \in [Bitmaps -> Seq(Entries)] /\ heap \in Heaps
      /\ Arranged(bitmaps[c]) /\ Arranged(bitmaps[d]) /\ Sound(heap, R, O)
  BY BothFacts
<1> HIDE DEF c, d
<1>2. ~heap.touched /\ DOMAIN heap.objs = Indices(heap)
  BY <1>1, HeapFacts
<1>3. ASSUME NEW p \in Slots(bitmaps) PROVE Alive(heap, bitmaps[p[1]][p[2]].ref)
  <2>1. PICK b \in Bitmaps : \E i \in 1..Len(bitmaps[b]) : p = <<b, i>>
    BY <1>1, SlotFacts
  <2>2. PICK i \in 1..Len(bitmaps[b]) : p = <<b, i>>
    BY <2>1
  <2> DEFINE ref == bitmaps[b][i].ref
  <2>3. ref \in Refs(bitmaps[b])
    BY DEF Refs
  <2> HIDE DEF ref
  <2>4. ref \in R \cup O
    BY <1>1, <2>3
  <2> HIDE DEF R, O
  <2>5. IsPlain(heap, ref) \/ IsShared(heap, ref)
    BY <1>1, <2>4, SoundFacts
  <2>6. Alive(heap, ref)
    BY <1>1, <2>5, AliveFacts
  <2> QED
    BY <2>2, <2>6 DEF ref
<1>4. ASSUME NEW ref \in Indices(heap), Alive(heap, ref)
      PROVE  IF Object(heap, ref).type = "shared"
             THEN Object(heap, ref).counter = Cardinality(Holders(bitmaps, ref))
             ELSE Cardinality(Holders(bitmaps, ref)) + Cardinality(Wrappers(heap, ref)) = 1
  <2> DEFINE n == Cardinality(Holders(bitmaps, ref))
             w == Cardinality(Wrappers(heap, ref))
  <2>1. /\ ref \in R /\ ref \in O => n = 2
        /\ (ref \in R \/ ref \in O) /\ ~(ref \in R /\ ref \in O) => n = 1
        /\ ref \notin R /\ ref \notin O => n = 0
    BY <1>1, HoldersCount
  <2> HIDE DEF n, w, R, O
  <2>2. IsPlain(heap, ref) \/ IsShared(heap, ref)
    BY <1>1, <1>4, AliveFacts
  <2>3. CASE IsShared(heap, ref)
    <3>1. Object(heap, ref).type = "shared"
      BY <1>1, <2>3, AliveFacts
    <3>2. /\ ref \in R \cup O
          /\ ref \in R /\ ref \in O => Object(heap, ref).counter = 2
          /\ ref \notin R \/ ref \notin O => Object(heap, ref).counter = 1
      BY <1>1, <2>3, SoundFacts
    <3>3. Object(heap, ref).counter = n
      BY <2>1, <3>2
    <3> QED
      BY <3>1, <3>3 DEF n
  <2>4. CASE IsPlain(heap, ref)
    <3>1. Object(heap, ref).type # "shared"
      BY <1>1, <2>4, AliveFacts
    <3>2. w = IF ref \in R \cup O THEN 0 ELSE 1
      BY <1>1, <2>4, WrappersCount DEF w
    <3>3. ref \notin R \/ ref \notin O
      BY <1>1, <2>4, SoundFacts
    <3>4. n + w = 1
      BY <2>1, <3>2, <3>3
    <3> QED
      BY <3>1, <3>4 DEF n, w
  <2> QED
    BY <2>2, <2>3, <2>4
<1>5. Owned(heap, bitmaps)
  BY <1>2, <1>3, <1>4 DEF Owned, Slots, Holders, Wrappers
<1> QED
  BY <1>5 DEF NothingDangles

\* The contents.
LEMMA InvHolds ==
  ASSUME BulkAssumption, IInv
  PROVE  HoldsMembers
<1>1. ASSUME NEW b \in Bitmaps
      PROVE  /\ Contents(b) = members[b]
             /\ \A e \in ToSet(bitmaps[b]) : Values(heap, e.ref) # {}
  <2>1. Contents(b) = members[b]
    BY ContentsHeld, BitmapFacts
  <2>2. bitmaps[b] \in Seq(Entries) /\ Filled(heap, bitmaps[b])
    BY BitmapFacts
  <2>3. \A e \in ToSet(bitmaps[b]) : \E i \in 1..Len(bitmaps[b]) : e = bitmaps[b][i]
    BY <2>2 DEF ToSet
  <2> QED
    BY <2>1, <2>2, <2>3 DEF Filled
<1> QED
  BY <1>1 DEF HoldsMembers

\* The contexts.
LEMMA InvCurrent ==
  ASSUME IInv
  PROVE  ContextCurrent
<1>1. ASSUME NEW b \in Bitmaps, contexts[b].container # NullRef
      PROVE  /\ contexts[b].idx < Len(bitmaps[b])
             /\ bitmaps[b][contexts[b].idx + 1]
                  = Entry(contexts[b].key, contexts[b].container, contexts[b].typecode)
  <2>1. contexts[b] \in Contexts /\ Fits(contexts[b], bitmaps[b]) /\ bitmaps[b] \in Seq(Entries)
    BY BitmapFacts DEF ContextOk
  <2>2. contexts[b].idx \in Nat /\ Len(bitmaps[b]) \in Nat
    BY <2>1 DEF Contexts
  <2>3. contexts[b].idx + 1 \in 1..Len(bitmaps[b])
    BY <1>1, <2>1 DEF Fits
  <2>4. contexts[b].idx < Len(bitmaps[b])
    BY <2>2, <2>3
  <2> QED
    BY <1>1, <2>1, <2>4 DEF Fits
<1> QED
  BY <1>1 DEF ContextCurrent

\* The searches.
LEMMA InvSearches ==
  ASSUME BulkAssumption, ContextRules, IInv
  PROVE  BulkSearchAgrees
<1> DEFINE use == "search"
<1>1. use \in {"add", "search"}
  OBVIOUS
<1> HIDE DEF use
<1>2. ASSUME NEW b \in Bitmaps, NEW v \in Universe
      PROVE  roaring_bitmap_contains_bulk(State(b), Context(b, use), v).found = (v \in members[b])
  <2> DEFINE z == State(b)
             o == bitmaps[Other(b)]
             c == Context(b, use)
  <2>1. Ok(z, o) /\ z.ra = bitmaps[b] /\ Held(z.h, z.ra) = members[b]
    <3>1. State(b).h = heap /\ State(b).ra = bitmaps[b]
      BY BitmapFacts
    <3> QED
      BY <3>1, BitmapFacts
  <2> HIDE DEF z
  <2>2. c \in Contexts /\ Fits(c, z.ra)
    BY <1>1, <2>1, ContextFits
  <2> HIDE DEF c, o
  <2>3. roaring_bitmap_contains_bulk(z, c, v).found = (v \in Held(z.h, z.ra))
    BY <2>1, <2>2, SearchBulkCorrect
  <2> QED
    BY <2>1, <2>3 DEF z, c
<1> QED
  BY <1>2 DEF BulkSearchAgrees, use
-----------------------------------------------------------------------------
(* The theorems.                                                           *)

\* The invariant holds when a context that was used to search a bitmap with shared
\* containers is not used to add, and none is kept over a copy of its bitmap.
LEMMA InvHoldsAlways ==
  ASSUME BulkAssumption, ContextRules
  PROVE  Spec => []IInv
<1>1. Init => IInv
  BY InitInv
<1>2. IInv /\ [Next]_vars => IInv'
  BY NextKeeps
<1> QED
  BY <1>1, <1>2, PTL DEF Spec

\* Each of two bitmaps that share containers holds what the calls on it have put there,
\* whatever the calls on the other one did, and no container is empty (add_bulk_impl,
\* roaring_bitmap_add_many, roaring_bitmap_remove_many, ra_overwrite).
THEOREM SharedBitmapsHoldMembers ==
  ASSUME BulkAssumption, ContextRules
  PROVE  Spec => []HoldsMembers
<1>1. IInv => HoldsMembers
  BY InvHolds
<1> QED
  BY <1>1, InvHoldsAlways, PTL

\* No call uses a container after it was freed, nothing leaks, and the counter of a
\* shared container is the number of its entries (get_writable_copy_if_shared,
\* shared_container_extract_copy, shared_container_free, get_copy_of_container).
THEOREM SharedBitmapsOwnContainers ==
  ASSUME BulkAssumption, ContextRules
  PROVE  Spec => []NothingDangles
<1>1. IInv => NothingDangles
  BY InvOwned
<1> QED
  BY <1>1, InvHoldsAlways, PTL

\* A context that is still valid is that of the entry at its index, although the bulk
\* calls insert entries, unshare their containers and put others in their place
\* (roaring_bulk_context_t, add_bulk_impl, roaring_bitmap_contains_bulk).
THEOREM ContextsStayCurrent ==
  ASSUME BulkAssumption, ContextRules
  PROVE  Spec => []ContextCurrent
<1>1. IInv => ContextCurrent
  BY InvCurrent
<1> QED
  BY <1>1, InvHoldsAlways, PTL

\* A search that goes on from the container of the last one finds what a new search
\* would find (roaring_bitmap_contains_bulk).
THEOREM BulkSearchesCorrect ==
  ASSUME BulkAssumption, ContextRules
  PROVE  Spec => []BulkSearchAgrees
<1>1. IInv => BulkSearchAgrees
  BY InvSearches
<1> QED
  BY <1>1, InvHoldsAlways, PTL
=============================================================================
