--------------------------- MODULE ContainerHeap ---------------------------
(***************************************************************************)
(* Containers as objects on a heap, and the shared containers that count   *)
(* their references (containers.c).  An object that was freed stays freed, *)
(* so that a pointer that outlives its object is seen, and whoever uses    *)
(* one is recorded.  The entries of a key array point at these objects; a  *)
(* typecode travels beside every pointer.                                  *)
(***************************************************************************)
EXTENDS Integers, SequencesExt, FiniteSetsExt

\* A heap is [objs, touched]: the objects, and whether a freed one was used.
EmptyHeap == [objs |-> <<>>, touched |-> FALSE]
NullRef == 0
Freed == [type |-> "freed"]
Shared(inner, typecode, counter) ==
  [type |-> "shared", inner |-> inner, typecode |-> typecode, counter |-> counter]

Object(h, ref) == h.objs[ref]
Alive(h, ref) == ref # NullRef /\ Object(h, ref) # Freed
Touch(h, ref) == IF Alive(h, ref) THEN h ELSE [h EXCEPT !.touched = TRUE]
New(h, obj) == [h |-> [h EXCEPT !.objs = Append(@, obj)], ref |-> Len(h.objs) + 1]
Write(h, ref, obj) == IF Alive(h, ref) THEN [h EXCEPT !.objs[ref] = obj] ELSE Touch(h, ref)

Handle(h, ref, type) == [h |-> h, ref |-> ref, type |-> type]

shared_container_free(h, ref) ==
  LET sc == Object(h, ref)
  IN  IF sc.counter > 1 THEN Write(h, ref, [sc EXCEPT !.counter = @ - 1])
      ELSE Write(Write(h, sc.inner, Freed), ref, Freed)

container_free(h, ref, type) ==
  IF ~Alive(h, ref) THEN Touch(h, ref)
  ELSE IF type = "shared" THEN shared_container_free(h, ref)
  ELSE Write(h, ref, Freed)

shared_container_extract_copy(h, ref) ==
  LET sc == Object(h, ref)
      copy == New(h, Object(h, sc.inner))
  IN  IF sc.counter = 1 THEN Handle(Write(h, ref, Freed), sc.inner, sc.typecode)
      ELSE Handle(shared_container_free(copy.h, ref), copy.ref, sc.typecode)

get_writable_copy_if_shared(h, ref, type) ==
  IF type # "shared" THEN Handle(h, ref, type)
  ELSE IF ~Alive(h, ref) THEN Handle(Touch(h, ref), ref, "array")
  ELSE shared_container_extract_copy(h, ref)

get_copy_of_container(h, ref, type, copy_on_write) ==
  LET sc == Object(h, ref)
      inner == IF type = "shared" THEN sc.inner ELSE ref
      made == New(h, IF copy_on_write THEN Shared(ref, type, 2) ELSE Object(h, inner))
  IN  IF copy_on_write /\ type = "shared"
      THEN Handle(Write(h, ref, [sc EXCEPT !.counter = @ + 1]), ref, type)
      ELSE Handle(made.h, made.ref, made.h.objs[made.ref].type)
-----------------------------------------------------------------------------
(* The key array.                                                          *)

Entry(key, ref, type) == [key |-> key, ref |-> ref, type |-> type]

ra_get_index(ra, key) ==
  LET less == Cardinality({ i \in DOMAIN ra : ra[i].key < key })
  IN  IF less < Len(ra) /\ ra[less + 1].key = key THEN less ELSE -less - 1

\* The first index after pos with a key of at least key.
ra_advance_until(ra, key, pos) ==
  LET found == { i \in pos + 1 .. Len(ra) - 1 : ra[i + 1].key >= key }
  IN  IF found = {} THEN Len(ra) ELSE Min(found)

\* No freed object was used or is pointed at, and each object that is alive is
\* owned: by one entry, or by a shared container whose counter is the number of
\* its entries.  arrays are all key arrays there are.
Owned(h, arrays) ==
  LET slots == UNION { { <<b, i>> : i \in DOMAIN arrays[b] } : b \in DOMAIN arrays }
      holders(ref) == { p \in slots : arrays[p[1]][p[2]].ref = ref }
      wrappers(ref) == { x \in DOMAIN h.objs : /\ Object(h, x).type = "shared"
                                               /\ Object(h, x).inner = ref }
  IN  /\ ~h.touched
      /\ \A p \in slots : Alive(h, arrays[p[1]][p[2]].ref)
      /\ \A ref \in DOMAIN h.objs :
           LET obj == Object(h, ref)
           IN  Alive(h, ref) =>
                 IF obj.type = "shared" THEN obj.counter = Cardinality(holders(ref))
                 ELSE Cardinality(holders(ref)) + Cardinality(wrappers(ref)) = 1
=============================================================================
