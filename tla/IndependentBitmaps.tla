------------------------- MODULE IndependentBitmaps -------------------------
(***************************************************************************)
(* What copy-on-write promises to the users of CRoaring bitmaps: however   *)
(* containers are shared behind the scenes, every bitmap behaves as a      *)
(* value of its own.  An operation is applied by the thread that owns its  *)
(* operands, in one step, and changes its destination bitmap only.         *)
(*                                                                         *)
(* The content of a bitmap is restricted to one chunk (one key): a set of  *)
(* elements, {} when the bitmap has no container for the key.              *)
(***************************************************************************)
CONSTANTS Threads, Bitmaps, Elements

VARIABLES value,    \* value[b]: the content of bitmap b
          owner     \* owner[b]: the only thread that may use bitmap b

Kinds == {"add", "remove", "optimize", "or", "andnot", "copy", "clear", "read",
          "shrink"}

\* arg is the set of elements to add or remove, {} for the other kinds; an
\* operation with a single operand has src = dst.
Operations ==
  [kind : Kinds, dst : Bitmaps, src : Bitmaps, arg : SUBSET Elements]

\* The content of the destination once operation o has been applied.
Apply(o, dst, src) ==
  CASE o.kind = "add"    -> dst \cup o.arg
    [] o.kind = "remove" -> dst \ o.arg
    [] o.kind = "or"     -> dst \cup src
    [] o.kind = "andnot" -> dst \ src
    [] o.kind = "copy"   -> src
    [] o.kind = "clear"  -> {}
    [] OTHER             -> dst

Init == /\ value = [b \in Bitmaps |-> {}]
        /\ owner \in [Bitmaps -> Threads]

Operate(t, o) ==
  /\ owner[o.dst] = t
  /\ owner[o.src] = t
  /\ value' = [value EXCEPT ![o.dst] = Apply(o, @, value[o.src])]
  /\ UNCHANGED owner

\* A bitmap is handed to another thread, which becomes its only user.
HandOver(b, t) == /\ owner' = [owner EXCEPT ![b] = t]
                  /\ UNCHANGED value

Next == \/ \E t \in Threads, o \in Operations : Operate(t, o)
        \/ \E b \in Bitmaps, t \in Threads : HandOver(b, t)

Spec == Init /\ [][Next]_<<value, owner>>
=============================================================================
