------------------------------- MODULE Maps64 -------------------------------
(***************************************************************************)
(* Two Roaring64Maps under any sequence of calls: `a' is the one changed,  *)
(* `b' the other argument, and swap and assignment carry one to the other. *)
(***************************************************************************)
EXTENDS Roaring64Map

CONSTANTS
  Programs,       \* what the callers do: "plain" ones make no use of sharing,
                  \* "cow" ones turn copy-on-write on and off, on both maps, and
                  \* "foreign" ones read files, with empty bitmaps, of other writers
  CallerSetsFlag  \* a caller sets the flag on results that come back without it

ASSUME Maps64Assumption ==
  Programs \subseteq {"plain", "cow", "foreign"} /\ CallerSetsFlag \in BOOLEAN

VARIABLES
  program,  \* which of them the caller is
  a, b,     \* the two maps
  va, vb    \* the values they are to hold

vars == <<program, a, b, va, vb>>

Init ==
  /\ program \in Programs
  /\ a = Empty /\ va = {}
  /\ b = Empty /\ vb = {}

Becomes(m, values) ==
  /\ a' = m
  /\ va' = values
  /\ UNCHANGED <<program, b, vb>>

\* A map made by read or fastunion has the flag off.
Flagged(m) == IF CallerSetsFlag THEN setCopyOnWrite(m, b.copyOnWrite) ELSE m

Add(x) == Becomes(add(a, x), va \cup {x})
AddMany(x, y) == Becomes(addMany(a, <<x, y, x>>), va \cup {x, y})
RemoveValue(x) == Becomes(remove(a, x), va \ {x})
RemoveChecked(x) == Becomes(removeChecked(a, x), va \ {x})
AddRange(min, max) == Becomes(addRangeClosed(a, min, max), va \cup (min..max))
RemoveRange(min, max) == Becomes(removeRangeClosed(a, min, max), va \ (min..max))
Flip(min, max) == Becomes(flipClosed(a, min, max), SymDiff(va, min..max))
AddRange32(min, max) == Becomes(addRangeClosed32(a, min, max), va \cup (min..max))
RemoveRange32(min, max) == Becomes(removeRangeClosed32(a, min, max), va \ (min..max))
Flip32(min, max) == Becomes(flipClosed32(a, min, max), SymDiff(va, min..max))
And == Becomes(operator_and(a, b, FALSE), va \cap vb)
Minus == Becomes(operator_minus(a, b, FALSE), va \ vb)
Or == Becomes(operator_or(a, b, FALSE), va \cup vb)
Xor == Becomes(operator_xor(a, b, FALSE), SymDiff(va, vb))
AndItself == Becomes(operator_and(a, a, TRUE), va)
MinusItself == Becomes(operator_minus(a, a, TRUE), {})
OrItself == Becomes(operator_or(a, a, TRUE), va)
XorItself == Becomes(operator_xor(a, a, TRUE), {})
FastUnion == \E inputs \in {<<a>>, <<a, b>>, <<b, a, a>>} :
  Becomes(Flagged(fastunion(inputs)), UNION {Members(inputs[i]) : i \in DOMAIN inputs})
Clear == Becomes(Without(a, Keys(a)), {})
ShrinkToFit == Becomes(shrinkToFit(a), va)
Assign == Becomes(b, vb)

\* swap exchanges the std::maps, the flags stay.
Swap ==
  /\ a' = [a EXCEPT !.roarings = b.roarings]
  /\ b' = [b EXCEPT !.roarings = a.roarings]
  /\ va' = vb /\ vb' = va
  /\ UNCHANGED program

SetCopyOnWrite(val) ==
  /\ program = "cow"
  /\ a' = setCopyOnWrite(a, val)
  /\ b' = setCopyOnWrite(b, val)
  /\ UNCHANGED <<program, va, vb>>

Read == Becomes(Flagged(readSafe(write(a), getSizeInBytes(a)).map), va)

\* A file whose writer kept an empty bitmap for a key.
ReadForeign(k) ==
  /\ program = "foreign"
  /\ k \notin Keys(a)
  /\ Becomes(Flagged(Put(readSafe(write(a), getSizeInBytes(a)).map, k, [vals |-> {}, cow |-> FALSE])), va)

Next ==
  \/ \E x \in Values : Add(x) \/ RemoveValue(x) \/ RemoveChecked(x)
  \/ \E x, y \in Values : AddMany(x, y)
  \/ \E min, max \in Values : AddRange(min, max) \/ RemoveRange(min, max) \/ Flip(min, max)
  \/ \E min, max \in 0..uint32_max :
       AddRange32(min, max) \/ RemoveRange32(min, max) \/ Flip32(min, max)
  \/ And \/ Minus \/ Or \/ Xor
  \/ AndItself \/ MinusItself \/ OrItself \/ XorItself
  \/ FastUnion \/ Clear \/ ShrinkToFit \/ Assign \/ Swap \/ Read
  \/ \E val \in BOOLEAN : SetCopyOnWrite(val)
  \/ \E k \in 0..(Highs - 1) : ReadForeign(k)

Spec == Init /\ [][Next]_vars

-----------------------------------------------------------------------------
(* Properties.                                                             *)

\* Maps keep well-formed keys, values and flags.
TypeOK ==
  \A m \in {a, b} :
    /\ Keys(m) \subseteq 0..(Highs - 1)
    /\ \A k \in Keys(m) : m.roarings[k] \in [vals : SUBSET (0..uint32_max), cow : BOOLEAN]
    /\ m.copyOnWrite \in BOOLEAN

\* After any calls both maps hold exactly the values the calls document,
\* whatever keys the ranges cross and whatever empty bitmaps are left.
HoldsMembers == TypeOK /\ Members(a) = va /\ Members(b) = vb

\* Only the calls with 32-bit arguments leave an empty inner bitmap, at key
\* 0: every other one erases what it empties (eraseIfEmpty).
EmptyOnlyAtZero ==
  program # "foreign" => \A m \in {a, b} : \A k \in Keys(m) : Vals(m, k) = {} => k = 0

\* When the caller gives both maps the same flag, every inner bitmap has the
\* flag of its map (setCopyOnWrite, lookupOrCreateInner, insertions): a
\* getCopyOnWrite() of the map speaks for all of it.
FlagsFollow == \A m \in {a, b} : \A k \in Keys(m) : m.roarings[k].cow = m.copyOnWrite

\* What the map keeps about its inner bitmaps is true of each of them: none is
\* empty where eraseIfEmpty should have erased it, and all have the map's flag,
\* also those that a range or a set operation created or took from the other map
\* (ensureRangePopulated, setCopyOnWrite, eraseIfEmpty).
InnersConsistent == EmptyOnlyAtZero /\ FlagsFollow

\* The queries on one map answer for its values; cardinality() throws on
\* the full map only.
SingleQueriesAgree ==
  /\ cardinality(a) = IF va = Values THEN Throws ELSE Cardinality(va)
  /\ isEmpty(a) <=> va = {}
  /\ isFull(a) <=> va = Values
  /\ minimum(a) = IF va = {} THEN Max(Values) ELSE Min(va)
  /\ maximum(a) = IF va = {} THEN 0 ELSE Max(va)
  /\ \A x \in Values :
       /\ contains(a, x) <=> x \in va
       /\ rank(a, x) = Cardinality({v \in va : v <= x})
       /\ getIndex(a, x) = IF x \in va THEN Cardinality({v \in va : v < x}) ELSE -1
       /\ select(a, x) = IF x < Cardinality(va) THEN Ordered(va)[x + 1] ELSE Throws
       /\ iterate(a, x) = Ordered({v \in va : x \in va => v <= x})
  /\ \A min, max \in Values : containsRangeClosed(a, min, max) <=> (min..max) \subseteq va
  /\ \A min, max \in 0..uint32_max : containsRangeClosed32(a, min, max) <=> (min..max) \subseteq va

\* The queries on two maps are those on the sets of values: equality does
\* not see empty bitmaps, and the counts throw on 2^64 only.  isStrictSubset
\* counts both maps when the first is a subset, so that it throws for every
\* subset of a full map, which is then the second one.
PairQueriesAgree ==
  LET Count(S) == IF S = Values THEN Throws ELSE Cardinality(S)
  IN  /\ operator_eq(a, b) <=> va = vb
      /\ isSubset(a, b) <=> va \subseteq vb
      /\ isStrictSubset(a, b) = IF vb = Values THEN "throws"
                                ELSE IF va \subseteq vb /\ va # vb THEN "true" ELSE "false"
      /\ intersect(a, b) <=> va \cap vb # {}
      /\ and_cardinality(a, b) = Count(va \cap vb)
      /\ or_cardinality(a, b) = Count(va \cup vb)
      /\ xor_cardinality(a, b) = Count(SymDiff(va, vb))
      /\ andnot_cardinality(a, b) = Count(va \ vb)

At(v) == [at |-> highBytes(v), cur |-> lowBytes(v)]
FirstOf(S) == IF S = {} THEN AtEnd ELSE At(Min(S))

\* move_equalorlarger finds the first value not below x, and says whether
\* there is one.
MoveFindsNext ==
  \A x \in Values :
    LET r == move_equalorlarger(a, x)
        later == {v \in va : v >= x}
    IN  /\ r.found <=> later # {}
        /\ r.found => r.it = At(Min(later))

\* An iterator goes through the values in order, forwards from begin() and
\* backwards from end(), over the borders of inner bitmaps and the empty ones
\* between them, and its comparisons order positions as the values.  The postfix
\* step back from end() and the seek do not skip empty bitmaps: these two are for
\* maps that this library made.
WalksAgree ==
  /\ begin(a) = FirstOf(va)
  /\ \A v \in va : operator_next(a, At(v)) = FirstOf({w \in va : w > v})
  /\ va # {} => operator_prev(a, AtEnd) = At(Max(va))
  /\ \A v \in va : v # Min(va) => operator_prev(a, At(v)) = At(Max({w \in va : w < v}))
  /\ \A v, w \in va :
       /\ iter_less(At(v), At(w)) <=> v < w
       /\ iter_leq(At(v), At(w)) <=> v <= w
       /\ iter_eq(At(v), At(w), 0) <=> v = w
       /\ ~iter_eq(At(v), AtEnd, 0)
  /\ program # "foreign" =>
       /\ va # {} => operator_prev_post(a, AtEnd) = At(Max(va))
       /\ MoveFindsNext

\* Every query answers for the values alone, whatever bitmaps they are spread
\* over: counts, ends, ranks and ranges, comparisons of two maps, and iterators in
\* both directions (minimum, rank, containsRangeClosed, isSubset,
\* move_equalorlarger).
QueriesAgree == SingleQueriesAgree /\ PairQueriesAgree /\ WalksAgree

\* The frozen format fills exactly the bytes it asks for, every bitmap in
\* it is aligned, and the view finds them all.
FrozenAgrees ==
  LET file == writeFrozen(a)
      view == frozenView(file)
  IN  /\ file.end = getFrozenSizeInBytes(a)
      /\ \A n \in DOMAIN file.starts : file.starts[n] % 32 = 0
      /\ view.ok /\ Members(view.map) = va

\* A file is as long as announced and gives the same map back; a file that
\* lost bytes at its end is rejected by readSafe.  The frozen format does the same
\* for whole files (write, readSafe, writeFrozen, frozenView).
TornRejected ==
  /\ FrozenAgrees
  /\ LET size == getSizeInBytes(a)
         file == write(a)
     IN  \A n \in 0..(size + 1) :
           LET r == readSafe(file, n)
           IN  /\ r.ok <=> n >= size
               /\ r.ok => Members(r.map) = va /\ Keys(r.map) = Keys(a)
=============================================================================
