---------------------------- MODULE Roaring64Map ----------------------------
(***************************************************************************)
(* Roaring64Map of src/cpp/roaring/roaring64map.hh: a std::map from the    *)
(* high half of a value to a 32-bit Roaring of the low halves.  An inner   *)
(* Roaring is the set of its values and its copy-on-write flag: what the   *)
(* 32-bit bitmap does with them is the subject of other modules.  The map  *)
(* may hold inner bitmaps that are empty, and every loop over it has to    *)
(* decide what to do with them.                                            *)
(*                                                                         *)
(* Highs and Lows stand for the 2^32 values of a half.  An iterator into   *)
(* the std::map is a key, or Highs for end().                              *)
(***************************************************************************)
EXTENDS Integers, FiniteSets, Sequences, SequencesExt, FiniteSetsExt

CONSTANTS Highs, Lows

ASSUME HalvesAssumption == Highs \in Nat \ {0} /\ Lows \in Nat \ {0}

End == Highs
uint32_max == Lows - 1
Values == 0..(Highs * Lows - 1)
Throws == -1                     \* std::length_error instead of a result

highBytes(x) == x \div Lows
lowBytes(x) == x % Lows
uniteBytes(high, low) == high * Lows + low

Empty == [roarings |-> [k \in {} |-> {}], copyOnWrite |-> FALSE]
Keys(m) == DOMAIN m.roarings
Vals(m, k) == m.roarings[k].vals

\* The values of a map: the reference every operation is held against.
Members(m) == UNION {{uniteBytes(k, v) : v \in Vals(m, k)} : k \in Keys(m)}

-----------------------------------------------------------------------------
(* The std::map: insertion, erasure, search.                               *)

Put(m, k, inner) ==
  [m EXCEPT !.roarings = [x \in DOMAIN @ \cup {k} |-> IF x = k THEN inner ELSE @[x]]]

Without(m, K) == [m EXCEPT !.roarings = [x \in DOMAIN @ \ K |-> @[x]]]

SetVals(m, k, vals) == [m EXCEPT !.roarings[k].vals = vals]

lower_bound(m, k) == Min({x \in Keys(m) : x >= k} \cup {End})
NextKey(m, k) == lower_bound(m, k + 1)

eraseIfEmpty(m, k) == IF Vals(m, k) = {} THEN Without(m, {k}) ELSE m

lookupOrCreateInner(m, k) ==
  Put(m, k, [vals |-> IF k \in Keys(m) THEN Vals(m, k) ELSE {}, cow |-> m.copyOnWrite])

\* Mutant: an inner bitmap made here does not get the flag.
ensureRangePopulated_NoFlag(m, start_high, end_high) ==
  [m EXCEPT !.roarings = [k \in DOMAIN @ \cup (start_high..end_high) |->
     IF k \in DOMAIN @ THEN @[k] ELSE [vals |-> {}, cow |-> FALSE]]]

ensureRangePopulated(m, start_high, end_high) ==
  [m EXCEPT !.roarings = [k \in DOMAIN @ \cup (start_high..end_high) |->
     IF k \in DOMAIN @ THEN @[k] ELSE [vals |-> {}, cow |-> m.copyOnWrite]]]

-----------------------------------------------------------------------------
(* Points and ranges.  The overloads for 32-bit arguments (...32) work on  *)
(* the inner bitmap of key 0.                                              *)

KeyRange(lo, hi) == [n \in 1..(hi - lo + 1) |-> lo + n - 1]

add(m, x) ==
  LET r == lookupOrCreateInner(m, highBytes(x))
  IN  SetVals(r, highBytes(x), Vals(r, highBytes(x)) \cup {lowBytes(x)})

\* The inner bitmap and its bulk context are kept while the key stays.
addMany(m, vals) == FoldLeft(add, m, vals)

addRangeClosed32(m, min, max) ==
  LET r == lookupOrCreateInner(m, 0) IN SetVals(r, 0, Vals(r, 0) \cup (min..max))

\* The intermediate bitmaps are copies of the first one, flag included.
addRangeClosed(m, min, max) ==
  LET start_high == highBytes(min)
      end_high == highBytes(max)
      r == ensureRangePopulated(m, start_high, end_high)
      first == start_high + 1
      Filled(k) ==
        IF k = start_high
        THEN [r.roarings[k] EXCEPT !.vals = @ \cup (lowBytes(min)..uint32_max)]
        ELSE IF k = end_high THEN [r.roarings[k] EXCEPT !.vals = @ \cup (0..lowBytes(max))]
        ELSE [r.roarings[first] EXCEPT !.vals = 0..uint32_max]
  IN  IF min > max THEN m
      ELSE IF start_high = end_high
      THEN SetVals(r, start_high, Vals(r, start_high) \cup (lowBytes(min)..lowBytes(max)))
      ELSE [r EXCEPT !.roarings = [k \in DOMAIN @ |->
              IF k \in start_high..end_high THEN Filled(k) ELSE @[k]]]

remove(m, x) ==
  LET k == highBytes(x)
  IN  IF k \notin Keys(m) THEN m
      ELSE eraseIfEmpty(SetVals(m, k, Vals(m, k) \ {lowBytes(x)}), k)

\* A value that was not there leaves the map alone, an empty inner included.
removeChecked(m, x) ==
  IF highBytes(x) \in Keys(m) /\ lowBytes(x) \in Vals(m, highBytes(x)) THEN remove(m, x) ELSE m

removeRangeClosed32(m, min, max) ==
  IF 0 \notin Keys(m) THEN m
  ELSE eraseIfEmpty(SetVals(m, 0, Vals(m, 0) \ (min..max)), 0)

\* Mutant: the erasure in the middle also takes the last bitmap.
removeRangeClosed_TakesEnd(m, min, max) ==
  LET start_high == highBytes(min)
      first == SetVals(m, start_high, Vals(m, start_high) \ (lowBytes(min)..uint32_max))
      partial == IF start_high \in Keys(m) THEN eraseIfEmpty(first, start_high) ELSE m
  IN  IF min > max THEN m
      ELSE Without(partial, {k \in Keys(m) : k > start_high /\ k <= highBytes(max)})

removeRangeClosed(m, min, max) ==
  LET start_high == highBytes(min)
      end_high == highBytes(max)
      start_iter == lower_bound(m, start_high)
      end_iter == lower_bound(m, end_high)
      Cut(r, k, lo, hi) == eraseIfEmpty(SetVals(r, k, Vals(r, k) \ (lo..hi)), k)
      begun == IF start_iter = start_high
               THEN Cut(m, start_high, lowBytes(min), uint32_max) ELSE m
      from == IF start_iter = start_high THEN NextKey(m, start_high) ELSE start_iter
      erased == Without(begun, {k \in Keys(m) : from <= k /\ k < end_iter})
  IN  IF \/ min > max
         \/ Keys(m) = {}
         \/ end_high < Min(Keys(m))
         \/ start_high > Max(Keys(m))
      THEN m
      ELSE IF start_iter = start_high /\ start_iter = end_iter
      THEN Cut(m, start_high, lowBytes(min), lowBytes(max))
      ELSE IF end_iter # End /\ end_iter = end_high THEN Cut(erased, end_high, 0, lowBytes(max))
      ELSE erased

Flipped(vals, lo, hi) == SymDiff(vals, lo..hi)

flipClosed32(m, min, max) ==
  LET r == ensureRangePopulated(m, 0, 0)
  IN  eraseIfEmpty(SetVals(r, 0, Flipped(Vals(r, 0), min, max)), 0)

\* The bitmaps of the range in turn: partly the first and the last one.
flipClosed(m, min, max) ==
  LET start_high == highBytes(min)
      end_high == highBytes(max)
      r == ensureRangePopulated(m, start_high, end_high)
      FlipAt(acc, k) ==
        eraseIfEmpty(SetVals(acc, k, Flipped(Vals(acc, k),
                       IF k = start_high THEN lowBytes(min) ELSE 0,
                       IF k = end_high THEN lowBytes(max) ELSE uint32_max)), k)
  IN  IF min > max THEN m
      ELSE FoldLeft(FlipAt, r, KeyRange(start_high, end_high))

-----------------------------------------------------------------------------
(* Set operations in place.  A map combined with itself is a special case: *)
(* `itself' says that the two arguments are the same object.               *)

operator_and(m, other, itself) ==
  LET kept == {k \in Keys(m) \cap Keys(other) : Vals(m, k) \cap Vals(other, k) # {}}
  IN  IF itself THEN m
      ELSE [m EXCEPT !.roarings = [k \in kept |->
              [m.roarings[k] EXCEPT !.vals = @ \cap Vals(other, k)]]]

operator_minus(m, other, itself) ==
  LET both == Keys(m) \cap Keys(other)
      gone == {k \in both : Vals(m, k) \subseteq Vals(other, k)}
  IN  IF itself THEN Without(m, Keys(m))
      ELSE [m EXCEPT !.roarings = [k \in DOMAIN @ \ gone |->
              IF k \in both THEN [m.roarings[k] EXCEPT !.vals = @ \ Vals(other, k)]
              ELSE m.roarings[k]]]

\* roaring_bitmap_or_inplace and xor_inplace overwrite an empty first
\* argument with the second one, flag included.
TakesOver(mine, theirs) == mine.vals = {} /\ theirs.vals # {}

\* The copy that std::map::insert makes of an entry the map does not have.
Inserted(m, other, k) == [other.roarings[k] EXCEPT !.cow = m.copyOnWrite]

operator_or(m, other, itself) ==
  LET Combined(k) ==
        IF k \notin Keys(other) THEN m.roarings[k]
        ELSE IF k \notin Keys(m) THEN Inserted(m, other, k)
        ELSE IF TakesOver(m.roarings[k], other.roarings[k]) THEN other.roarings[k]
        ELSE [m.roarings[k] EXCEPT !.vals = @ \cup Vals(other, k)]
  IN  IF itself THEN m
      ELSE [m EXCEPT !.roarings = [k \in DOMAIN @ \cup Keys(other) |-> Combined(k)]]

operator_xor(m, other, itself) ==
  LET Combined(k) ==
        IF k \notin Keys(other) THEN m.roarings[k]
        ELSE IF k \notin Keys(m) THEN Inserted(m, other, k)
        ELSE IF TakesOver(m.roarings[k], other.roarings[k]) THEN other.roarings[k]
        ELSE [m.roarings[k] EXCEPT !.vals = SymDiff(@, Vals(other, k))]
      gone == {k \in Keys(m) \cap Keys(other) : Vals(m, k) = Vals(other, k)}
  IN  IF itself THEN Without(m, Keys(m))
      ELSE [m EXCEPT !.roarings = [k \in (DOMAIN @ \cup Keys(other)) \ gone |-> Combined(k)]]

\* roaring_bitmap_or_many on the inner bitmaps of one key: the flags of the
\* first two are joined, an empty answer takes the flag of the next one.
OrMany(inners) ==
  LET Join(x, y) == IF x.vals = {} THEN y ELSE IF y.vals = {} THEN x
                    ELSE [vals |-> x.vals \cup y.vals, cow |-> x.cow \/ y.cow]
      JoinInplace(x, y) == IF TakesOver(x, y) THEN y ELSE [x EXCEPT !.vals = @ \cup y.vals]
  IN  IF Len(inners) = 1 THEN inners[1]
      ELSE FoldLeft(JoinInplace, Join(inners[1], inners[2]), SubSeq(inners, 3, Len(inners)))

\* The queue yields the keys in order and, per key, every map that has it.
fastunion(inputs) ==
  LET Group(k) == FoldLeft(LAMBDA acc, m : IF k \in Keys(m) THEN Append(acc, m.roarings[k]) ELSE acc,
                           <<>>, inputs)
      keys == UNION {Keys(inputs[i]) : i \in DOMAIN inputs}
  IN  [roarings |-> [k \in keys |-> OrMany(Group(k))], copyOnWrite |-> FALSE]

setCopyOnWrite(m, val) ==
  IF m.copyOnWrite = val THEN m
  ELSE [roarings |-> [k \in Keys(m) |-> [m.roarings[k] EXCEPT !.cow = val]], copyOnWrite |-> val]

\* Empty inner bitmaps are dropped; shrinking the others keeps their values.
shrinkToFit(m) == Without(m, {k \in Keys(m) : Vals(m, k) = {}})

\* Whether an inner bitmap ends up with a run container: two neighbours do.
HasRun(vals) == \E v \in vals : v + 1 \in vals

\* std::accumulate with && from true over the answers of the inner bitmaps.
runOptimize(m) == \A k \in Keys(m) : HasRun(Vals(m, k))

-----------------------------------------------------------------------------
(* Queries.                                                                *)

\* The elements in order: the i-th one has i - 1 below it.
Ordered(S) == [i \in 1..Cardinality(S) |-> CHOOSE v \in S : Cardinality({w \in S : w < v}) = i - 1]

\* The keys in the order of the std::map.
KeySeq(m) == Ordered(Keys(m))

addCardinalities(lhs, rhs) ==
  LET sum == (lhs + rhs) % (Highs * Lows)
  IN  IF lhs = Throws \/ sum < lhs THEN Throws ELSE sum

\* std::accumulate of the cardinalities of the inner bitmaps of some keys.
Counted(m, K) == MapThenSumSet(LAMBDA k : Cardinality(Vals(m, k)), K)

isFull(m) == Keys(m) = 0..(Highs - 1) /\ \A k \in Keys(m) : Vals(m, k) = 0..uint32_max

cardinality(m) == IF isFull(m) THEN Throws ELSE Counted(m, Keys(m))

isEmpty(m) == \A k \in Keys(m) : Vals(m, k) = {}

maximum(m) ==
  LET K == {k \in Keys(m) : Vals(m, k) # {}}
  IN  IF K = {} THEN 0 ELSE uniteBytes(Max(K), Max(Vals(m, Max(K))))

minimum(m) ==
  LET K == {k \in Keys(m) : Vals(m, k) # {}}
  IN  IF K = {} THEN Highs * Lows - 1 ELSE uniteBytes(Min(K), Min(Vals(m, Min(K))))

contains(m, x) == highBytes(x) \in Keys(m) /\ lowBytes(x) \in Vals(m, highBytes(x))

containsRangeClosed32(m, min, max) ==
  IF 0 \notin Keys(m) THEN min > max ELSE (min..max) \subseteq Vals(m, 0)

\* One bitmap after the other: ++iter has to land on the next key each time.
containsRangeClosed(m, min, max) ==
  LET start_high == highBytes(min)
      end_high == highBytes(max)
      Has(k, lo, hi) == (lo..hi) \subseteq Vals(m, k)
  IN  IF min > max THEN TRUE
      ELSE IF start_high = end_high
      THEN start_high \in Keys(m) /\ Has(start_high, lowBytes(min), lowBytes(max))
      ELSE /\ start_high \in Keys(m)
           /\ Has(start_high, lowBytes(min), uint32_max)
           /\ \A high \in (start_high + 1)..(end_high - 1) :
                NextKey(m, high - 1) = high /\ Has(high, 0, uint32_max)
           /\ NextKey(m, end_high - 1) = end_high
           /\ Has(end_high, 0, lowBytes(max))

rank(m, x) ==
  LET end == lower_bound(m, highBytes(x))
  IN  (IF end = highBytes(x)
       THEN Cardinality({v \in Vals(m, end) : v <= lowBytes(x)}) ELSE 0)
      + Counted(m, {k \in Keys(m) : k < end})

\* The value of a rank, or Throws when there is none.
select(m, rnk) ==
  LET Pass(acc, k) ==
        IF acc.found # Throws THEN acc
        ELSE IF acc.rank < Cardinality(Vals(m, k))
        THEN [acc EXCEPT !.found = uniteBytes(k, Ordered(Vals(m, k))[acc.rank + 1])]
        ELSE [acc EXCEPT !.rank = @ - Cardinality(Vals(m, k))]
  IN  FoldLeft(Pass, [rank |-> rnk, found |-> Throws], KeySeq(m)).found

getIndex(m, x) ==
  LET k == highBytes(x)
  IN  IF ~contains(m, x) THEN -1
      ELSE Counted(m, {j \in Keys(m) : j < k})
           + Cardinality({v \in Vals(m, k) : v < lowBytes(x)})

\* toUint64Array, and iterate with an iterator that stops at `stop'.
iterate(m, stop) ==
  LET Pass(acc, k) ==
        LET vals == {uniteBytes(k, v) : v \in Vals(m, k)}
        IN  IF ~acc.should_continue THEN acc
            ELSE [seen |-> acc.seen \o Ordered({v \in vals : stop \in vals => v <= stop}),
                  should_continue |-> stop \notin vals]
  IN  FoldLeft(Pass, [seen |-> <<>>, should_continue |-> TRUE], KeySeq(m)).seen

(* Two maps.  The four counts walk both in key order and add up with the   *)
(* check for 2^64; count[k] is what the inner bitmaps of key k contribute.  *)
SumOverKeys(count) ==
  FoldLeft(LAMBDA card, k : addCardinalities(card, count[k]), 0, Ordered(DOMAIN count))

ValsOrNone(m, k) == IF k \in Keys(m) THEN Vals(m, k) ELSE {}

and_cardinality(m, r) ==
  SumOverKeys([k \in Keys(m) \cap Keys(r) |-> Cardinality(Vals(m, k) \cap Vals(r, k))])

or_cardinality(m, r) ==
  SumOverKeys([k \in Keys(m) \cup Keys(r) |-> Cardinality(ValsOrNone(m, k) \cup ValsOrNone(r, k))])

xor_cardinality(m, r) ==
  SumOverKeys([k \in Keys(m) \cup Keys(r) |-> Cardinality(SymDiff(ValsOrNone(m, k), ValsOrNone(r, k)))])

andnot_cardinality(m, r) ==
  SumOverKeys([k \in Keys(m) |-> Cardinality(Vals(m, k) \ ValsOrNone(r, k))])

intersect(m, r) == \E k \in Keys(m) \cap Keys(r) : Vals(m, k) \cap Vals(r, k) # {}

isSubset(m, r) ==
  \A k \in {j \in Keys(m) : Vals(m, j) # {}} : k \in Keys(r) /\ Vals(m, k) \subseteq Vals(r, k)

\* The cardinalities are asked for when m is a subset, and either may throw.
isStrictSubset(m, r) ==
  IF ~isSubset(m, r) THEN "false"
  ELSE IF Throws \in {cardinality(m), cardinality(r)} THEN "throws"
  ELSE IF cardinality(m) # cardinality(r) THEN "true" ELSE "false"

\* Both maps in key order, skipping empty bitmaps on either side: i and j
\* are the iterators.  What one map has left then has to be empty.
operator_eq(m, r) ==
  LET ms == KeySeq(m)
      rs == KeySeq(r)
      VM(i) == Vals(m, ms[i])
      VR(j) == Vals(r, rs[j])
      Turn(acc, n) ==
        IF ~acc.equal \/ acc.i > Len(ms) \/ acc.j > Len(rs) THEN acc
        ELSE IF VM(acc.i) = {} THEN [acc EXCEPT !.i = @ + 1]
        ELSE IF VR(acc.j) = {} THEN [acc EXCEPT !.j = @ + 1]
        ELSE IF ms[acc.i] = rs[acc.j] /\ VM(acc.i) = VR(acc.j)
        THEN [acc EXCEPT !.i = @ + 1, !.j = @ + 1]
        ELSE [acc EXCEPT !.equal = FALSE]
      end == FoldLeft(Turn, [i |-> 1, j |-> 1, equal |-> TRUE],
                      [n \in 1..(Len(ms) + Len(rs)) |-> n])
  IN  /\ end.equal
      /\ \A i \in end.i..Len(ms) : VM(i) = {}
      /\ \A j \in end.j..Len(rs) : VR(j) = {}

-----------------------------------------------------------------------------
(* Roaring64MapSetBitBiDirectionalIterator: a key of the map (or End) and  *)
(* the value its 32-bit iterator stands on, NoValue when it has none.      *)

NoValue == -1

InitFirst(m, k) == [at |-> k, cur |-> IF Vals(m, k) = {} THEN NoValue ELSE Min(Vals(m, k))]
InitLast(m, k) == [at |-> k, cur |-> Max(Vals(m, k) \cup {NoValue})]
AtEnd == [at |-> End, cur |-> NoValue]

\* while (!i.has_value): on to the next key, from key k on.
SkipForward(m, k) ==
  LET K == {x \in Keys(m) : x >= k /\ Vals(m, x) # {}}
  IN  IF K = {} THEN AtEnd ELSE InitFirst(m, Min(K))

\* while (!i.has_value): back to the key before, not past the first one.
SkipBack(m, k) ==
  LET K == {x \in Keys(m) : x < k /\ Vals(m, x) # {}}
  IN  IF K = {} THEN [at |-> Min(Keys(m)), cur |-> NoValue] ELSE InitLast(m, Max(K))

\* Mutant: an empty first bitmap is not skipped.
begin_NoSkip(m) == IF Keys(m) = {} THEN AtEnd ELSE InitFirst(m, Min(Keys(m)))

begin(m) == IF Keys(m) = {} THEN AtEnd ELSE SkipForward(m, Min(Keys(m)))

operator_next(m, it) ==
  LET rest == {v \in Vals(m, it.at) : v > it.cur}
  IN  IF rest # {} THEN [it EXCEPT !.cur = Min(rest)] ELSE SkipForward(m, it.at + 1)

Previous(m, it) ==
  LET rest == {v \in Vals(m, it.at) : v < it.cur}
  IN  IF rest # {} THEN [it EXCEPT !.cur = Max(rest)] ELSE SkipBack(m, it.at)

operator_prev(m, it) ==
  LET last == InitLast(m, Max(Keys(m)))
  IN  IF it.at # End THEN Previous(m, it)
      ELSE IF last.cur # NoValue THEN last
      ELSE SkipBack(m, last.at)

\* it--: from end() it stops at the last bitmap, whatever that holds.
operator_prev_post(m, it) ==
  IF it.at # End THEN Previous(m, it) ELSE InitLast(m, Max(Keys(m)))

move_equalorlarger(m, x) ==
  LET k == lower_bound(m, highBytes(x))
      here == {v \in Vals(m, k) : v >= lowBytes(x)}
      next == NextKey(m, k)
      First(j) == IF j = End THEN [it |-> AtEnd, found |-> FALSE]
                  ELSE [it |-> InitFirst(m, j), found |-> TRUE]
  IN  IF k = End \/ k # highBytes(x) THEN First(k)
      ELSE IF here # {} THEN [it |-> [at |-> k, cur |-> Min(here)], found |-> TRUE]
      ELSE First(next)

deref(it) == uniteBytes(it.at, it.cur)

iter_less(i, j) == i.at # End /\ (j.at = End \/ deref(i) < deref(j))
iter_leq(i, j) == j.at = End \/ (i.at # End /\ deref(i) <= deref(j))

\* Of end() == it, it must be dereferenced and so must end(): `junk' is what
\* the read past the last node gives.
iter_eq(i, j, junk) ==
  IF i.at = End /\ j.at = End THEN TRUE
  ELSE IF j.at = End THEN FALSE
  ELSE (IF i.at = End THEN junk ELSE deref(i)) = deref(j)

-----------------------------------------------------------------------------
(* Files: a count, then per key the key and the inner bitmap.  InnerBytes  *)
(* stands for the sizes the 32-bit formats have (BitmapFormat), which are  *)
(* positive for an empty bitmap too.                                       *)

InnerBytes(vals) == 8 + 2 * Cardinality(vals)
CountBytes == 8
KeyBytes == 4

write(m) == [count |-> Cardinality(Keys(m)),
             entries |-> [n \in 1..Cardinality(Keys(m)) |->
                            [key |-> KeySeq(m)[n], vals |-> Vals(m, KeySeq(m)[n])]]]

getSizeInBytes(m) ==
  CountBytes + Cardinality(Keys(m)) * KeyBytes
    + MapThenSumSet(LAMBDA k : InnerBytes(Vals(m, k)), Keys(m))

\* Mutant: the bytes of a key are not taken off the account.
readSafe_KeysFree(file, maxbytes) ==
  LET Entry(acc, e) ==
        LET left == acc.left
        IN  IF ~acc.ok \/ left < InnerBytes(e.vals) THEN [acc EXCEPT !.ok = FALSE]
            ELSE [ok |-> TRUE, left |-> left - InnerBytes(e.vals),
                  map |-> Put(acc.map, e.key, [vals |-> e.vals, cow |-> FALSE])]
  IN  IF maxbytes < CountBytes THEN [ok |-> FALSE, map |-> Empty, left |-> 0]
      ELSE FoldLeft(Entry, [ok |-> TRUE, map |-> Empty, left |-> maxbytes - CountBytes], file.entries)

\* The map read from the first maxbytes bytes; not ok: ROARING_TERMINATE.
\* Inside, serializedSizeInBytesSafe is 0 when the bitmap does not fit.
readSafe(file, maxbytes) ==
  LET Entry(acc, e) ==
        LET left == acc.left - KeyBytes
        IN  IF ~acc.ok \/ left < 0 \/ left < InnerBytes(e.vals) THEN [acc EXCEPT !.ok = FALSE]
            ELSE [ok |-> TRUE, left |-> left - InnerBytes(e.vals),
                  map |-> Put(acc.map, e.key, [vals |-> e.vals, cow |-> FALSE])]
  IN  IF maxbytes < CountBytes THEN [ok |-> FALSE, map |-> Empty, left |-> 0]
      ELSE FoldLeft(Entry, [ok |-> TRUE, map |-> Empty, left |-> maxbytes - CountBytes], file.entries)

FrozenBytes(vals) == 4 + 5 * Cardinality(vals)
metadata_size == 12
Padded(pos) == pos + ((-(pos + metadata_size)) % 32)

getFrozenSizeInBytes(m) ==
  FoldLeft(LAMBDA ret, k : Padded(ret) + metadata_size + FrozenBytes(Vals(m, k)),
           CountBytes, KeySeq(m))

\* Where each bitmap starts in an aligned buffer, and where the last ends.
writeFrozen(m) ==
  FoldLeft(LAMBDA acc, k :
             LET start == Padded(acc.end) + metadata_size
             IN  [starts |-> Append(acc.starts, start),
                  entries |-> Append(acc.entries, [key |-> k, vals |-> Vals(m, k)]),
                  end |-> start + FrozenBytes(Vals(m, k))],
           [starts |-> <<>>, entries |-> <<>>, end |-> CountBytes], KeySeq(m))

\* The view finds the n-th bitmap from the stored lengths of those before.
frozenView(file) ==
  FoldLeft(LAMBDA acc, n :
             LET start == Padded(acc.pos) + metadata_size
             IN  IF ~acc.ok \/ file.starts[n] # start THEN [acc EXCEPT !.ok = FALSE]
                 ELSE [ok |-> TRUE, pos |-> start + FrozenBytes(file.entries[n].vals),
                       map |-> Put(acc.map, file.entries[n].key,
                                   [vals |-> file.entries[n].vals, cow |-> FALSE])],
           [ok |-> TRUE, pos |-> CountBytes, map |-> Empty],
           [n \in DOMAIN file.entries |-> n])

=============================================================================
