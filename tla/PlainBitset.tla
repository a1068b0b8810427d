---------------------------- MODULE PlainBitset ----------------------------
(***************************************************************************)
(* The uncompressed bitset of src/src/bitset.c and bitset.h: a buffer of   *)
(* words that grows on demand.  The words between arraysize and capacity   *)
(* keep what an earlier, longer content left there, and words realloc has  *)
(* just added hold anything: an operation that enlarges the bitset without *)
(* padding must overwrite every word it takes in.                          *)
(*                                                                         *)
(* A word is the set of its one bits, WordBits stands for 64.  One bitset  *)
(* goes through every call; the second argument of the calls on two        *)
(* bitsets ranges over Operands.  An index outside the buffer, or a buffer *)
(* the allocator has taken back, ends the behaviour in `memory'.           *)
(***************************************************************************)
EXTENDS Integers, FiniteSets, Sequences, SequencesExt, FiniteSetsExt

CONSTANTS
  WordBits,       \* bits of a word (64)
  MaxWords,       \* bound: words a bitset is asked to hold
  Unusual         \* calls the run makes that the unit tests leave out:
                  \* "left_empty"   shifting left a bitset of no words,
                  \* "right_beyond" shifting right past the last word,
                  \* "trim_empty"   trimming to nothing with an allocator
                  \*                whose realloc(p, 0) frees p

BitsetAssumption ==
  /\ WordBits \in Nat \ {0}
  /\ MaxWords \in Nat \ {0}
  /\ Unusual \subseteq {"left_empty", "right_beyond", "trim_empty"}

VARIABLES
  bitset,    \* the bitset_t: array of capacity words, arraysize, capacity
  members,   \* the values the caller is entitled to find in it
  memory     \* "sound" until an access leaves the buffer

vars == <<bitset, members, memory>>

AllOnes == 0..(WordBits - 1)
Word == SUBSET AllOnes
Positions == 0..(WordBits * MaxWords - 1)
SizeMax == -1            \* SIZE_MAX, which is no position

Smaller(m, n) == IF m < n THEN m ELSE n
ShiftUp(w, s) == {x + s : x \in w} \cap AllOnes
ShiftDown(w, s) == {x - s : x \in {y \in w : y >= s}}
Used(b) == 0..(b.arraysize - 1)
Rest(b, from) == {k \in Used(b) : k >= from}

\* The values of a bitset, by the position of each bit of each used word.
Values(b) == UNION {{k * WordBits + x : x \in b.array[k]} : k \in Used(b)}

-----------------------------------------------------------------------------
(* Buffer management: `spare' is what a word added by realloc holds, `ok'  *)
(* whether the allocator serves a request for more.                        *)

\* The buffer at capacity cap: the old words stay, the new ones hold spare.
Reallocated(b, cap, spare) ==
  [b EXCEPT !.array = [k \in 0..(cap - 1) |->
                         IF k < b.capacity THEN b.array[k] ELSE spare],
            !.capacity = cap]

\* memset(array + from, 0, ...) up to word n.
Zeroed(b, from, n) ==
  [b EXCEPT !.array = [k \in DOMAIN b.array |->
                         IF k \in from..(n - 1) THEN {} ELSE b.array[k]]]

\* The call needs a larger buffer and does not get one.
Refused(b, newarraysize, ok) == b.capacity < newarraysize /\ ~ok

bitset_create == [array |-> [k \in {} |-> {}], arraysize |-> 0, capacity |-> 0]

bitset_create_with_capacity(size) ==
  LET n == (size + WordBits - 1) \div WordBits
  IN  [array |-> [k \in 0..(n - 1) |-> {}], arraysize |-> n, capacity |-> n]

bitset_copy(b) ==
  [array |-> [k \in Used(b) |-> b.array[k]],
   arraysize |-> b.arraysize, capacity |-> b.arraysize]

Down(hi, lo) == [n \in 1..(hi - lo + 1) |-> hi - n + 1]
Up(lo, hi) == [n \in 1..(hi - lo + 1) |-> lo + n - 1]

\* Where the capacity ends up that doubles from c (at least 1) to n or more.
DoubledTo(c, n) ==
  FoldLeft(LAMBDA m, i : IF m < n THEN 2 * m ELSE m, IF c = 0 THEN 1 ELSE c, Up(1, n))

bitset_resize(b, newarraysize, padwithzeroes, spare, ok) ==
  IF Refused(b, newarraysize, ok) THEN b
  ELSE LET smallest == Smaller(newarraysize, b.arraysize)
           room == IF b.capacity < newarraysize
                   THEN Reallocated(b, DoubledTo(b.capacity, newarraysize), spare)
                   ELSE b
           padded == IF padwithzeroes THEN Zeroed(room, smallest, newarraysize) ELSE room
       IN  [padded EXCEPT !.arraysize = newarraysize]

bitset_grow(b, newarraysize, spare, ok) ==
  IF newarraysize < b.arraysize \/ Refused(b, newarraysize, ok) THEN b
  ELSE LET power == DoubledTo(1, newarraysize + 1)    \* the next power of two
           room == IF b.capacity < newarraysize THEN Reallocated(b, power, spare) ELSE b
       IN  [Zeroed(room, b.arraysize, newarraysize) EXCEPT !.arraysize = newarraysize]

\* The size bitset_trim cuts to: one past the last word with a bit.
TrimmedSize(b) == Max({0} \cup {k + 1 : k \in {j \in Used(b) : b.array[j] # {}}})

bitset_trim(b) ==
  LET newsize == TrimmedSize(b)
  IN  IF b.capacity = newsize THEN b
      ELSE [array |-> [k \in 0..(newsize - 1) |-> b.array[k]],
            arraysize |-> newsize, capacity |-> newsize]

-----------------------------------------------------------------------------
(* Point writes.                                                           *)

bitset_set(b, i, spare, ok) ==
  LET shiftedi == i \div WordBits
      room == IF shiftedi >= b.arraysize THEN bitset_grow(b, shiftedi + 1, spare, ok) ELSE b
  IN  IF shiftedi >= room.arraysize THEN b
      ELSE [room EXCEPT !.array[shiftedi] = @ \cup {i % WordBits}]

bitset_set_to_value(b, i, flag, spare, ok) ==
  LET shiftedi == i \div WordBits
      room == IF shiftedi >= b.arraysize THEN bitset_grow(b, shiftedi + 1, spare, ok) ELSE b
      mask == {i % WordBits}
  IN  IF shiftedi >= room.arraysize THEN b
      ELSE [room EXCEPT !.array[shiftedi] = (@ \ mask) \cup (IF flag THEN mask ELSE {})]

bitset_clear(b) == Zeroed(b, 0, b.arraysize)

bitset_fill(b) ==
  [b EXCEPT !.array = [k \in DOMAIN b.array |-> IF k < b.arraysize THEN AllOnes ELSE b.array[k]]]

-----------------------------------------------------------------------------
(* Shifts.  Each works in place, so the order of its word moves matters;   *)
(* Touched... is every index it reads or writes, for MemorySafe.           *)

TouchedLeft(as, extra, inword) ==
  IF inword = 0 THEN 0..(as + extra - 1)
  ELSE {as - 1} \cup (0..(as + extra))

\* The room bitset_shift_left asks for before it moves anything.
\* Mutant: the carry of the last word gets no word of its own.
LeftRoom_NoCarry(b, s, spare) ==
  bitset_resize(b, b.arraysize + s \div WordBits, s % WordBits # 0, spare, TRUE)

LeftRoom(b, s, spare) ==
  LET n == b.arraysize + s \div WordBits
  IN  IF s % WordBits = 0 THEN bitset_resize(b, n, FALSE, spare, TRUE)
      ELSE bitset_resize(b, n + 1, TRUE, spare, TRUE)

\* One turn of its loops.
LeftMove(a, i, extra, inword) ==
  [a EXCEPT ![i - 1] =
     IF inword = 0 THEN a[i - 1 - extra]
     ELSE ShiftUp(a[i - 1 - extra], inword) \cup ShiftDown(a[i - 2 - extra], WordBits - inword)]

LeftMoves(a, as, extra, inword) ==
  FoldLeft(LAMBDA moved, i : LeftMove(moved, i, extra, inword), a,
           Down(as + extra, extra + (IF inword = 0 THEN 1 ELSE 2)))

bitset_shift_left(b, s, spare) ==
  LET extra == s \div WordBits
      inword == s % WordBits
      as == b.arraysize
      room == LeftRoom(b, s, spare)
      carried == [room.array EXCEPT ![as + extra] =
                    ShiftDown(room.array[as - 1], WordBits - inword)]
      moved == LeftMoves(carried, as, extra, inword)
      shifted == IF inword = 0 THEN LeftMoves(room.array, as, extra, inword)
                 ELSE [moved EXCEPT ![extra] = ShiftUp(moved[0], inword)]
  IN  Zeroed([room EXCEPT !.array = shifted], 0, extra)

\* as - extra_words - 1 is an unsigned difference: past the buffer when as
\* has no more than extra_words words, and then the loop bound is, too.
TouchedRight(as, extra, inword) ==
  IF inword = 0
  THEN IF as < extra THEN {-1} ELSE extra..(as - 1)
  ELSE {as - extra - 1, as - 1} \cup (extra..(as - 1))

RightMove(a, i, extra, inword) ==
  [a EXCEPT ![i] =
     IF inword = 0 THEN a[i + extra]
     ELSE ShiftDown(a[i + extra], inword) \cup ShiftUp(a[i + extra + 1], WordBits - inword)]

RightMoves(a, as, extra, inword) ==
  FoldLeft(LAMBDA moved, i : RightMove(moved, i, extra, inword), a,
           Up(0, as - extra - (IF inword = 0 THEN 1 ELSE 2)))

bitset_shift_right(b, s) ==
  LET extra == s \div WordBits
      inword == s % WordBits
      as == b.arraysize
      moved == RightMoves(b.array, as, extra, inword)
      shifted == IF inword = 0 THEN moved
                 ELSE [moved EXCEPT ![as - extra - 1] = ShiftDown(moved[as - 1], inword)]
  IN  bitset_resize([b EXCEPT !.array = shifted], as - extra, FALSE, {}, TRUE)

-----------------------------------------------------------------------------
(* The operations in place.  `Common' is minlength, the words both have.   *)

Common(b1, b2) == 0..(Smaller(b1.arraysize, b2.arraysize) - 1)

\* b1 with the words of b2 copied behind its own, after the resize.
Extended(b1, b2, spare, ok) ==
  LET room == bitset_resize(b1, b2.arraysize, FALSE, spare, ok)
  IN  IF b2.arraysize <= b1.arraysize \/ Refused(b1, b2.arraysize, ok) THEN b1
      ELSE [room EXCEPT !.array = [k \in DOMAIN room.array |->
              IF k \in Rest(b2, b1.arraysize) THEN b2.array[k] ELSE room.array[k]]]

bitset_inplace_union(b1, b2, spare, ok) ==
  Extended([b1 EXCEPT !.array = [k \in DOMAIN b1.array |->
              IF k \in Common(b1, b2) THEN b1.array[k] \cup b2.array[k] ELSE b1.array[k]]],
           b2, spare, ok)

bitset_inplace_intersection(b1, b2) ==
  [b1 EXCEPT !.array = [k \in DOMAIN b1.array |->
     IF k \in Common(b1, b2) THEN b1.array[k] \cap b2.array[k]
     ELSE IF k < b1.arraysize THEN {} ELSE b1.array[k]]]

bitset_inplace_difference(b1, b2) ==
  [b1 EXCEPT !.array = [k \in DOMAIN b1.array |->
     IF k \in Common(b1, b2) THEN b1.array[k] \ b2.array[k] ELSE b1.array[k]]]

bitset_inplace_symmetric_difference(b1, b2, spare, ok) ==
  Extended([b1 EXCEPT !.array = [k \in DOMAIN b1.array |->
              IF k \in Common(b1, b2) THEN SymDiff(b1.array[k], b2.array[k]) ELSE b1.array[k]]],
           b2, spare, ok)

-----------------------------------------------------------------------------
(* Queries on one bitset.                                                  *)

bitset_get(b, i) ==
  /\ i \div WordBits < b.arraysize
  /\ i % WordBits \in b.array[i \div WordBits]

bitset_count(b) == MapThenSumSet(LAMBDA k : Cardinality(b.array[k]), Used(b))

bitset_empty(b) == \A k \in Used(b) : b.array[k] = {}

FirstBit(b, k) == k * WordBits + Min(b.array[k])

bitset_minimum(b) ==
  IF bitset_empty(b) THEN SizeMax
  ELSE FirstBit(b, Min({k \in Used(b) : b.array[k] # {}}))

bitset_maximum(b) ==
  IF bitset_empty(b) THEN 0
  ELSE LET k == Max({j \in Used(b) : b.array[j] # {}})
       IN  k * WordBits + Max(b.array[k])

\* The position the scan from i stops at, or SizeMax when it returns false.
bitset_next_set_bit(b, i) ==
  LET x == i \div WordBits
      w == ShiftDown(b.array[x], i % WordBits)
      later == {k \in Rest(b, x + 1) : b.array[k] # {}}
  IN  IF x >= b.arraysize THEN SizeMax
      ELSE IF w # {} THEN i + Min(w)
      ELSE IF later # {} THEN FirstBit(b, Min(later))
      ELSE SizeMax

Ascending(S) == SelectSeq(Up(0, WordBits * MaxWords), LAMBDA v : v \in S)

\* The bits of word k in the order the loops w ^= (w & -w) yield them.
BitsOfWord(b, k) ==
  SelectSeq(Up(k * WordBits, (k + 1) * WordBits - 1),
            LAMBDA v : v - k * WordBits \in b.array[k])

\* The buffer bitset_next_set_bits fills from *startfrom on; the last value
\* it holds, if any, becomes *startfrom.
bitset_next_set_bits(b, capacity, startfrom) ==
  LET x == startfrom \div WordBits
      first == SelectSeq(BitsOfWord(b, x), LAMBDA v : v % WordBits >= startfrom % WordBits)
      bits == FoldLeft(LAMBDA acc, k : IF Len(acc) >= capacity THEN acc
                                       ELSE acc \o BitsOfWord(b, k),
                       first, Up(x + 1, b.arraysize - 1))
  IN  IF capacity = 0 \/ x >= b.arraysize THEN <<>>
      ELSE SubSeq(bits, 1, Smaller(capacity, Len(bits)))

\* The values passed to an iterator that returns false at the value stop.
bitset_for_each(b, stop) ==
  LET bits == FoldLeft(LAMBDA acc, k : acc \o BitsOfWord(b, k), <<>>, Up(0, b.arraysize - 1))
      at == {n \in DOMAIN bits : bits[n] = stop}
  IN  [seen |-> IF at = {} THEN bits ELSE SubSeq(bits, 1, Min(at)), result |-> at = {}]

-----------------------------------------------------------------------------
(* Queries on two bitsets.                                                 *)

bitsets_disjoint(b1, b2) ==
  \A k \in Common(b1, b2) : b1.array[k] \cap b2.array[k] = {}

bitsets_intersect(b1, b2) ==
  \E k \in Common(b1, b2) : b1.array[k] \cap b2.array[k] # {}

any_bits_set(b, starting_loc) == \E k \in Rest(b, starting_loc) : b.array[k] # {}

bitset_contains_all(b1, b2) ==
  /\ \A k \in Common(b1, b2) : b1.array[k] \cap b2.array[k] = b2.array[k]
  /\ b2.arraysize > b1.arraysize => ~any_bits_set(b2, b1.arraysize)

Hamming(b, K) == MapThenSumSet(LAMBDA k : Cardinality(b.array[k]), K)

\* The bits of the longer one's words behind the common ones.
TailCount(b1, b2) ==
  IF b2.arraysize > b1.arraysize THEN Hamming(b2, Rest(b2, b1.arraysize))
  ELSE Hamming(b1, Rest(b1, b2.arraysize))

bitset_union_count(b1, b2) ==
  MapThenSumSet(LAMBDA k : Cardinality(b1.array[k] \cup b2.array[k]), Common(b1, b2))
    + TailCount(b1, b2)

bitset_intersection_count(b1, b2) ==
  MapThenSumSet(LAMBDA k : Cardinality(b1.array[k] \cap b2.array[k]), Common(b1, b2))

bitset_difference_count(b1, b2) ==
  MapThenSumSet(LAMBDA k : Cardinality(b1.array[k] \ b2.array[k]), Common(b1, b2))
    + Hamming(b1, Rest(b1, b2.arraysize))

bitset_symmetric_difference_count(b1, b2) ==
  MapThenSumSet(LAMBDA k : Cardinality(SymDiff(b1.array[k], b2.array[k])), Common(b1, b2))
    + TailCount(b1, b2)

-----------------------------------------------------------------------------
(* The state machine: one action per call.                                 *)

OperandWords == {{}, {0}, AllOnes, AllOnes \ {0}}

\* Second arguments: buffers of at most MaxWords words, no slack.
Operands ==
  UNION {{[array |-> a, arraysize |-> n, capacity |-> n] : a \in [0..(n - 1) -> OperandWords]}
           : n \in 0..MaxWords}

Init ==
  /\ bitset = bitset_create
  /\ members = {}
  /\ memory = "sound"

Becomes(b, m) ==
  /\ bitset' = b
  /\ members' = m
  /\ UNCHANGED memory

Create(size) == Becomes(bitset_create_with_capacity(size), {})

Copy == Becomes(bitset_copy(bitset), members)

Grow(n, spare, ok) == Becomes(bitset_grow(bitset, n, spare, ok), members)

\* Only a padded resize says what the caller finds afterwards.
Resize(n, spare, ok) ==
  Becomes(bitset_resize(bitset, n, TRUE, spare, ok),
          {v \in members : v < n * WordBits})

\* realloc(array, 0) is external: it may keep the block, or free it and
\* return NULL, which bitset_trim takes for a failure.
Trim ==
  IF TrimmedSize(bitset) = 0 /\ bitset.capacity # 0 /\ "trim_empty" \in Unusual
  THEN /\ memory' = "freed"
       /\ UNCHANGED <<bitset, members>>
  ELSE Becomes(bitset_trim(bitset), members)

\* A refused bitset_grow leaves the bitset as it was ("may silently fail").
Set(i, spare, ok) ==
  Becomes(bitset_set(bitset, i, spare, ok),
          IF i \div WordBits >= bitset.arraysize /\ Refused(bitset, i \div WordBits + 1, ok)
          THEN members ELSE members \cup {i})

SetToValue(i, flag, spare, ok) ==
  Becomes(bitset_set_to_value(bitset, i, flag, spare, ok),
          IF i \div WordBits >= bitset.arraysize /\ Refused(bitset, i \div WordBits + 1, ok)
          THEN members ELSE IF flag THEN members \cup {i} ELSE members \ {i})

Clear == Becomes(bitset_clear(bitset), {})

Fill == Becomes(bitset_fill(bitset), 0..(WordBits * bitset.arraysize - 1))

\* A shift that touches an index outside the buffer ends the behaviour.
\* (The result of the resize in bitset_shift_left is not looked at; the
\* allocator serves it here.)
ShiftLeft(s, spare) ==
  LET extra == s \div WordBits
      touched == TouchedLeft(bitset.arraysize, extra, s % WordBits)
  IN  /\ bitset.arraysize + extra < MaxWords
      /\ bitset.arraysize > 0 \/ s % WordBits = 0 \/ "left_empty" \in Unusual
      /\ IF touched \subseteq 0..(LeftRoom(bitset, s, spare).capacity - 1)
         THEN Becomes(bitset_shift_left(bitset, s, spare), {v + s : v \in members})
         ELSE /\ memory' = "outside"
              /\ UNCHANGED <<bitset, members>>

ShiftRight(s) ==
  LET extra == s \div WordBits
      touched == TouchedRight(bitset.arraysize, extra, s % WordBits)
  IN  /\ \/ s <= WordBits * bitset.arraysize
         \/ "right_beyond" \in Unusual
      /\ bitset.arraysize > 0 \/ s = 0 \/ "right_beyond" \in Unusual
      /\ IF touched \subseteq 0..(bitset.capacity - 1)
         THEN Becomes(bitset_shift_right(bitset, s), {v - s : v \in {m \in members : m >= s}})
         ELSE /\ memory' = "outside"
              /\ UNCHANGED <<bitset, members>>

\* A refused resize in the union and the symmetric difference returns false
\* with the common words already combined.
InplaceUnion(o, spare, ok) ==
  LET common == {v \in Values(o) : v < WordBits * bitset.arraysize}
  IN  Becomes(bitset_inplace_union(bitset, o, spare, ok),
              members \cup (IF Refused(bitset, o.arraysize, ok) THEN common ELSE Values(o)))

InplaceIntersection(o) ==
  Becomes(bitset_inplace_intersection(bitset, o), members \cap Values(o))

InplaceDifference(o) ==
  Becomes(bitset_inplace_difference(bitset, o), members \ Values(o))

InplaceSymmetricDifference(o, spare, ok) ==
  LET common == {v \in Values(o) : v < WordBits * bitset.arraysize}
  IN  Becomes(bitset_inplace_symmetric_difference(bitset, o, spare, ok),
              SymDiff(members, IF Refused(bitset, o.arraysize, ok) THEN common ELSE Values(o)))

\* What realloc may leave in a word it adds.
Spares == {{}, AllOnes}

Next ==
  /\ memory = "sound"
  /\ \/ \E size \in 0..(WordBits * MaxWords) : Create(size)
     \/ Copy \/ Trim \/ Clear \/ Fill
     \/ \E s \in 0..(WordBits * MaxWords) : ShiftRight(s)
     \/ \E o \in Operands : InplaceIntersection(o) \/ InplaceDifference(o)
     \/ \E spare \in Spares :
          \/ \E s \in 0..(WordBits * MaxWords) : ShiftLeft(s, spare)
          \/ \E ok \in BOOLEAN :
               \/ \E n \in 0..MaxWords : Grow(n, spare, ok) \/ Resize(n, spare, ok)
               \/ \E i \in Positions : Set(i, spare, ok)
               \/ \E i \in Positions, flag \in BOOLEAN : SetToValue(i, flag, spare, ok)
               \/ \E o \in Operands : \/ InplaceUnion(o, spare, ok)
                                      \/ InplaceSymmetricDifference(o, spare, ok)

Spec == Init /\ [][Next]_vars

-----------------------------------------------------------------------------
(* Properties.                                                             *)

\* Every word of the buffer is a word, and the used words lie in it.
TypeOK ==
  /\ bitset.capacity \in 0..(2 * MaxWords)
  /\ bitset.arraysize \in 0..bitset.capacity
  /\ bitset.array \in [0..(bitset.capacity - 1) -> Word]
  /\ members \subseteq 0..(WordBits * MaxWords)
  /\ memory \in {"sound", "outside", "freed"}

\* After any sequence of calls the used words hold exactly the values the
\* documentation of each call promises: no left-over of an earlier content
\* and nothing realloc put there shows up (bitset_resize with
\* padwithzeroes = false in the shifts and the operations in place).
HoldsMembers == memory = "sound" => Values(bitset) = members

\* No call reads or writes a word outside the buffer, or keeps a buffer
\* the allocator has taken back (the index arithmetic of the shifts, the
\* realloc of bitset_trim).
MemorySafe == memory = "sound"

\* bitset_get, bitset_count, bitset_empty, bitset_minimum and
\* bitset_maximum answer for the values held.
SingleQueriesAgree ==
  /\ \A i \in 0..(WordBits * MaxWords) : bitset_get(bitset, i) <=> i \in members
  /\ bitset_count(bitset) = Cardinality(members)
  /\ bitset_empty(bitset) <=> members = {}
  /\ bitset_minimum(bitset) = IF members = {} THEN SizeMax ELSE Min(members)
  /\ bitset_maximum(bitset) = IF members = {} THEN 0 ELSE Max(members)

\* The two iteration idioms of bitset.h find the next value, or the next
\* `capacity' values, from any start on, and bitset_for_each passes the
\* values in order up to the one its iterator stops at.
WalksAgree ==
  LET From(i) == {v \in members : v >= i}
  IN  /\ \A i \in Positions :
           /\ bitset_next_set_bit(bitset, i)
                = IF From(i) = {} THEN SizeMax ELSE Min(From(i))
           /\ \A capacity \in 0..(WordBits + 1) :
                LET all == Ascending(From(i))
                IN  bitset_next_set_bits(bitset, capacity, i)
                      = SubSeq(all, 1, Smaller(capacity, Len(all)))
      /\ \A stop \in Positions :
           bitset_for_each(bitset, stop) =
             [seen |-> IF stop \in members
                       THEN Ascending({v \in members : v <= stop})
                       ELSE Ascending(members),
              result |-> stop \notin members]

\* The comparisons and the counts of two bitsets of different lengths are
\* those of their sets of values.
PairQueriesAgree ==
  \A o \in Operands :
    LET V == Values(o)
    IN  /\ bitsets_disjoint(bitset, o) <=> members \cap V = {}
        /\ bitsets_intersect(bitset, o) <=> members \cap V # {}
        /\ bitset_contains_all(bitset, o) <=> V \subseteq members
        /\ bitset_contains_all(o, bitset) <=> members \subseteq V
        /\ bitset_union_count(bitset, o) = Cardinality(members \cup V)
        /\ bitset_intersection_count(bitset, o) = Cardinality(members \cap V)
        /\ bitset_difference_count(bitset, o) = Cardinality(members \ V)
        /\ bitset_symmetric_difference_count(bitset, o) = Cardinality(SymDiff(members, V))

=============================================================================
