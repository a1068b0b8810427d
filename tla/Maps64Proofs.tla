--------------------------- MODULE Maps64Proofs ---------------------------
(***************************************************************************)
(* What any sequence of calls on two Roaring64Maps keeps, for all numbers  *)
(* of high and of low halves: the maps hold the values that the calls      *)
(* document, only the calls with 32-bit arguments leave an empty bitmap,   *)
(* and every inner bitmap has the copy-on-write flag of its map.           *)
(***************************************************************************)
EXTENDS Maps64, FoldFacts

Halves == 0..(Highs - 1)
Lowers == 0..uint32_max
Inner == [vals : SUBSET Lowers, cow : BOOLEAN]

\* The well-formed maps.
Maps == [roarings : UNION {[K -> Inner] : K \in SUBSET Halves}, copyOnWrite : BOOLEAN]

Follows(m) == \A k \in Keys(m) : m.roarings[k].cow = m.copyOnWrite
ZeroOnly(m) == \A k \in Keys(m) : Vals(m, k) = {} => k = 0

\* All copy-on-write flags in a map.
Flags(m) == {m.copyOnWrite} \cup {m.roarings[k].cow : k \in Keys(m)}

\* r comes from m without a flag that m does not have, and without an inner
\* bitmap that is empty where none was, but at key 0.
Close(m, r) ==
  /\ r \in Maps
  /\ r.copyOnWrite = m.copyOnWrite
  /\ Flags(r) \subseteq Flags(m)
  /\ \A k \in Keys(r) : Vals(r, k) = {} => k = 0 \/ (k \in Keys(m) /\ Vals(m, k) = {})

-----------------------------------------------------------------------------
(* Maps and halves.                                                        *)

\* The constants and the sets of halves.
LEMMA Bounds ==
  /\ Highs \in Nat \ {0} /\ Lows \in Nat \ {0}
  /\ 0 \in Halves /\ Halves \subseteq Nat
  /\ Lowers \subseteq Nat /\ 0 \in Lowers /\ uint32_max \in Lowers
  /\ Lowers = 0..(Lows - 1)
  BY HalvesAssumption DEF Halves, Lowers, uint32_max

\* The parts of a well-formed map.
LEMMA MapParts ==
  ASSUME NEW m \in Maps
  PROVE  /\ Keys(m) \subseteq Halves
         /\ m.roarings \in [Keys(m) -> Inner]
         /\ m.copyOnWrite \in BOOLEAN
         /\ \A k \in Keys(m) : Vals(m, k) \in SUBSET Lowers /\ m.roarings[k].cow \in BOOLEAN
  BY DEF Maps, Keys, Vals, Inner

\* A map is well formed when its keys, inner bitmaps and flag are.
LEMMA MakesMap ==
  ASSUME NEW K \in SUBSET Halves, NEW r \in [K -> Inner], NEW c \in BOOLEAN
  PROVE  [roarings |-> r, copyOnWrite |-> c] \in Maps
  BY DEF Maps

\* The same for a map that gets other inner bitmaps.
LEMMA NewRoarings ==
  ASSUME NEW m \in Maps, NEW K \in SUBSET Halves, NEW r \in [K -> Inner]
  PROVE  LET p == [m EXCEPT !.roarings = r]
         IN  p \in Maps /\ p.roarings = r /\ Keys(p) = K /\ p.copyOnWrite = m.copyOnWrite
<1>1. [m EXCEPT !.roarings = r] = [roarings |-> r, copyOnWrite |-> m.copyOnWrite]
  BY DEF Maps
<1>2. m.copyOnWrite \in BOOLEAN
  BY DEF Maps
<1> QED
  BY <1>1, <1>2, MakesMap DEF Keys

\* Put changes one key only.
LEMMA PutFacts ==
  ASSUME NEW m \in Maps, NEW k \in Halves, NEW i \in Inner
  PROVE  LET p == Put(m, k, i)
         IN  /\ p \in Maps
             /\ Keys(p) = Keys(m) \cup {k}
             /\ p.roarings[k] = i
             /\ \A j \in Keys(m) \ {k} : p.roarings[j] = m.roarings[j]
             /\ p.copyOnWrite = m.copyOnWrite
<1> DEFINE r == [x \in Keys(m) \cup {k} |-> IF x = k THEN i ELSE m.roarings[x]]
<1>1. Keys(m) \cup {k} \in SUBSET Halves
  BY MapParts
<1>2. r \in [Keys(m) \cup {k} -> Inner]
  BY MapParts
<1>3. Put(m, k, i) = [m EXCEPT !.roarings = r]
  BY DEF Put, Maps, Keys
<1> HIDE DEF r
<1>4. Put(m, k, i) \in Maps /\ Put(m, k, i).roarings = r /\ Keys(Put(m, k, i)) = Keys(m) \cup {k}
        /\ Put(m, k, i).copyOnWrite = m.copyOnWrite
  BY <1>1, <1>2, <1>3, NewRoarings
<1> QED
  BY <1>4 DEF r

\* Without drops keys and leaves the rest.
LEMMA WithoutFacts ==
  ASSUME NEW m \in Maps, NEW K
  PROVE  LET p == Without(m, K)
         IN  /\ p \in Maps
             /\ Keys(p) = Keys(m) \ K
             /\ \A j \in Keys(m) \ K : p.roarings[j] = m.roarings[j]
             /\ p.copyOnWrite = m.copyOnWrite
<1> DEFINE r == [x \in Keys(m) \ K |-> m.roarings[x]]
<1>1. Keys(m) \ K \in SUBSET Halves
  BY MapParts
<1>2. r \in [Keys(m) \ K -> Inner]
  BY MapParts
<1>3. Without(m, K) = [m EXCEPT !.roarings = r]
  BY DEF Without, Maps, Keys
<1> HIDE DEF r
<1>4. LET p == Without(m, K)
      IN  p \in Maps /\ p.roarings = r /\ Keys(p) = Keys(m) \ K /\ p.copyOnWrite = m.copyOnWrite
  BY <1>1, <1>2, <1>3, NewRoarings
<1> QED
  BY <1>4 DEF r

\* SetVals changes the values at one key, and no flag.
LEMMA SetValsFacts ==
  ASSUME NEW m \in Maps, NEW k \in Keys(m), NEW vals \in SUBSET Lowers
  PROVE  LET p == SetVals(m, k, vals)
         IN  /\ p \in Maps
             /\ Keys(p) = Keys(m)
             /\ Vals(p, k) = vals /\ p.roarings[k].cow = m.roarings[k].cow
             /\ \A j \in Keys(m) \ {k} : p.roarings[j] = m.roarings[j]
             /\ p.copyOnWrite = m.copyOnWrite
<1> DEFINE r == [m.roarings EXCEPT ![k] = [m.roarings[k] EXCEPT !.vals = vals]]
<1>1. m.roarings \in [Keys(m) -> Inner] /\ Keys(m) \in SUBSET Halves
  BY MapParts
<1>2. m.roarings[k] \in Inner
  BY <1>1
<1>3. [m.roarings[k] EXCEPT !.vals = vals] \in Inner
  BY <1>2 DEF Inner
<1>4. r \in [Keys(m) -> Inner]
  BY <1>1, <1>3
<1>5. SetVals(m, k, vals) = [m EXCEPT !.roarings = r]
  BY DEF SetVals, Maps
<1>6. /\ r[k].vals = vals /\ r[k].cow = m.roarings[k].cow
      /\ \A j \in Keys(m) \ {k} : r[j] = m.roarings[j]
  BY <1>1, <1>2 DEF Inner
<1> HIDE DEF r
<1>7. LET p == SetVals(m, k, vals)
      IN  p \in Maps /\ p.roarings = r /\ Keys(p) = Keys(m) /\ p.copyOnWrite = m.copyOnWrite
  BY <1>1, <1>4, <1>5, NewRoarings
<1> QED
  BY <1>6, <1>7 DEF Vals

\* eraseIfEmpty drops at most the key it is given.
LEMMA EraseFacts ==
  ASSUME NEW m \in Maps, NEW k \in Keys(m)
  PROVE  LET p == eraseIfEmpty(m, k)
         IN  /\ p \in Maps
             /\ Keys(p) = IF Vals(m, k) = {} THEN Keys(m) \ {k} ELSE Keys(m)
             /\ \A j \in Keys(p) : p.roarings[j] = m.roarings[j]
             /\ p.copyOnWrite = m.copyOnWrite
<1>1. CASE Vals(m, k) = {}
  <2>1. eraseIfEmpty(m, k) = Without(m, {k})
    BY <1>1 DEF eraseIfEmpty
  <2> QED
    BY <1>1, <2>1, WithoutFacts
<1>2. CASE Vals(m, k) # {}
  <2>1. eraseIfEmpty(m, k) = m
    BY <1>2 DEF eraseIfEmpty
  <2> QED
    BY <1>2, <2>1
<1> QED
  BY <1>1, <1>2

\* An inner bitmap that gets other values and is erased when it has none.
LEMMA CutFacts ==
  ASSUME NEW m \in Maps, NEW k \in Keys(m), NEW vals \in SUBSET Lowers
  PROVE  LET p == eraseIfEmpty(SetVals(m, k, vals), k)
         IN  /\ p \in Maps
             /\ Keys(p) = IF vals = {} THEN Keys(m) \ {k} ELSE Keys(m)
             /\ vals # {} => Vals(p, k) = vals /\ p.roarings[k].cow = m.roarings[k].cow
             /\ \A j \in Keys(p) \ {k} : p.roarings[j] = m.roarings[j]
             /\ p.copyOnWrite = m.copyOnWrite
<1> DEFINE s == SetVals(m, k, vals)
           p == eraseIfEmpty(s, k)
<1>1. /\ s \in Maps /\ Keys(s) = Keys(m) /\ s.copyOnWrite = m.copyOnWrite
      /\ Vals(s, k) = vals /\ s.roarings[k].cow = m.roarings[k].cow
      /\ \A j \in Keys(m) \ {k} : s.roarings[j] = m.roarings[j]
  BY SetValsFacts
<1> HIDE DEF s
<1>2. /\ p \in Maps
      /\ Keys(p) = IF Vals(s, k) = {} THEN Keys(s) \ {k} ELSE Keys(s)
      /\ \A j \in Keys(p) : p.roarings[j] = s.roarings[j]
      /\ p.copyOnWrite = s.copyOnWrite
  BY <1>1, EraseFacts
<1> HIDE DEF p
<1>3. vals # {} => Vals(p, k) = vals /\ p.roarings[k].cow = m.roarings[k].cow
  BY <1>1, <1>2 DEF Vals
<1>4. \A j \in Keys(p) \ {k} : p.roarings[j] = m.roarings[j]
  BY <1>1, <1>2
<1>5. Keys(p) = IF vals = {} THEN Keys(m) \ {k} ELSE Keys(m)
  BY <1>1, <1>2
<1> QED
  BY <1>1, <1>2, <1>3, <1>4, <1>5 DEF p, s

\* ensureRangePopulated adds empty bitmaps with the flag of the map.
LEMMA PopulatedFacts ==
  ASSUME NEW m \in Maps, NEW lo \in Halves, NEW hi \in Halves
  PROVE  LET p == ensureRangePopulated(m, lo, hi)
         IN  /\ p \in Maps
             /\ Keys(p) = Keys(m) \cup (lo..hi)
             /\ \A j \in Keys(m) : p.roarings[j] = m.roarings[j]
             /\ \A j \in (lo..hi) \ Keys(m) : p.roarings[j] = [vals |-> {}, cow |-> m.copyOnWrite]
             /\ p.copyOnWrite = m.copyOnWrite
<1> DEFINE K == Keys(m) \cup (lo..hi)
           r == [k \in K |-> IF k \in Keys(m) THEN m.roarings[k] ELSE [vals |-> {}, cow |-> m.copyOnWrite]]
<1>1. K \in SUBSET Halves
  BY MapParts, Bounds DEF Halves
<1>2. r \in [K -> Inner]
  BY MapParts DEF Inner
<1>3. ensureRangePopulated(m, lo, hi) = [m EXCEPT !.roarings = r]
  BY DEF ensureRangePopulated, Maps, Keys
<1>4. \A j \in lo..hi : j \in K
  OBVIOUS
<1> HIDE DEF r
<1>5. LET p == ensureRangePopulated(m, lo, hi)
      IN  p \in Maps /\ p.roarings = r /\ Keys(p) = K /\ p.copyOnWrite = m.copyOnWrite
  BY <1>1, <1>2, <1>3, NewRoarings
<1> QED
  BY <1>4, <1>5 DEF r

\* Closeness key by key.
LEMMA CloseBy ==
  ASSUME NEW m \in Maps, NEW r \in Maps, r.copyOnWrite = m.copyOnWrite,
         \A k \in Keys(r) : r.roarings[k].cow \in Flags(m),
         \A k \in Keys(r) : Vals(r, k) = {} => k = 0 \/ (k \in Keys(m) /\ Vals(m, k) = {})
  PROVE  Close(m, r)
<1>1. Flags(r) \subseteq Flags(m)
  BY DEF Flags
<1> QED
  BY <1>1 DEF Close

\* The same inner bitmaps as before, or some of them.
LEMMA CloseIfFewer ==
  ASSUME NEW m \in Maps, NEW r \in Maps, r.copyOnWrite = m.copyOnWrite,
         Keys(r) \subseteq Keys(m), \A k \in Keys(r) : r.roarings[k] = m.roarings[k]
  PROVE  Close(m, r)
<1>1. \A k \in Keys(r) : r.roarings[k].cow \in Flags(m)
  BY DEF Flags
<1>2. \A k \in Keys(r) : Vals(r, k) = {} => k = 0 \/ (k \in Keys(m) /\ Vals(m, k) = {})
  BY DEF Vals
<1> QED
  BY <1>1, <1>2, CloseBy

\* One close change after the other.
LEMMA CloseIsTransitive ==
  ASSUME NEW m \in Maps, NEW p, NEW r, Close(m, p), Close(p, r)
  PROVE  Close(m, r)
  BY DEF Close

-----------------------------------------------------------------------------
(* Values and halves.                                                      *)

\* A value is made of its halves (highBytes, lowBytes, uniteBytes).
LEMMA Halved ==
  ASSUME NEW x \in Values
  PROVE  highBytes(x) \in Halves /\ lowBytes(x) \in Lowers /\ uniteBytes(highBytes(x), lowBytes(x)) = x
<1>1. Highs \in Nat \ {0} /\ Lows \in Nat \ {0} /\ x \in 0..(Highs * Lows - 1)
  BY Bounds DEF Values
<1>2. x \in Nat
  BY <1>1
<1>3. x \div Lows \in 0..(Highs - 1)
  BY <1>1, OutOfProduct
<1>4. x % Lows \in 0..(Lows - 1) /\ (x \div Lows) * Lows + (x % Lows) = x
  BY <1>1, <1>2, Divided
<1> QED
  BY <1>3, <1>4 DEF highBytes, lowBytes, uniteBytes, Halves, Lowers, uint32_max

\* And two halves make a value.
LEMMA United ==
  ASSUME NEW h \in Halves, NEW l \in Lowers
  PROVE  /\ uniteBytes(h, l) \in Values
         /\ highBytes(uniteBytes(h, l)) = h
         /\ lowBytes(uniteBytes(h, l)) = l
<1>1. Highs \in Nat \ {0} /\ Lows \in Nat \ {0} /\ h \in 0..(Highs - 1) /\ l \in 0..(Lows - 1) /\ h \in Nat
  BY Bounds DEF Halves, Lowers, uint32_max
<1>2. h * Lows + l \in 0..(Highs * Lows - 1)
  BY <1>1, InProduct
<1>3. (h * Lows + l) \div Lows = h /\ (h * Lows + l) % Lows = l
  BY <1>1, ToHalves
<1> QED
  BY <1>2, <1>3 DEF highBytes, lowBytes, uniteBytes, Values

\* The order of values is that of their halves.
LEMMA InOrder ==
  ASSUME NEW h \in Halves, NEW l \in Lowers, NEW x \in Values
  PROVE  /\ x <= uniteBytes(h, l) <=> highBytes(x) < h \/ (highBytes(x) = h /\ lowBytes(x) <= l)
         /\ uniteBytes(h, l) <= x <=> h < highBytes(x) \/ (h = highBytes(x) /\ l <= lowBytes(x))
<1> DEFINE p == highBytes(x)
           v == lowBytes(x)
<1>1. p \in Halves /\ v \in Lowers /\ p * Lows + v = x
  BY Halved DEF uniteBytes
<1>2. Lows \in Nat \ {0} /\ h \in Nat /\ p \in Nat /\ l \in 0..(Lows - 1) /\ v \in 0..(Lows - 1)
  BY <1>1, Bounds DEF Halves, Lowers, uint32_max
<1> HIDE DEF p, v
<1>3. p * Lows + v <= h * Lows + l <=> p < h \/ (p = h /\ v <= l)
  BY <1>2, UniqueDivision, OrderedDivision
<1>4. h * Lows + l <= p * Lows + v <=> h < p \/ (h = p /\ l <= v)
  BY <1>2, UniqueDivision, OrderedDivision
<1> QED
  BY <1>1, <1>3, <1>4 DEF uniteBytes, p, v

\* A value is in a map when its low half is in the inner bitmap of its high half.
LEMMA MemberHalves ==
  ASSUME NEW m \in Maps, NEW h \in Halves, NEW l \in Lowers
  PROVE  uniteBytes(h, l) \in Members(m) <=> l \in ValsOrNone(m, h)
<1>1. ASSUME l \in ValsOrNone(m, h) PROVE uniteBytes(h, l) \in Members(m)
  BY <1>1 DEF Members, ValsOrNone
<1>2. ASSUME uniteBytes(h, l) \in Members(m) PROVE l \in ValsOrNone(m, h)
  <2>1. PICK k \in Keys(m) : \E v \in Vals(m, k) : uniteBytes(h, l) = uniteBytes(k, v)
    BY <1>2 DEF Members
  <2>2. PICK v \in Vals(m, k) : uniteBytes(h, l) = uniteBytes(k, v)
    BY <2>1
  <2>3. k \in Halves /\ v \in Lowers
    BY MapParts
  <2>4. h = k /\ l = v
    BY <2>2, <2>3, United
  <2> QED
    BY <2>4 DEF ValsOrNone
<1> QED
  BY <1>1, <1>2

\* A map holds values only.
LEMMA MembersAreValues ==
  ASSUME NEW m \in Maps
  PROVE  Members(m) \in SUBSET Values
<1>1. ASSUME NEW k \in Keys(m), NEW v \in Vals(m, k) PROVE uniteBytes(k, v) \in Values
  BY MapParts, United
<1> QED
  BY <1>1 DEF Members

\* A set of values is known from the halves of its elements.
LEMMA SameHalves ==
  ASSUME NEW S \in SUBSET Values, NEW T \in SUBSET Values,
         \A h \in Halves, l \in Lowers : uniteBytes(h, l) \in S <=> uniteBytes(h, l) \in T
  PROVE  S = T
<1>1. ASSUME NEW x \in Values PROVE x \in S <=> x \in T
  BY Halved
<1> QED
  BY <1>1

\* The members of a map, from what each inner bitmap holds.
LEMMA MembersBy ==
  ASSUME NEW m \in Maps, NEW S \in SUBSET Values,
         \A h \in Halves, l \in Lowers : l \in ValsOrNone(m, h) <=> uniteBytes(h, l) \in S
  PROVE  Members(m) = S
  BY MembersAreValues, MemberHalves, SameHalves

-----------------------------------------------------------------------------
(* The calls that change one inner bitmap.                                 *)

\* r is m with the values of S at key k, and erased or not.
OneKeyChange(m, r, k, S) ==
  /\ r \in Maps
  /\ r.copyOnWrite = m.copyOnWrite
  /\ Keys(r) \ {k} = Keys(m) \ {k}
  /\ \A j \in Keys(r) \ {k} : r.roarings[j] = m.roarings[j]
  /\ k \in Keys(r) =>
       /\ r.roarings[k].cow = m.copyOnWrite \/ (k \in Keys(m) /\ r.roarings[k].cow = m.roarings[k].cow)
       /\ Vals(r, k) = {} => k = 0 \/ (k \in Keys(m) /\ Vals(m, k) = {})
  /\ \A l \in Lowers : l \in ValsOrNone(r, k) <=> uniteBytes(k, l) \in S
  /\ \A h \in Halves \ {k}, l \in Lowers : uniteBytes(h, l) \in S <=> uniteBytes(h, l) \in Members(m)

\* A change of one inner bitmap is close, and its effect is that on the halves of one key.
LEMMA OneKey ==
  ASSUME NEW m \in Maps, NEW r, NEW k \in Halves, NEW S \in SUBSET Values, OneKeyChange(m, r, k, S)
  PROVE  Close(m, r) /\ Members(r) = S
<1> USE DEF OneKeyChange
<1>1. Close(m, r)
  <2>1. ASSUME NEW j \in Keys(r) PROVE r.roarings[j].cow \in Flags(m)
    <3>1. r.roarings[j].cow = m.copyOnWrite \/ (j \in Keys(m) /\ r.roarings[j].cow = m.roarings[j].cow)
      OBVIOUS
    <3> QED
      BY <3>1 DEF Flags
  <2>2. \A j \in Keys(r) : Vals(r, j) = {} => j = 0 \/ (j \in Keys(m) /\ Vals(m, j) = {})
    BY DEF Vals
  <2> QED
    BY <2>1, <2>2, CloseBy
<1>2. ASSUME NEW h \in Halves, NEW l \in Lowers, h # k
      PROVE  l \in ValsOrNone(r, h) <=> uniteBytes(h, l) \in S
  <2>1. ValsOrNone(r, h) = ValsOrNone(m, h)
    BY <1>2 DEF ValsOrNone, Vals
  <2> QED
    BY <1>2, <2>1, MemberHalves
<1>3. \A h \in Halves, l \in Lowers : l \in ValsOrNone(r, h) <=> uniteBytes(h, l) \in S
  BY <1>2
<1> QED
  BY <1>1, <1>3, MembersBy

\* S is m with other values at key k.
Replaces(m, k, vals, S) ==
  /\ vals \in SUBSET Lowers
  /\ S \in SUBSET Values
  /\ \A l \in Lowers : l \in vals <=> uniteBytes(k, l) \in S
  /\ \A h \in Halves \ {k}, l \in Lowers : uniteBytes(h, l) \in S <=> uniteBytes(h, l) \in Members(m)

\* An inner bitmap found or created, and given values.
LEMMA InsertCorrect ==
  ASSUME NEW m \in Maps, NEW k \in Halves, NEW vals, NEW S, Replaces(m, k, vals, S),
         vals # {} \/ k = 0
  PROVE  LET p == lookupOrCreateInner(m, k)
             r == SetVals(p, k, vals)
         IN  Close(m, r) /\ Members(r) = S /\ Vals(p, k) = ValsOrNone(m, k)
<1> DEFINE i == [vals |-> ValsOrNone(m, k), cow |-> m.copyOnWrite]
           p == lookupOrCreateInner(m, k)
           r == SetVals(p, k, vals)
<1> USE DEF Replaces
<1>1. i \in Inner
  <2>1. m.copyOnWrite \in BOOLEAN /\ i.vals \in SUBSET Lowers
    BY MapParts DEF ValsOrNone
  <2> QED
    BY <2>1 DEF Inner
<1>2. i.vals = ValsOrNone(m, k) /\ i.cow = m.copyOnWrite
  OBVIOUS
<1>3. p = Put(m, k, i)
  BY DEF lookupOrCreateInner, ValsOrNone
<1> HIDE DEF i, p
<1>4. /\ p \in Maps /\ Keys(p) = Keys(m) \cup {k} /\ p.roarings[k] = i
      /\ \A j \in Keys(m) \ {k} : p.roarings[j] = m.roarings[j]
      /\ p.copyOnWrite = m.copyOnWrite
  BY <1>1, <1>3, PutFacts
<1>5. Vals(p, k) = ValsOrNone(m, k) /\ p.roarings[k].cow = m.copyOnWrite
  BY <1>2, <1>4 DEF Vals
<1>6. /\ r \in Maps /\ Keys(r) = Keys(p) /\ r.copyOnWrite = p.copyOnWrite
      /\ Vals(r, k) = vals /\ r.roarings[k].cow = p.roarings[k].cow
      /\ \A j \in Keys(p) \ {k} : r.roarings[j] = p.roarings[j]
  BY <1>4, SetValsFacts
<1> HIDE DEF r
<1>7. ValsOrNone(r, k) = vals /\ r.roarings[k].cow = m.copyOnWrite
  BY <1>4, <1>5, <1>6 DEF ValsOrNone
<1>8. Keys(r) \ {k} = Keys(m) \ {k} /\ \A j \in Keys(r) \ {k} : r.roarings[j] = m.roarings[j]
  BY <1>4, <1>6
<1>9. OneKeyChange(m, r, k, S)
  BY <1>4, <1>6, <1>7, <1>8 DEF OneKeyChange
<1>10. Close(m, r) /\ Members(r) = S
  BY <1>9, OneKey
<1> QED
  BY <1>5, <1>10 DEF p, r

\* add: the inner bitmap is found or created, and gets the value.
LEMMA AddCorrect ==
  ASSUME NEW m \in Maps, NEW x \in Values
  PROVE  Close(m, add(m, x)) /\ Members(add(m, x)) = Members(m) \cup {x}
<1> DEFINE k == highBytes(x)
           vals == ValsOrNone(m, k) \cup {lowBytes(x)}
           S == Members(m) \cup {x}
<1>1. k \in Halves /\ lowBytes(x) \in Lowers /\ uniteBytes(k, lowBytes(x)) = x
  BY Halved
<1>2. vals \in SUBSET Lowers /\ S \in SUBSET Values
  BY <1>1, MapParts, MembersAreValues DEF ValsOrNone
<1>3. ASSUME NEW l \in Lowers PROVE l \in vals <=> uniteBytes(k, l) \in S
  <2>1. l = lowBytes(x) <=> uniteBytes(k, l) = x
    BY <1>1, United
  <2>2. uniteBytes(k, l) \in Members(m) <=> l \in ValsOrNone(m, k)
    BY <1>1, MemberHalves
  <2> QED
    BY <2>1, <2>2
<1>4. \A h \in Halves \ {k}, l \in Lowers : uniteBytes(h, l) \in S <=> uniteBytes(h, l) \in Members(m)
  BY <1>1, United
<1>5. Replaces(m, k, vals, S)
  BY <1>2, <1>3, <1>4 DEF Replaces
<1>6. vals # {}
  OBVIOUS
<1>7. add(m, x) = SetVals(lookupOrCreateInner(m, k), k, Vals(lookupOrCreateInner(m, k), k) \cup {lowBytes(x)})
  BY DEF add
<1> HIDE DEF k, S
<1>8. Vals(lookupOrCreateInner(m, k), k) = ValsOrNone(m, k)
  BY <1>1, <1>5, <1>6, InsertCorrect
<1>9. add(m, x) = SetVals(lookupOrCreateInner(m, k), k, vals)
  BY <1>7, <1>8
<1> HIDE DEF vals
<1>10. Close(m, add(m, x)) /\ Members(add(m, x)) = S
  BY <1>1, <1>5, <1>6, <1>9, InsertCorrect
<1> QED
  BY <1>10 DEF S

\* An inner bitmap cut down, and erased when nothing is left.
LEMMA CutCorrect ==
  ASSUME NEW m \in Maps, NEW k \in Keys(m), NEW vals, NEW S, Replaces(m, k, vals, S)
  PROVE  LET r == eraseIfEmpty(SetVals(m, k, vals), k) IN Close(m, r) /\ Members(r) = S
<1> DEFINE r == eraseIfEmpty(SetVals(m, k, vals), k)
<1> USE DEF Replaces
<1>1. /\ r \in Maps
      /\ Keys(r) = IF vals = {} THEN Keys(m) \ {k} ELSE Keys(m)
      /\ vals # {} => Vals(r, k) = vals /\ r.roarings[k].cow = m.roarings[k].cow
      /\ \A j \in Keys(r) \ {k} : r.roarings[j] = m.roarings[j]
      /\ r.copyOnWrite = m.copyOnWrite
  BY CutFacts
<1> HIDE DEF r
<1>2. k \in Halves
  BY MapParts
<1>3. ValsOrNone(r, k) = vals
  BY <1>1 DEF ValsOrNone
<1>4. k \in Keys(r) => Vals(r, k) # {} /\ r.roarings[k].cow = m.roarings[k].cow
  BY <1>1
<1>5. Keys(r) \ {k} = Keys(m) \ {k}
  BY <1>1
<1>6. OneKeyChange(m, r, k, S)
  BY <1>1, <1>3, <1>4, <1>5 DEF OneKeyChange
<1>7. Close(m, r) /\ Members(r) = S
  BY <1>2, <1>6, OneKey
<1> QED
  BY <1>7 DEF r

\* remove: an inner bitmap without values is erased.
LEMMA RemoveCorrect ==
  ASSUME NEW m \in Maps, NEW x \in Values
  PROVE  Close(m, remove(m, x)) /\ Members(remove(m, x)) = Members(m) \ {x}
<1> DEFINE k == highBytes(x)
           vals == Vals(m, k) \ {lowBytes(x)}
<1>1. k \in Halves /\ lowBytes(x) \in Lowers /\ uniteBytes(k, lowBytes(x)) = x
  BY Halved
<1>2. Members(m) \ {x} \in SUBSET Values
  BY MembersAreValues
<1>3. CASE k \notin Keys(m)
  <2>1. remove(m, x) = m
    BY <1>3 DEF remove
  <2>2. x \notin Members(m)
    BY <1>1, <1>3, MemberHalves DEF ValsOrNone
  <2> QED
    BY <2>1, <2>2, CloseIfFewer
<1>4. CASE k \in Keys(m)
  <2>1. remove(m, x) = eraseIfEmpty(SetVals(m, k, vals), k)
    BY <1>4 DEF remove
  <2>2. vals \in SUBSET Lowers
    BY <1>4, MapParts
  <2>3. ASSUME NEW l \in Lowers PROVE l \in vals <=> uniteBytes(k, l) \in Members(m) \ {x}
    <3>1. l = lowBytes(x) <=> uniteBytes(k, l) = x
      BY <1>1, United
    <3>2. uniteBytes(k, l) \in Members(m) <=> l \in Vals(m, k)
      BY <1>1, <1>4, MemberHalves DEF ValsOrNone
    <3> QED
      BY <3>1, <3>2
  <2>4. \A h \in Halves \ {k}, l \in Lowers :
          uniteBytes(h, l) \in Members(m) \ {x} <=> uniteBytes(h, l) \in Members(m)
    BY <1>1, United
  <2>5. Replaces(m, k, vals, Members(m) \ {x})
    BY <1>2, <2>2, <2>3, <2>4 DEF Replaces
  <2> HIDE DEF k, vals
  <2> QED
    BY <1>4, <2>1, <2>5, CutCorrect
<1> QED
  BY <1>3, <1>4

\* removeChecked does the same, and nothing to a value that is not there.
LEMMA RemoveCheckedCorrect ==
  ASSUME NEW m \in Maps, NEW x \in Values
  PROVE  Close(m, removeChecked(m, x)) /\ Members(removeChecked(m, x)) = Members(m) \ {x}
<1>1. CASE highBytes(x) \in Keys(m) /\ lowBytes(x) \in Vals(m, highBytes(x))
  BY <1>1, RemoveCorrect DEF removeChecked
<1>2. CASE ~(highBytes(x) \in Keys(m) /\ lowBytes(x) \in Vals(m, highBytes(x)))
  <2>1. removeChecked(m, x) = m
    BY <1>2 DEF removeChecked
  <2>2. lowBytes(x) \notin ValsOrNone(m, highBytes(x))
    BY <1>2 DEF ValsOrNone
  <2>3. x \notin Members(m)
    BY <2>2, Halved, MemberHalves
  <2> QED
    BY <2>1, <2>3, CloseIfFewer
<1> QED
  BY <1>1, <1>2

-----------------------------------------------------------------------------
(* Ranges.                                                                 *)

\* A value is in a range if its halves are.
LEMMA InRange ==
  ASSUME NEW h \in Halves, NEW l \in Lowers, NEW min \in Values, NEW max \in Values
  PROVE  uniteBytes(h, l) \in min..max <=>
           /\ highBytes(min) < h \/ (highBytes(min) = h /\ lowBytes(min) <= l)
           /\ h < highBytes(max) \/ (h = highBytes(max) /\ l <= lowBytes(max))
<1>1. uniteBytes(h, l) \in Int /\ min \in Int /\ max \in Int
  BY United, Bounds DEF Values
<1> QED
  BY <1>1, InOrder

\* A range between two values holds values only.
LEMMA RangesAreValues ==
  ASSUME NEW min \in Values, NEW max \in Values
  PROVE  min..max \in SUBSET Values
<1>1. Highs * Lows \in Int
  BY Bounds
<1> DEFINE p == Highs * Lows
<1>2. min \in 0..(p - 1) /\ max \in 0..(p - 1) /\ p \in Int
  BY <1>1 DEF Values
<1> HIDE DEF p
<1>3. min..max \in SUBSET (0..(p - 1))
  BY <1>2
<1> QED
  BY <1>3 DEF p, Values

\* The 32-bit values are those with high half 0.
LEMMA Values32 ==
  ASSUME NEW x \in Lowers
  PROVE  x \in Values /\ highBytes(x) = 0 /\ lowBytes(x) = x
<1>1. uniteBytes(0, x) = x
  BY Bounds DEF uniteBytes
<1> QED
  BY <1>1, Bounds, United

\* A range of 32-bit values lies in the inner bitmap of key 0.
LEMMA InRange32 ==
  ASSUME NEW h \in Halves, NEW l \in Lowers, NEW min \in Lowers, NEW max \in Lowers
  PROVE  uniteBytes(h, l) \in min..max <=> h = 0 /\ l \in min..max
<1>1. h \in Nat /\ l \in Nat /\ min \in Nat /\ max \in Nat
  BY Bounds
<1>2. uniteBytes(h, l) \in min..max <=>
        /\ 0 < h \/ (0 = h /\ min <= l)
        /\ h < 0 \/ (h = 0 /\ l <= max)
  BY InRange, Values32
<1> QED
  BY <1>1, <1>2

\* addRangeClosed for 32-bit arguments.
LEMMA AddRange32Correct ==
  ASSUME NEW m \in Maps, NEW min \in Lowers, NEW max \in Lowers
  PROVE  /\ Close(m, addRangeClosed32(m, min, max))
         /\ Members(addRangeClosed32(m, min, max)) = Members(m) \cup (min..max)
<1> DEFINE p == lookupOrCreateInner(m, 0)
           vals == ValsOrNone(m, 0) \cup (min..max)
           S == Members(m) \cup (min..max)
<1>1. min..max \in SUBSET Lowers
  BY Bounds DEF Lowers
<1>2. vals \in SUBSET Lowers /\ S \in SUBSET Values
  BY <1>1, MapParts, MembersAreValues, RangesAreValues, Values32 DEF ValsOrNone
<1>3. ASSUME NEW l \in Lowers PROVE l \in vals <=> uniteBytes(0, l) \in S
  BY Bounds, InRange32, MemberHalves
<1>4. \A h \in Halves \ {0}, l \in Lowers : uniteBytes(h, l) \in S <=> uniteBytes(h, l) \in Members(m)
  BY InRange32
<1>5. Replaces(m, 0, vals, S)
  BY <1>2, <1>3, <1>4 DEF Replaces
<1>6. addRangeClosed32(m, min, max) = SetVals(p, 0, Vals(p, 0) \cup (min..max))
  BY DEF addRangeClosed32
<1> HIDE DEF p, S
<1>7. Vals(p, 0) = ValsOrNone(m, 0)
  BY <1>5, Bounds, InsertCorrect DEF p
<1>8. addRangeClosed32(m, min, max) = SetVals(p, 0, vals)
  BY <1>6, <1>7
<1> HIDE DEF vals
<1>9. Close(m, addRangeClosed32(m, min, max)) /\ Members(addRangeClosed32(m, min, max)) = S
  BY <1>5, <1>8, Bounds, InsertCorrect DEF p
<1> QED
  BY <1>9 DEF S

\* removeRangeClosed for 32-bit arguments.
LEMMA RemoveRange32Correct ==
  ASSUME NEW m \in Maps, NEW min \in Lowers, NEW max \in Lowers
  PROVE  /\ Close(m, removeRangeClosed32(m, min, max))
         /\ Members(removeRangeClosed32(m, min, max)) = Members(m) \ (min..max)
<1> DEFINE vals == Vals(m, 0) \ (min..max)
           S == Members(m) \ (min..max)
<1>1. S \in SUBSET Values
  BY MembersAreValues
<1>2. \A h \in Halves \ {0}, l \in Lowers : uniteBytes(h, l) \in S <=> uniteBytes(h, l) \in Members(m)
  BY InRange32
<1>3. CASE 0 \notin Keys(m)
  <2>1. removeRangeClosed32(m, min, max) = m
    BY <1>3 DEF removeRangeClosed32
  <2>2. ASSUME NEW h \in Halves, NEW l \in Lowers
        PROVE  uniteBytes(h, l) \in Members(m) <=> uniteBytes(h, l) \in S
    <3>1. CASE h = 0
      BY <1>3, <3>1, MemberHalves DEF ValsOrNone
    <3>2. CASE h # 0
      BY <3>2, <1>2
    <3> QED
      BY <3>1, <3>2
  <2>3. Members(m) = S
    BY <1>1, <2>2, MembersAreValues, SameHalves
  <2> QED
    BY <2>1, <2>3, CloseIfFewer
<1>4. CASE 0 \in Keys(m)
  <2>1. removeRangeClosed32(m, min, max) = eraseIfEmpty(SetVals(m, 0, vals), 0)
    BY <1>4 DEF removeRangeClosed32
  <2>2. vals \in SUBSET Lowers
    BY <1>4, MapParts
  <2>3. ASSUME NEW l \in Lowers PROVE l \in vals <=> uniteBytes(0, l) \in S
    BY <1>4, Bounds, InRange32, MemberHalves DEF ValsOrNone
  <2>4. Replaces(m, 0, vals, S)
    BY <1>1, <1>2, <2>2, <2>3 DEF Replaces
  <2> HIDE DEF vals, S
  <2>5. Close(m, removeRangeClosed32(m, min, max)) /\ Members(removeRangeClosed32(m, min, max)) = S
    BY <1>4, <2>1, <2>4, CutCorrect
  <2> QED
    BY <2>5 DEF S
<1> QED
  BY <1>3, <1>4

\* flipClosed for 32-bit arguments.
LEMMA Flip32Correct ==
  ASSUME NEW m \in Maps, NEW min \in Lowers, NEW max \in Lowers
  PROVE  /\ Close(m, flipClosed32(m, min, max))
         /\ Members(flipClosed32(m, min, max)) = SymDiff(Members(m), min..max)
<1> DEFINE p == ensureRangePopulated(m, 0, 0)
           r == flipClosed32(m, min, max)
           vals == SymDiff(Vals(p, 0), min..max)
           S == SymDiff(Members(m), min..max)
<1>1. /\ p \in Maps /\ Keys(p) = Keys(m) \cup {0} /\ p.copyOnWrite = m.copyOnWrite
      /\ \A j \in Keys(m) : p.roarings[j] = m.roarings[j]
      /\ 0 \notin Keys(m) => p.roarings[0] = [vals |-> {}, cow |-> m.copyOnWrite]
  <2>1. 0..0 = {0}
    OBVIOUS
  <2> QED
    BY <2>1, Bounds, PopulatedFacts
<1>2. r = eraseIfEmpty(SetVals(p, 0, vals), 0)
  BY DEF flipClosed32, Flipped
<1> HIDE DEF p
<1>3. \A h \in Halves : ValsOrNone(p, h) = ValsOrNone(m, h)
  BY <1>1 DEF ValsOrNone, Vals
<1>4. Close(m, p)
  <2>1. \A k \in Keys(p) : p.roarings[k].cow \in Flags(m)
    BY <1>1 DEF Flags
  <2>2. \A k \in Keys(p) : Vals(p, k) = {} => k = 0 \/ (k \in Keys(m) /\ Vals(m, k) = {})
    BY <1>1 DEF Vals
  <2> QED
    BY <1>1, <2>1, <2>2, CloseBy
<1>5. Members(p) = Members(m)
  BY <1>1, <1>3, MembersAreValues, MemberHalves, SameHalves
<1>6. min..max \in SUBSET Lowers
  BY Bounds DEF Lowers
<1>7. vals \in SUBSET Lowers /\ S \in SUBSET Values
  BY <1>1, <1>6, MapParts, MembersAreValues, RangesAreValues, Values32 DEF SymDiff
<1>8. ASSUME NEW l \in Lowers PROVE l \in vals <=> uniteBytes(0, l) \in S
  <2>1. uniteBytes(0, l) \in Members(m) <=> l \in Vals(p, 0)
    BY <1>1, <1>5, Bounds, MemberHalves DEF ValsOrNone
  <2>2. uniteBytes(0, l) \in min..max <=> l \in min..max
    BY Bounds, InRange32
  <2> QED
    BY <2>1, <2>2 DEF SymDiff
<1>9. ASSUME NEW h \in Halves \ {0}, NEW l \in Lowers
      PROVE  uniteBytes(h, l) \in S <=> uniteBytes(h, l) \in Members(p)
  BY <1>5, InRange32 DEF SymDiff
<1>10. Replaces(p, 0, vals, S)
  BY <1>7, <1>8, <1>9 DEF Replaces
<1> HIDE DEF vals, S
<1>11. Close(p, r) /\ Members(r) = S
  BY <1>1, <1>2, <1>10, CutCorrect
<1> HIDE DEF r
<1>12. Close(m, r)
  BY <1>4, <1>11, CloseIsTransitive
<1> QED
  BY <1>11, <1>12 DEF r, S

\* The first and the last inner bitmap of a range that is not empty.
LEMMA RangeEnds ==
  ASSUME NEW min \in Values, NEW max \in Values, min <= max
  PROVE  /\ highBytes(min) <= highBytes(max)
         /\ highBytes(min) = highBytes(max) => lowBytes(min) <= lowBytes(max)
<1>1. /\ highBytes(max) \in Halves /\ lowBytes(max) \in Lowers
      /\ uniteBytes(highBytes(max), lowBytes(max)) = max
      /\ highBytes(min) \in Halves /\ lowBytes(min) \in Lowers
  BY Halved
<1>2. highBytes(min) < highBytes(max) \/ (highBytes(min) = highBytes(max) /\ lowBytes(min) <= lowBytes(max))
  BY <1>1, InOrder
<1>3. highBytes(min) \in Nat /\ highBytes(max) \in Nat
  BY <1>1, Bounds
<1> QED
  BY <1>2, <1>3

\* The values of a range that are in one inner bitmap.
Part(k, min, max) ==
  (IF k = highBytes(min) THEN lowBytes(min) ELSE 0)..(IF k = highBytes(max) THEN lowBytes(max) ELSE uint32_max)

\* The part of a range at a key holds the low halves of its values there.
LEMMA PartFacts ==
  ASSUME NEW min \in Values, NEW max \in Values, NEW k \in Halves
  PROVE  /\ Part(k, min, max) \in SUBSET Lowers
         /\ \A l \in Lowers : uniteBytes(k, l) \in min..max <=>
              k \in highBytes(min)..highBytes(max) /\ l \in Part(k, min, max)
<1> DEFINE sh == highBytes(min)
           eh == highBytes(max)
           sl == lowBytes(min)
           el == lowBytes(max)
<1>1. sh \in Halves /\ sl \in Lowers /\ eh \in Halves /\ el \in Lowers
  BY Halved
<1>2. Part(k, min, max) = (IF k = sh THEN sl ELSE 0)..(IF k = eh THEN el ELSE uint32_max)
  BY DEF Part
<1>3. ASSUME NEW l \in Lowers
      PROVE  uniteBytes(k, l) \in min..max <=> (sh < k \/ (sh = k /\ sl <= l)) /\ (k < eh \/ (k = eh /\ l <= el))
  BY InRange
<1> HIDE DEF sh, eh, sl, el
<1>4. Part(k, min, max) \in SUBSET Lowers
  BY <1>1, <1>2, Bounds DEF Lowers
<1>5. ASSUME NEW l \in Lowers
      PROVE  uniteBytes(k, l) \in min..max <=> k \in sh..eh /\ l \in Part(k, min, max)
  <2>1. sh \in Int /\ eh \in Int /\ sl \in Nat /\ el \in Nat /\ k \in Int /\ l \in 0..uint32_max /\ uint32_max \in Nat
    BY <1>1, Bounds DEF Lowers
  <2> QED
    BY <1>2, <1>3, <2>1
<1> QED
  BY <1>4, <1>5 DEF sh, eh

\* addRangeClosed: the first and the last inner bitmap in part, those between in whole.
LEMMA AddRangeCorrect ==
  ASSUME NEW m \in Maps, NEW min \in Values, NEW max \in Values
  PROVE  /\ Close(m, addRangeClosed(m, min, max))
         /\ Members(addRangeClosed(m, min, max)) = Members(m) \cup (min..max)
<1> DEFINE sh == highBytes(min)
           eh == highBytes(max)
           p == ensureRangePopulated(m, sh, eh)
           r == addRangeClosed(m, min, max)
           S == Members(m) \cup (min..max)
<1>1. sh \in Halves /\ lowBytes(min) \in Lowers /\ eh \in Halves /\ lowBytes(max) \in Lowers
  BY Halved
<1>2. S \in SUBSET Values
  BY MembersAreValues, RangesAreValues
<1>3. CASE min > max
  <2>1. r = m
    BY <1>3 DEF addRangeClosed
  <2>2. min..max = {}
    BY <1>3, Bounds DEF Values
  <2> QED
    BY <2>1, <2>2, CloseIfFewer
<1>4. CASE ~(min > max)
  <2>1. min <= max
    BY <1>4, Bounds DEF Values
  <2>2. sh <= eh /\ (sh = eh => lowBytes(min) <= lowBytes(max))
    BY <2>1, RangeEnds
  <2>3. /\ p \in Maps /\ Keys(p) = Keys(m) \cup (sh..eh) /\ p.copyOnWrite = m.copyOnWrite
        /\ \A j \in Keys(m) : p.roarings[j] = m.roarings[j]
        /\ \A j \in (sh..eh) \ Keys(m) : p.roarings[j] = [vals |-> {}, cow |-> m.copyOnWrite]
    BY <1>1, PopulatedFacts
  <2> HIDE DEF p
  <2>4. \A j \in sh..eh : Vals(p, j) = ValsOrNone(m, j) /\ p.roarings[j].cow \in Flags(m)
    BY <2>3 DEF Vals, ValsOrNone, Flags
  <2>5. \A j \in Keys(p) : p.roarings[j] \in Inner
    BY <2>3, MapParts
  <2>6. sh \in Nat /\ eh \in Nat /\ lowBytes(min) \in Nat /\ lowBytes(max) \in Nat
    BY <1>1, Bounds
  <2>7. \E f : /\ f \in [Keys(p) -> Inner]
               /\ r = [p EXCEPT !.roarings = f]
               /\ \A k \in sh..eh : /\ f[k].vals = ValsOrNone(m, k) \cup Part(k, min, max)
                                    /\ f[k].cow \in Flags(m)
               /\ \A k \in Keys(p) \ (sh..eh) : f[k] = m.roarings[k]
    <3>1. CASE sh = eh
      <4> DEFINE vals == Vals(p, sh) \cup (lowBytes(min)..lowBytes(max))
                 f == [p.roarings EXCEPT ![sh] = [p.roarings[sh] EXCEPT !.vals = vals]]
      <4>1. r = SetVals(p, sh, vals)
        BY <1>4, <3>1 DEF addRangeClosed, p
      <4>2. r = [p EXCEPT !.roarings = f]
        BY <4>1, <2>3 DEF SetVals, Maps
      <4>3. sh..eh = {sh} /\ sh \in Keys(p)
        BY <2>3, <2>6, <3>1
      <4>4. Part(sh, min, max) = lowBytes(min)..lowBytes(max)
        BY <3>1 DEF Part
      <4>5. vals \in SUBSET Lowers
        <5>1. Part(sh, min, max) \in SUBSET Lowers
          BY <1>1, PartFacts
        <5> QED
          BY <2>3, <4>3, <4>4, <5>1, MapParts
      <4>6. p.roarings[sh] \in Inner /\ p.roarings \in [Keys(p) -> Inner]
        BY <2>3, <4>3, MapParts
      <4>7. [p.roarings[sh] EXCEPT !.vals = vals] \in Inner
        BY <4>5, <4>6 DEF Inner
      <4>8. f \in [Keys(p) -> Inner]
        BY <4>6, <4>7
      <4>9. f[sh].vals = vals /\ f[sh].cow = p.roarings[sh].cow
        BY <4>3, <4>6 DEF Inner
      <4>10. \A k \in sh..eh : f[k].vals = ValsOrNone(m, k) \cup Part(k, min, max) /\ f[k].cow \in Flags(m)
        BY <2>4, <4>3, <4>4, <4>9
      <4>11. \A k \in Keys(p) \ (sh..eh) : f[k] = m.roarings[k]
        BY <2>3, <4>3, <4>6
      <4> HIDE DEF f
      <4> QED
        BY <4>2, <4>8, <4>10, <4>11
    <3>2. CASE sh # eh
      <4> DEFINE Filled(k) ==
                   IF k = sh THEN [p.roarings[k] EXCEPT !.vals = @ \cup (lowBytes(min)..uint32_max)]
                   ELSE IF k = eh THEN [p.roarings[k] EXCEPT !.vals = @ \cup (0..lowBytes(max))]
                   ELSE [p.roarings[sh + 1] EXCEPT !.vals = 0..uint32_max]
                 f == [k \in Keys(p) |-> IF k \in sh..eh THEN Filled(k) ELSE p.roarings[k]]
      <4>1. r = [p EXCEPT !.roarings = f]
        BY <1>4, <2>3, <3>2 DEF addRangeClosed, p, Keys, Maps
      <4>2. sh + 1 \in sh..eh /\ \A k \in sh..eh : k \in Keys(p) /\ k \in Halves
        <5>1. sh + 1 \in sh..eh
          BY <2>2, <2>6, <3>2
        <5>2. Keys(p) \in SUBSET Halves /\ sh..eh \in SUBSET Keys(p)
          BY <2>3, MapParts
        <5> QED
          BY <5>1, <5>2
      <4>3. ASSUME NEW k \in sh..eh
            PROVE  /\ Filled(k) \in Inner
                   /\ Filled(k).vals = ValsOrNone(m, k) \cup Part(k, min, max)
                   /\ Filled(k).cow \in Flags(m)
        <5>1. Part(k, min, max) \in SUBSET Lowers
          BY <4>2, PartFacts
        <5>2. /\ p.roarings[k] \in Inner /\ p.roarings[sh + 1] \in Inner
              /\ p.roarings[k].vals = ValsOrNone(m, k) /\ p.roarings[k].cow \in Flags(m)
              /\ p.roarings[sh + 1].cow \in Flags(m)
              /\ ValsOrNone(m, k) \in SUBSET Lowers
          <6>1. ValsOrNone(m, k) \in SUBSET Lowers
            BY MapParts DEF ValsOrNone
          <6> QED
            BY <2>4, <2>5, <4>2, <6>1 DEF Vals
        <5>3. Filled(k) = [vals |-> ValsOrNone(m, k) \cup Part(k, min, max), cow |-> Filled(k).cow]
                /\ Filled(k).cow \in Flags(m) /\ Filled(k).cow \in BOOLEAN
          <6>1. CASE k = sh
            BY <3>2, <5>2, <6>1 DEF Part, Inner
          <6>2. CASE k # sh /\ k = eh
            BY <3>2, <5>2, <6>2 DEF Part, Inner
          <6>3. CASE k # sh /\ k # eh
            <7>1. Part(k, min, max) = Lowers
              BY <6>3 DEF Part, Lowers
            <7>2. ValsOrNone(m, k) \cup Part(k, min, max) = 0..uint32_max
              BY <5>2, <7>1 DEF Lowers
            <7> QED
              BY <5>2, <6>3, <7>2 DEF Inner
          <6> QED
            BY <6>1, <6>2, <6>3
        <5>4. ValsOrNone(m, k) \cup Part(k, min, max) \in SUBSET Lowers
          BY <5>1, <5>2
        <5> HIDE DEF Filled
        <5> QED
          BY <5>3, <5>4 DEF Inner
      <4> HIDE DEF Filled
      <4>4. f \in [Keys(p) -> Inner]
        BY <2>5, <4>3
      <4>5. \A k \in sh..eh : f[k].vals = ValsOrNone(m, k) \cup Part(k, min, max) /\ f[k].cow \in Flags(m)
        BY <4>2, <4>3
      <4>6. \A k \in Keys(p) \ (sh..eh) : f[k] = m.roarings[k]
        BY <2>3
      <4> HIDE DEF f
      <4> QED
        BY <4>1, <4>4, <4>5, <4>6
    <3> QED
      BY <3>1, <3>2
  <2>8. PICK f : /\ f \in [Keys(p) -> Inner]
                 /\ r = [p EXCEPT !.roarings = f]
                 /\ \A k \in sh..eh : /\ f[k].vals = ValsOrNone(m, k) \cup Part(k, min, max)
                                      /\ f[k].cow \in Flags(m)
                 /\ \A k \in Keys(p) \ (sh..eh) : f[k] = m.roarings[k]
    BY <2>7
  <2> HIDE DEF r
  <2>9. r \in Maps /\ r.roarings = f /\ Keys(r) = Keys(p) /\ r.copyOnWrite = m.copyOnWrite
    <3>1. Keys(p) \in SUBSET Halves
      BY <2>3, MapParts
    <3> QED
      BY <2>3, <2>8, <3>1, NewRoarings
  <2>10. \A k \in Keys(r) : r.roarings[k].cow \in Flags(m)
    <3>1. \A k \in Keys(p) \ (sh..eh) : k \in Keys(m)
      BY <2>3
    <3>2. ASSUME NEW k \in Keys(m) PROVE m.roarings[k].cow \in Flags(m)
      BY DEF Flags
    <3> QED
      BY <2>8, <2>9, <3>1, <3>2
  <2>11. \A k \in sh..eh : k \in Halves /\ Part(k, min, max) # {}
    <3>1. ASSUME NEW k \in sh..eh PROVE Part(k, min, max) # {}
      <4>1. uint32_max \in Nat /\ lowBytes(min) \in 0..uint32_max /\ lowBytes(max) \in 0..uint32_max
        BY <1>1, Bounds DEF Lowers
      <4>2. (IF k = sh THEN lowBytes(min) ELSE 0) <= (IF k = eh THEN lowBytes(max) ELSE uint32_max)
        BY <2>2, <2>6, <4>1
      <4> QED
        BY <4>1, <4>2 DEF Part
    <3> QED
      BY <2>3, <3>1, MapParts
  <2>12. \A k \in Keys(r) : Vals(r, k) = {} => k = 0 \/ (k \in Keys(m) /\ Vals(m, k) = {})
    BY <2>3, <2>8, <2>9, <2>11 DEF Vals
  <2>13. Close(m, r)
    BY <2>9, <2>10, <2>12, CloseBy
  <2>14. ASSUME NEW h \in Halves, NEW l \in Lowers
         PROVE  l \in ValsOrNone(r, h) <=> uniteBytes(h, l) \in S
    <3>1. uniteBytes(h, l) \in min..max <=> h \in sh..eh /\ l \in Part(h, min, max)
      BY PartFacts
    <3>2. uniteBytes(h, l) \in Members(m) <=> l \in ValsOrNone(m, h)
      BY MemberHalves
    <3>3. CASE h \in sh..eh
      BY <2>3, <2>8, <2>9, <3>1, <3>2, <3>3 DEF ValsOrNone, Vals
    <3>4. CASE h \notin sh..eh
      <4>1. ValsOrNone(r, h) = ValsOrNone(m, h)
        BY <2>3, <2>8, <2>9, <3>4 DEF ValsOrNone, Vals
      <4> QED
        BY <3>1, <3>2, <3>4, <4>1
    <3> QED
      BY <3>3, <3>4
  <2>15. Members(r) = S
    BY <1>2, <2>9, <2>14, MembersBy
  <2> QED
    BY <2>13, <2>15 DEF r
<1> QED
  BY <1>3, <1>4

\* Cutting and erasing, seen bitmap by bitmap.
LEMMA CutPointwise ==
  ASSUME NEW m \in Maps, NEW k \in Keys(m), NEW vals \in SUBSET Lowers
  PROVE  LET r == eraseIfEmpty(SetVals(m, k, vals), k)
         IN  /\ r \in Maps /\ Close(m, r)
             /\ Keys(r) \ {k} = Keys(m) \ {k}
             /\ ValsOrNone(r, k) = vals
             /\ \A h \in Halves \ {k} : ValsOrNone(r, h) = ValsOrNone(m, h)
<1> DEFINE r == eraseIfEmpty(SetVals(m, k, vals), k)
<1>1. /\ r \in Maps
      /\ Keys(r) = IF vals = {} THEN Keys(m) \ {k} ELSE Keys(m)
      /\ vals # {} => Vals(r, k) = vals /\ r.roarings[k].cow = m.roarings[k].cow
      /\ \A j \in Keys(r) \ {k} : r.roarings[j] = m.roarings[j]
      /\ r.copyOnWrite = m.copyOnWrite
  BY CutFacts
<1> HIDE DEF r
<1>2. ValsOrNone(r, k) = vals
  BY <1>1 DEF ValsOrNone
<1>3. \A h \in Halves \ {k} : ValsOrNone(r, h) = ValsOrNone(m, h)
  BY <1>1 DEF ValsOrNone, Vals
<1>4. \A j \in Keys(r) : r.roarings[j].cow \in Flags(m)
  BY <1>1 DEF Flags
<1>5. \A j \in Keys(r) : Vals(r, j) = {} => j = 0 \/ (j \in Keys(m) /\ Vals(m, j) = {})
  BY <1>1 DEF Vals
<1>6. Close(m, r)
  BY <1>1, <1>4, <1>5, CloseBy
<1> QED
  BY <1>1, <1>2, <1>3, <1>6 DEF r

\* Erasing keys, seen bitmap by bitmap.
LEMMA WithoutPointwise ==
  ASSUME NEW m \in Maps, NEW K
  PROVE  LET r == Without(m, K)
         IN  /\ r \in Maps /\ Close(m, r)
             /\ Keys(r) = Keys(m) \ K
             /\ \A h \in Halves : ValsOrNone(r, h) = IF h \in K THEN {} ELSE ValsOrNone(m, h)
<1> DEFINE r == Without(m, K)
<1>1. /\ r \in Maps
      /\ Keys(r) = Keys(m) \ K
      /\ \A j \in Keys(m) \ K : r.roarings[j] = m.roarings[j]
      /\ r.copyOnWrite = m.copyOnWrite
  BY WithoutFacts
<1> HIDE DEF r
<1>2. Close(m, r)
  BY <1>1, CloseIfFewer
<1>3. \A h \in Halves : ValsOrNone(r, h) = IF h \in K THEN {} ELSE ValsOrNone(m, h)
  BY <1>1 DEF ValsOrNone, Vals
<1> QED
  BY <1>1, <1>2, <1>3 DEF r

\* The first key not below k, or End.
LEMMA LowerBound ==
  ASSUME NEW m \in Maps, NEW k \in Nat
  PROVE  LET i == lower_bound(m, k)
         IN  /\ i \in Nat
             /\ i \in Keys(m) \cup {End}
             /\ i # End => i >= k
             /\ \A x \in Keys(m) : x >= k <=> x >= i
<1> DEFINE T == {x \in Keys(m) : x >= k} \cup {End}
           i == Min(T)
<1>1. Keys(m) \subseteq Nat /\ \A x \in Keys(m) : x < End
  BY MapParts, Bounds DEF End, Halves
<1>2. End \in Nat
  BY Bounds DEF End
<1>3. T \in SUBSET Nat /\ T # {}
  BY <1>1, <1>2
<1> HIDE DEF T
<1>4. i \in T /\ \A y \in T : i <= y
  BY <1>3, MinFacts
<1> HIDE DEF i
<1>5. i \in Nat /\ i \in Keys(m) \cup {End} /\ (i # End => i >= k)
  BY <1>2, <1>3, <1>4 DEF T
<1>6. ASSUME NEW x \in Keys(m) PROVE x >= k <=> x >= i
  <2>1. x >= k => i <= x
    BY <1>4 DEF T
  <2>2. i # End => i >= k
    BY <1>5
  <2>3. x < End /\ x \in Nat
    BY <1>1
  <2> QED
    BY <1>2, <1>5, <2>1, <2>2, <2>3
<1>7. lower_bound(m, k) = i
  BY DEF lower_bound, i, T
<1> QED
  BY <1>5, <1>6, <1>7

\* removeRangeClosed: the first and the last inner bitmap are cut when they are there,
\* and those between are erased.
LEMMA RemoveRangeCorrect ==
  ASSUME NEW m \in Maps, NEW min \in Values, NEW max \in Values
  PROVE  /\ Close(m, removeRangeClosed(m, min, max))
         /\ Members(removeRangeClosed(m, min, max)) = Members(m) \ (min..max)
<1> DEFINE sh == highBytes(min)
           eh == highBytes(max)
           si == lower_bound(m, sh)
           ei == lower_bound(m, eh)
           Cut(x, k, lo, hi) == eraseIfEmpty(SetVals(x, k, Vals(x, k) \ (lo..hi)), k)
           begun == IF si = sh THEN Cut(m, sh, lowBytes(min), uint32_max) ELSE m
           from == IF si = sh THEN NextKey(m, sh) ELSE si
           K == {k \in Keys(m) : from <= k /\ k < ei}
           erased == Without(begun, K)
           r == removeRangeClosed(m, min, max)
           S == Members(m) \ (min..max)
           Nothing == \/ min > max
                      \/ Keys(m) = {}
                      \/ eh < Min(Keys(m))
                      \/ sh > Max(Keys(m))
           One == si = sh /\ si = ei
           AtLast == ei # End /\ ei = eh
<1>1. sh \in Halves /\ lowBytes(min) \in Lowers /\ eh \in Halves /\ lowBytes(max) \in Lowers
  BY Halved
<1>2. S \in SUBSET Values
  BY MembersAreValues
<1>3. /\ Nothing => r = m
      /\ ~Nothing /\ One => r = Cut(m, sh, lowBytes(min), lowBytes(max))
      /\ ~Nothing /\ ~One /\ AtLast => r = Cut(erased, eh, 0, lowBytes(max))
      /\ ~Nothing /\ ~One /\ ~AtLast => r = erased
  BY DEF removeRangeClosed
<1>4. sh \in Nat /\ eh \in Nat /\ lowBytes(min) \in 0..uint32_max /\ lowBytes(max) \in 0..uint32_max
        /\ uint32_max \in Nat /\ Keys(m) \in SUBSET Nat /\ Keys(m) \in SUBSET Halves
  BY <1>1, Bounds, MapParts DEF Lowers
<1>5. /\ si \in Nat /\ si \in Keys(m) \cup {End} /\ (si # End => si >= sh)
      /\ \A x \in Keys(m) : x >= sh <=> x >= si
  BY <1>4, LowerBound
<1>6. /\ ei \in Nat /\ ei \in Keys(m) \cup {End} /\ (ei # End => ei >= eh)
      /\ \A x \in Keys(m) : x >= eh <=> x >= ei
  BY <1>4, LowerBound
<1>7. sh < End /\ eh < End /\ sh # End /\ eh # End /\ End \in Nat
  BY <1>1, Bounds DEF Halves, End
<1>8. /\ si = sh <=> sh \in Keys(m)
      /\ ei = eh <=> eh \in Keys(m)
  <2> HIDE DEF si, ei, sh, eh
  <2>1. si = sh <=> sh \in Keys(m)
    <3>1. sh \in Keys(m) => sh >= si
      BY <1>4, <1>5
    <3> QED
      BY <1>4, <1>5, <1>7, <3>1
  <2>2. ei = eh <=> eh \in Keys(m)
    <3>1. eh \in Keys(m) => eh >= ei
      BY <1>4, <1>6
    <3> QED
      BY <1>4, <1>6, <1>7, <3>1
  <2> QED
    BY <2>1, <2>2
<1>9. ASSUME NEW l \in Lowers, NEW h \in Halves
      PROVE  /\ uniteBytes(h, l) \in S <=> l \in ValsOrNone(m, h) /\ uniteBytes(h, l) \notin min..max
             /\ uniteBytes(h, l) \in min..max <=> h \in sh..eh /\ l \in Part(h, min, max)
             /\ h \notin Keys(m) => l \notin ValsOrNone(m, h)
  BY MemberHalves, PartFacts DEF ValsOrNone
<1>10. CASE Nothing
  <2>1. r = m
    BY <1>3, <1>10
  <2>2. ASSUME NEW h \in Halves, NEW l \in Lowers, l \in ValsOrNone(m, h)
        PROVE  uniteBytes(h, l) \notin min..max
    <3>1. h \in Keys(m)
      BY <1>9, <2>2
    <3>2. CASE min > max
      BY <3>2, Bounds DEF Values
    <3>3. CASE eh < Min(Keys(m)) \/ sh > Max(Keys(m))
      <4>1. Min(Keys(m)) <= h
        BY <1>4, <3>1, MinFacts
      <4>2. \A y \in Keys(m) : y <= Highs
        BY <1>4, Bounds DEF Halves
      <4>3. h <= Max(Keys(m)) /\ Max(Keys(m)) \in Nat
        <5>1. Highs \in Nat
          BY Bounds
        <5> QED
          BY <1>4, <3>1, <4>2, <5>1, MaxFacts
      <4>4. Min(Keys(m)) \in Nat
        BY <1>4, <3>1, MinFacts
      <4>5. h \notin sh..eh
        BY <1>4, <3>1, <3>3, <4>1, <4>3, <4>4
      <4> QED
        BY <1>9, <4>5
    <3> QED
      BY <1>10, <3>1, <3>2, <3>3
  <2>3. Members(m) = S
    BY <1>2, <1>9, <2>2, MembersBy
  <2> QED
    BY <2>1, <2>3, CloseIfFewer
<1>11. CASE ~Nothing /\ One
  <2> DEFINE vals == Vals(m, sh) \ (lowBytes(min)..lowBytes(max))
  <2>1. r = eraseIfEmpty(SetVals(m, sh, vals), sh)
    BY <1>3, <1>11
  <2>2. sh \in Keys(m) /\ vals \in SUBSET Lowers
    BY <1>8, <1>11, MapParts
  <2>3. sh <= eh
    <3>1. min <= max
      BY <1>11, Bounds DEF Values
    <3> QED
      BY <3>1, RangeEnds
  <2>4. sh = eh
    BY <1>4, <1>6, <1>7, <1>11, <2>3
  <2>5. Part(sh, min, max) = lowBytes(min)..lowBytes(max)
    BY <2>4 DEF Part
  <2>6. \A l \in Lowers : l \in vals <=> uniteBytes(sh, l) \in S
    BY <1>1, <1>4, <1>9, <2>2, <2>4, <2>5 DEF ValsOrNone
  <2>7. \A h \in Halves \ {sh}, l \in Lowers : uniteBytes(h, l) \in S <=> uniteBytes(h, l) \in Members(m)
    BY <1>4, <1>9, <2>4, MemberHalves
  <2>8. Replaces(m, sh, vals, S)
    BY <1>2, <2>2, <2>6, <2>7 DEF Replaces
  <2> HIDE DEF vals, S, r
  <2>9. Close(m, r) /\ Members(r) = S
    BY <2>1, <2>2, <2>8, CutCorrect
  <2> QED
    BY <2>9 DEF r, S
<1>12. CASE ~Nothing /\ ~One
  <2>1. sh <= eh
    <3>1. min <= max
      BY <1>12, Bounds DEF Values
    <3> QED
      BY <3>1, RangeEnds
  <2>2. sh \in Keys(m) => sh < eh
    BY <1>4, <1>8, <1>12, <2>1
  <2>3. \A k \in Keys(m) : k \in K <=> sh < k /\ k < eh
    <3>1. CASE si = sh
      <4>1. \A x \in Keys(m) : x >= sh + 1 <=> x >= NextKey(m, sh)
        BY <1>4, LowerBound DEF NextKey
      <4>2. NextKey(m, sh) \in Nat
        BY <1>4, LowerBound DEF NextKey
      <4> QED
        BY <1>4, <1>6, <3>1, <4>1, <4>2
    <3>2. CASE si # sh
      BY <1>4, <1>5, <1>6, <1>8, <3>2
    <3> QED
      BY <3>1, <3>2
  <2>4. /\ begun \in Maps /\ Close(m, begun) /\ Keys(begun) \ {sh} = Keys(m) \ {sh}
        /\ ValsOrNone(begun, sh) = ValsOrNone(m, sh) \ (lowBytes(min)..uint32_max)
        /\ \A h \in Halves \ {sh} : ValsOrNone(begun, h) = ValsOrNone(m, h)
    <3>1. CASE si = sh
      <4> DEFINE vals == Vals(m, sh) \ (lowBytes(min)..uint32_max)
      <4>1. begun = eraseIfEmpty(SetVals(m, sh, vals), sh)
        BY <3>1
      <4>2. sh \in Keys(m) /\ vals \in SUBSET Lowers
        BY <1>8, <3>1, MapParts
      <4>3. vals = ValsOrNone(m, sh) \ (lowBytes(min)..uint32_max)
        BY <4>2 DEF ValsOrNone
      <4> HIDE DEF vals, begun
      <4> QED
        BY <4>1, <4>2, <4>3, CutPointwise
    <3>2. CASE si # sh
      <4>1. begun = m /\ ValsOrNone(m, sh) = {}
        BY <1>8, <3>2 DEF ValsOrNone
      <4> HIDE DEF begun
      <4> QED
        BY <4>1, CloseIfFewer
    <3> QED
      BY <3>1, <3>2
  <2> HIDE DEF begun, K
  <2>5. /\ erased \in Maps /\ Close(begun, erased) /\ Keys(erased) = Keys(begun) \ K
        /\ \A h \in Halves : ValsOrNone(erased, h) = IF h \in K THEN {} ELSE ValsOrNone(begun, h)
    BY <2>4, WithoutPointwise
  <2> HIDE DEF erased
  <2>6. /\ r \in Maps /\ Close(erased, r)
        /\ ValsOrNone(r, eh) = ValsOrNone(erased, eh) \ (0..lowBytes(max))
        /\ \A h \in Halves \ {eh} : ValsOrNone(r, h) = ValsOrNone(erased, h)
    <3>1. CASE AtLast
      <4> DEFINE vals == Vals(erased, eh) \ (0..lowBytes(max))
      <4>1. r = eraseIfEmpty(SetVals(erased, eh, vals), eh)
        BY <1>3, <1>12, <3>1
      <4>2. eh \in Keys(m) /\ eh \notin K /\ eh # sh
        BY <1>4, <1>8, <2>1, <2>2, <2>3, <3>1
      <4>3. eh \in Keys(erased)
        BY <2>4, <2>5, <4>2
      <4>4. vals \in SUBSET Lowers /\ vals = ValsOrNone(erased, eh) \ (0..lowBytes(max))
        BY <2>5, <4>3, MapParts DEF ValsOrNone
      <4> HIDE DEF vals, r
      <4> QED
        BY <2>5, <4>1, <4>3, <4>4, CutPointwise
    <3>2. CASE ~AtLast
      <4>1. r = erased
        BY <1>3, <1>12, <3>2
      <4>2. eh \notin Keys(m)
        BY <1>7, <1>8, <3>2
      <4>3. ValsOrNone(erased, eh) = {}
        <5>1. ValsOrNone(m, eh) = {}
          BY <4>2 DEF ValsOrNone
        <5>2. ValsOrNone(begun, eh) = {}
          BY <1>1, <2>4, <5>1
        <5> QED
          BY <1>1, <2>5, <5>2
      <4> HIDE DEF r
      <4> QED
        BY <2>5, <4>1, <4>3, CloseIfFewer
    <3> QED
      BY <3>1, <3>2
  <2> HIDE DEF r
  <2>7. ASSUME NEW h \in Halves, NEW l \in Lowers
        PROVE  l \in ValsOrNone(r, h) <=> uniteBytes(h, l) \in S
    <3>1. l \in ValsOrNone(r, h) <=>
            /\ l \in ValsOrNone(m, h)
            /\ h = sh => l \notin lowBytes(min)..uint32_max
            /\ h \notin K
            /\ h = eh => l \notin 0..lowBytes(max)
      BY <1>1, <2>4, <2>5, <2>6
    <3>2. h \in Nat /\ l \in 0..uint32_max
      BY Bounds DEF Lowers
    <3>3. CASE h \notin Keys(m)
      BY <1>9, <3>1, <3>3
    <3>4. CASE h \in Keys(m)
      <4>1. h \in K <=> sh < h /\ h < eh
        BY <2>3, <3>4
      <4>2. h = sh => sh < eh
        BY <2>2, <3>4
      <4>3. h \in sh..eh /\ l \in Part(h, min, max) <=>
              \/ h = sh /\ l \in lowBytes(min)..uint32_max
              \/ sh < h /\ h < eh
              \/ h = eh /\ l \in 0..lowBytes(max)
        BY <1>4, <2>1, <3>2, <4>2 DEF Part
      <4> QED
        BY <1>9, <3>1, <4>1, <4>3
    <3> QED
      BY <3>3, <3>4
  <2>8. Members(r) = S
    BY <1>2, <2>6, <2>7, MembersBy
  <2>9. Close(m, r)
    BY <2>4, <2>5, <2>6, CloseIsTransitive
  <2> QED
    BY <2>8, <2>9 DEF r, S
<1> QED
  BY <1>10, <1>11, <1>12

-----------------------------------------------------------------------------
(* Set operations on two maps.                                             *)

\* r comes from m and o without other flags or empty bitmaps than theirs.
CloseToBoth(m, o, r) ==
  /\ r \in Maps
  /\ r.copyOnWrite = m.copyOnWrite
  /\ Flags(r) \subseteq Flags(m) \cup Flags(o)
  /\ \A k \in Keys(r) : Vals(r, k) = {} =>
       \/ k = 0
       \/ k \in Keys(m) /\ Vals(m, k) = {}
       \/ k \in Keys(o) /\ Vals(o, k) = {}

\* operator&=: the keys of both, with the values of both.
LEMMA AndCorrect ==
  ASSUME NEW m \in Maps, NEW o \in Maps
  PROVE  /\ Close(m, operator_and(m, o, FALSE))
         /\ Members(operator_and(m, o, FALSE)) = Members(m) \cap Members(o)
<1> DEFINE kept == {k \in Keys(m) \cap Keys(o) : Vals(m, k) \cap Vals(o, k) # {}}
           f == [k \in kept |-> [m.roarings[k] EXCEPT !.vals = @ \cap Vals(o, k)]]
           r == operator_and(m, o, FALSE)
           S == Members(m) \cap Members(o)
<1>1. r = [m EXCEPT !.roarings = f]
  BY DEF operator_and, Maps
<1>2. kept \in SUBSET Halves
  BY MapParts
<1>3. ASSUME NEW k \in kept
      PROVE  f[k] \in Inner /\ f[k].vals = Vals(m, k) \cap Vals(o, k) /\ f[k].cow = m.roarings[k].cow
  <2>1. m.roarings[k] \in Inner
    BY MapParts
  <2> QED
    BY <2>1 DEF Inner, Vals
<1>4. f \in [kept -> Inner]
  BY <1>3
<1> HIDE DEF f, r
<1>5. r \in Maps /\ r.roarings = f /\ Keys(r) = kept /\ r.copyOnWrite = m.copyOnWrite
  BY <1>1, <1>2, <1>4, NewRoarings
<1>6. \A k \in Keys(r) : r.roarings[k].cow \in Flags(m)
  BY <1>3, <1>5 DEF Flags
<1>7. \A k \in Keys(r) : Vals(r, k) = {} => k = 0 \/ (k \in Keys(m) /\ Vals(m, k) = {})
  BY <1>3, <1>5 DEF Vals
<1>8. \A h \in Halves : ValsOrNone(r, h) = ValsOrNone(m, h) \cap ValsOrNone(o, h)
  BY <1>3, <1>5 DEF ValsOrNone, Vals
<1>9. S \in SUBSET Values
  BY MembersAreValues
<1>10. ASSUME NEW h \in Halves, NEW l \in Lowers PROVE l \in ValsOrNone(r, h) <=> uniteBytes(h, l) \in S
  BY <1>8, MemberHalves
<1>11. Members(r) = S
  BY <1>5, <1>9, <1>10, MembersBy
<1> QED
  BY <1>5, <1>6, <1>7, <1>11, CloseBy DEF r

\* operator-=: inner bitmaps that lose all their values are erased.
LEMMA MinusCorrect ==
  ASSUME NEW m \in Maps, NEW o \in Maps
  PROVE  /\ Close(m, operator_minus(m, o, FALSE))
         /\ Members(operator_minus(m, o, FALSE)) = Members(m) \ Members(o)
<1> DEFINE both == Keys(m) \cap Keys(o)
           gone == {k \in both : Vals(m, k) \subseteq Vals(o, k)}
           f == [k \in Keys(m) \ gone |->
                   IF k \in both THEN [m.roarings[k] EXCEPT !.vals = @ \ Vals(o, k)] ELSE m.roarings[k]]
           r == operator_minus(m, o, FALSE)
           S == Members(m) \ Members(o)
<1>1. r = [m EXCEPT !.roarings = f]
  BY DEF operator_minus, Maps, Keys
<1>2. Keys(m) \ gone \in SUBSET Halves
  BY MapParts
<1>3. ASSUME NEW k \in Keys(m) \ gone
      PROVE  f[k] \in Inner /\ f[k].vals = Vals(m, k) \ ValsOrNone(o, k) /\ f[k].cow = m.roarings[k].cow
  <2>1. m.roarings[k] \in Inner
    BY MapParts
  <2> QED
    BY <2>1 DEF Inner, Vals, ValsOrNone
<1>4. f \in [Keys(m) \ gone -> Inner]
  BY <1>3
<1> HIDE DEF f, r
<1>5. r \in Maps /\ r.roarings = f /\ Keys(r) = Keys(m) \ gone /\ r.copyOnWrite = m.copyOnWrite
  BY <1>1, <1>2, <1>4, NewRoarings
<1>6. \A k \in Keys(r) : r.roarings[k].cow \in Flags(m)
  BY <1>3, <1>5 DEF Flags
<1>7. \A k \in Keys(r) : Vals(r, k) = {} => k = 0 \/ (k \in Keys(m) /\ Vals(m, k) = {})
  BY <1>3, <1>5 DEF Vals, ValsOrNone
<1>8. \A h \in Halves : ValsOrNone(r, h) = ValsOrNone(m, h) \ ValsOrNone(o, h)
  BY <1>3, <1>5 DEF ValsOrNone, Vals
<1>9. S \in SUBSET Values
  BY MembersAreValues
<1>10. ASSUME NEW h \in Halves, NEW l \in Lowers PROVE l \in ValsOrNone(r, h) <=> uniteBytes(h, l) \in S
  BY <1>8, MemberHalves
<1>11. Members(r) = S
  BY <1>5, <1>9, <1>10, MembersBy
<1> QED
  BY <1>5, <1>6, <1>7, <1>11, CloseBy DEF r

\* An inner bitmap that `or' and `xor' insert, take over or combine.
Merged(m, o, k, vals) ==
  IF k \notin Keys(o) THEN m.roarings[k]
  ELSE IF k \notin Keys(m) THEN Inserted(m, o, k)
  ELSE IF TakesOver(m.roarings[k], o.roarings[k]) THEN o.roarings[k]
  ELSE [m.roarings[k] EXCEPT !.vals = vals]

MergedVals(m, o, k, vals) ==
  IF k \notin Keys(o) THEN Vals(m, k)
  ELSE IF k \notin Keys(m) THEN Vals(o, k)
  ELSE IF Vals(m, k) = {} /\ Vals(o, k) # {} THEN Vals(o, k)
  ELSE vals

\* What such an inner bitmap holds, and where its flag is from.
LEMMA MergedFacts ==
  ASSUME NEW m \in Maps, NEW o \in Maps, NEW k \in Keys(m) \cup Keys(o), NEW vals \in SUBSET Lowers
  PROVE  /\ Merged(m, o, k, vals) \in Inner
         /\ Merged(m, o, k, vals).vals = MergedVals(m, o, k, vals)
         /\ Merged(m, o, k, vals).cow \in Flags(m) \cup Flags(o)
<1> DEFINE c == Merged(m, o, k, vals)
<1> USE DEF Merged, MergedVals
<1>1. m.roarings \in [Keys(m) -> Inner] /\ o.roarings \in [Keys(o) -> Inner] /\ m.copyOnWrite \in BOOLEAN
  BY MapParts
<1>2. CASE k \notin Keys(o)
  BY <1>1, <1>2 DEF Flags, Vals
<1>3. CASE k \in Keys(o) /\ k \notin Keys(m)
  <2>1. c = [o.roarings[k] EXCEPT !.cow = m.copyOnWrite] /\ o.roarings[k] \in Inner
    BY <1>1, <1>3 DEF Inserted
  <2>2. c \in Inner /\ c.vals = Vals(o, k) /\ c.cow = m.copyOnWrite
    BY <1>1, <2>1 DEF Inner, Vals
  <2> QED
    BY <1>3, <2>2 DEF Flags
<1>4. CASE k \in Keys(o) /\ k \in Keys(m) /\ TakesOver(m.roarings[k], o.roarings[k])
  BY <1>1, <1>4 DEF Flags, Vals, TakesOver
<1>5. CASE k \in Keys(o) /\ k \in Keys(m) /\ ~TakesOver(m.roarings[k], o.roarings[k])
  <2>1. c = [m.roarings[k] EXCEPT !.vals = vals] /\ m.roarings[k] \in Inner
    BY <1>1, <1>5
  <2>2. c \in Inner /\ c.vals = vals /\ c.cow = m.roarings[k].cow
    BY <2>1 DEF Inner
  <2>3. ~(Vals(m, k) = {} /\ Vals(o, k) # {})
    BY <1>5 DEF TakesOver, Vals
  <2> QED
    BY <1>5, <2>2, <2>3 DEF Flags
<1> QED
  BY <1>2, <1>3, <1>4, <1>5

\* operator|=: the keys of either.
LEMMA OrCorrect ==
  ASSUME NEW m \in Maps, NEW o \in Maps
  PROVE  /\ CloseToBoth(m, o, operator_or(m, o, FALSE))
         /\ Members(operator_or(m, o, FALSE)) = Members(m) \cup Members(o)
<1> DEFINE K == Keys(m) \cup Keys(o)
           Combined(k) ==
             IF k \notin Keys(o) THEN m.roarings[k]
             ELSE IF k \notin Keys(m) THEN Inserted(m, o, k)
             ELSE IF TakesOver(m.roarings[k], o.roarings[k]) THEN o.roarings[k]
             ELSE [m.roarings[k] EXCEPT !.vals = @ \cup Vals(o, k)]
           f == [k \in K |-> Combined(k)]
           r == operator_or(m, o, FALSE)
           S == Members(m) \cup Members(o)
<1>1. r = [m EXCEPT !.roarings = f]
  BY DEF operator_or, Maps, Keys
<1>2. K \in SUBSET Halves
  BY MapParts
<1>3. ASSUME NEW k \in K
      PROVE  /\ Combined(k) \in Inner
             /\ Combined(k).vals = ValsOrNone(m, k) \cup ValsOrNone(o, k)
             /\ Combined(k).cow \in Flags(m) \cup Flags(o)
  <2> DEFINE vals == ValsOrNone(m, k) \cup ValsOrNone(o, k)
             c == Combined(k)
  <2>1. vals \in SUBSET Lowers
    BY MapParts DEF ValsOrNone
  <2>2. c = Merged(m, o, k, vals)
    BY DEF Merged, ValsOrNone, Vals
  <2> HIDE DEF vals, c, Combined
  <2>3. /\ c \in Inner
        /\ c.vals = MergedVals(m, o, k, vals)
        /\ c.cow \in Flags(m) \cup Flags(o)
    BY <2>1, <2>2, MergedFacts
  <2>4. c.vals = vals
    BY <2>3 DEF vals, MergedVals, ValsOrNone
  <2> QED
    BY <2>3, <2>4 DEF vals, c
<1> HIDE DEF Combined
<1>4. f \in [K -> Inner]
  BY <1>3
<1>5. \A k \in K : /\ f[k].vals = ValsOrNone(m, k) \cup ValsOrNone(o, k)
                   /\ f[k].cow \in Flags(m) \cup Flags(o)
  BY <1>3
<1> HIDE DEF f, r
<1>6. r \in Maps /\ r.roarings = f /\ Keys(r) = K /\ r.copyOnWrite = m.copyOnWrite
  BY <1>1, <1>2, <1>4, NewRoarings
<1>7. Flags(r) \subseteq Flags(m) \cup Flags(o)
  BY <1>5, <1>6 DEF Flags
<1>8. \A k \in Keys(r) : Vals(r, k) = ValsOrNone(m, k) \cup ValsOrNone(o, k)
  BY <1>5, <1>6 DEF Vals
<1>9. \A k \in Keys(r) : Vals(r, k) = {} =>
        \/ k = 0
        \/ k \in Keys(m) /\ Vals(m, k) = {}
        \/ k \in Keys(o) /\ Vals(o, k) = {}
  BY <1>6, <1>8 DEF ValsOrNone
<1>10. \A h \in Halves : ValsOrNone(r, h) = ValsOrNone(m, h) \cup ValsOrNone(o, h)
  BY <1>6, <1>8 DEF ValsOrNone
<1>11. S \in SUBSET Values
  BY MembersAreValues
<1>12. ASSUME NEW h \in Halves, NEW l \in Lowers PROVE l \in ValsOrNone(r, h) <=> uniteBytes(h, l) \in S
  BY <1>10, MemberHalves
<1>13. Members(r) = S
  BY <1>6, <1>11, <1>12, MembersBy
<1> QED
  BY <1>6, <1>7, <1>9, <1>13 DEF r, CloseToBoth

\* operator^=: the keys of either, without those where both hold the same.
LEMMA XorCorrect ==
  ASSUME NEW m \in Maps, NEW o \in Maps
  PROVE  /\ CloseToBoth(m, o, operator_xor(m, o, FALSE))
         /\ Members(operator_xor(m, o, FALSE)) = SymDiff(Members(m), Members(o))
<1> DEFINE gone == {k \in Keys(m) \cap Keys(o) : Vals(m, k) = Vals(o, k)}
           K == (Keys(m) \cup Keys(o)) \ gone
           Combined(k) ==
             IF k \notin Keys(o) THEN m.roarings[k]
             ELSE IF k \notin Keys(m) THEN Inserted(m, o, k)
             ELSE IF TakesOver(m.roarings[k], o.roarings[k]) THEN o.roarings[k]
             ELSE [m.roarings[k] EXCEPT !.vals = SymDiff(@, Vals(o, k))]
           f == [k \in K |-> Combined(k)]
           r == operator_xor(m, o, FALSE)
           S == SymDiff(Members(m), Members(o))
<1>1. r = [m EXCEPT !.roarings = f]
  BY DEF operator_xor, Maps, Keys
<1>2. K \in SUBSET Halves
  BY MapParts
<1>3. ASSUME NEW k \in K
      PROVE  /\ Combined(k) \in Inner
             /\ Combined(k).vals = SymDiff(ValsOrNone(m, k), ValsOrNone(o, k))
             /\ Combined(k).cow \in Flags(m) \cup Flags(o)
  <2> DEFINE vals == SymDiff(ValsOrNone(m, k), ValsOrNone(o, k))
             c == Combined(k)
  <2>1. vals \in SUBSET Lowers
    BY MapParts DEF ValsOrNone, SymDiff
  <2>2. c = Merged(m, o, k, vals)
    BY DEF Merged, ValsOrNone, Vals
  <2> HIDE DEF vals, c, Combined
  <2>3. /\ c \in Inner
        /\ c.vals = MergedVals(m, o, k, vals)
        /\ c.cow \in Flags(m) \cup Flags(o)
    BY <2>1, <2>2, MergedFacts
  <2>4. c.vals = vals
    BY <2>3 DEF vals, MergedVals, ValsOrNone, SymDiff
  <2> QED
    BY <2>3, <2>4 DEF vals, c
<1> HIDE DEF Combined
<1>4. f \in [K -> Inner]
  BY <1>3
<1>5. \A k \in K : /\ f[k].vals = SymDiff(ValsOrNone(m, k), ValsOrNone(o, k))
                   /\ f[k].cow \in Flags(m) \cup Flags(o)
  BY <1>3
<1> HIDE DEF f, r
<1>6. r \in Maps /\ r.roarings = f /\ Keys(r) = K /\ r.copyOnWrite = m.copyOnWrite
  BY <1>1, <1>2, <1>4, NewRoarings
<1>7. Flags(r) \subseteq Flags(m) \cup Flags(o)
  BY <1>5, <1>6 DEF Flags
<1>8. \A k \in Keys(r) : Vals(r, k) = SymDiff(ValsOrNone(m, k), ValsOrNone(o, k))
  BY <1>5, <1>6 DEF Vals
<1>9. \A k \in Keys(r) : Vals(r, k) = {} =>
        \/ k = 0
        \/ k \in Keys(m) /\ Vals(m, k) = {}
        \/ k \in Keys(o) /\ Vals(o, k) = {}
  BY <1>6, <1>8 DEF ValsOrNone, SymDiff
<1>10. \A h \in Halves : ValsOrNone(r, h) = SymDiff(ValsOrNone(m, h), ValsOrNone(o, h))
  BY <1>6, <1>8 DEF ValsOrNone, SymDiff
<1>11. S \in SUBSET Values
  BY MembersAreValues DEF SymDiff
<1>12. ASSUME NEW h \in Halves, NEW l \in Lowers PROVE l \in ValsOrNone(r, h) <=> uniteBytes(h, l) \in S
  BY <1>10, MemberHalves DEF SymDiff
<1>13. Members(r) = S
  BY <1>6, <1>11, <1>12, MembersBy
<1> QED
  BY <1>6, <1>7, <1>9, <1>13 DEF r, CloseToBoth

-----------------------------------------------------------------------------
(* Folds over values and keys.                                             *)

\* addMany: one insertion after the other.
LEMMA AddManyCorrect ==
  ASSUME NEW m \in Maps, NEW n \in Nat, NEW vals \in [1..n -> Values]
  PROVE  /\ Close(m, addMany(m, vals))
         /\ Members(addMany(m, vals)) = Members(m) \cup {vals[i] : i \in 1..n}
<1> DEFINE G == [p \in (1..n) \X Maps |-> add(p[2], vals[p[1]])]
           Step(it) == [x \in SUBSET DOMAIN vals |->
                          IF x = {} THEN m ELSE add(it[x \ {Max(x)}], vals[Max(x)])]
           it == CHOOSE f : f = Step(f)
           J == [k \in 0..n |-> {r \in Maps : /\ Close(m, r)
                                              /\ Members(r) = Members(m) \cup {vals[i] : i \in 1..k}}]
<1>1. addMany(m, vals) = it[1..n]
  BY DEF addMany, FoldLeft, MapThenFoldSet
<1>2. \A k \in 1..n, r \in Maps : add(r, vals[k]) \in Maps
  BY AddCorrect DEF Close
<1>3. G \in [(1..n) \X Maps -> Maps]
  BY <1>2
<1> HIDE DEF G
<1>4. PICK f \in [SUBSET (1..n) -> Maps] : Folds(f, n, m, G)
  BY <1>3, FoldExists
<1>5. ASSUME NEW x \in SUBSET (1..n), x # {}
      PROVE  f[x] = add(f[x \ {Max(x)}], vals[Max(x)])
  <2>1. Max(x) \in 1..n /\ x \ {Max(x)} \in SUBSET (1..n)
    BY <1>5, LastIndex
  <2>2. f[x \ {Max(x)}] \in Maps
    BY <2>1
  <2> QED
    BY <1>4, <1>5, <2>1, <2>2 DEF G, Folds
<1>6. f = Step(f)
  BY <1>4, <1>5 DEF Folds
<1>7. it = Step(it)
  BY <1>6
<1> HIDE DEF it, J
<1>8. it[{}] = m /\ \A k \in 1..n : it[1..k] = add(it[1..(k - 1)], vals[k])
  <2>1. \A x \in SUBSET (1..n) : it[x] = IF x = {} THEN m ELSE add(it[x \ {Max(x)}], vals[Max(x)])
    BY <1>7
  <2> QED
    BY <2>1, Segment
<1>9. it[{}] \in J[0]
  <2>1. Close(m, m)
    BY CloseIfFewer
  <2> QED
    BY <1>8, <2>1 DEF J
<1>10. ASSUME NEW k \in 1..n, it[1..(k - 1)] \in J[k - 1] PROVE it[1..k] \in J[k]
  <2> DEFINE r == it[1..(k - 1)]
  <2>1. r \in Maps /\ Close(m, r) /\ Members(r) = Members(m) \cup {vals[i] : i \in 1..(k - 1)}
    BY <1>10 DEF J
  <2> HIDE DEF r
  <2>2. Close(r, add(r, vals[k])) /\ Members(add(r, vals[k])) = Members(r) \cup {vals[k]}
    BY <2>1, AddCorrect
  <2>3. Close(m, add(r, vals[k])) /\ add(r, vals[k]) \in Maps
    BY <2>1, <2>2, CloseIsTransitive DEF Close
  <2>4. {vals[i] : i \in 1..k} = {vals[i] : i \in 1..(k - 1)} \cup {vals[k]}
    <3>1. 1..k = (1..(k - 1)) \cup {k}
      OBVIOUS
    <3> QED
      BY <3>1
  <2>5. add(r, vals[k]) \in J[k]
    BY <2>1, <2>2, <2>3, <2>4 DEF J
  <2> QED
    BY <1>8, <2>5 DEF r
<1>11. it[1..n] \in J[n]
  BY <1>9, <1>10, FoldKeeps
<1> QED
  BY <1>1, <1>11 DEF J

\* One step of flipClosed, at key k.
FlippedAt(acc, k, min, max) ==
  eraseIfEmpty(SetVals(acc, k, SymDiff(Vals(acc, k), Part(k, min, max))), k)

\* Such a step gives a well-formed map.
LEMMA FlippedAtType ==
  ASSUME NEW acc \in Maps, NEW k \in Halves, NEW min \in Values, NEW max \in Values
  PROVE  FlippedAt(acc, k, min, max) \in Maps
<1> DEFINE vals == SymDiff(Vals(acc, k), Part(k, min, max))
<1>1. CASE k \in Keys(acc)
  <2>1. vals \in SUBSET Lowers
    BY <1>1, MapParts, PartFacts DEF SymDiff
  <2> HIDE DEF vals
  <2>2. eraseIfEmpty(SetVals(acc, k, vals), k) \in Maps
    BY <1>1, <2>1, CutPointwise
  <2> QED
    BY <2>2 DEF FlippedAt, vals
<1>2. CASE k \notin Keys(acc)
  <2>1. SetVals(acc, k, vals) = acc
    BY <1>2 DEF SetVals, Maps, Keys
  <2>2. eraseIfEmpty(acc, k) \in Maps
    BY WithoutFacts DEF eraseIfEmpty
  <2> QED
    BY <2>1, <2>2 DEF FlippedAt
<1> QED
  BY <1>1, <1>2

\* The first j bitmaps from key sh on are flipped, those up to key eh exist.
IsFlippedTo(m, j, min, max, acc) ==
  /\ acc.copyOnWrite = m.copyOnWrite
  /\ Flags(acc) \subseteq Flags(m)
  /\ (highBytes(min) + j)..highBytes(max) \subseteq Keys(acc)
  /\ \A k \in Keys(acc) : Vals(acc, k) = {} =>
       k = 0 \/ (k \in Keys(m) /\ Vals(m, k) = {}) \/ k \in (highBytes(min) + j)..highBytes(max)
  /\ \A h \in Halves : ValsOrNone(acc, h) =
       IF h \in highBytes(min)..(highBytes(min) + j - 1)
       THEN SymDiff(ValsOrNone(m, h), Part(h, min, max)) ELSE ValsOrNone(m, h)

FlippedTo(m, j, min, max) == {acc \in Maps : IsFlippedTo(m, j, min, max, acc)}

\* Once all bitmaps of the range exist, none is flipped.
LEMMA FlipBegins ==
  ASSUME NEW m \in Maps, NEW min \in Values, NEW max \in Values
  PROVE  ensureRangePopulated(m, highBytes(min), highBytes(max)) \in FlippedTo(m, 0, min, max)
<1> DEFINE sh == highBytes(min)
           eh == highBytes(max)
           p == ensureRangePopulated(m, sh, eh)
<1>1. sh \in Halves /\ eh \in Halves /\ sh \in Nat /\ eh \in Nat
  BY Halved, Bounds
<1>2. /\ p \in Maps /\ Keys(p) = Keys(m) \cup (sh..eh) /\ p.copyOnWrite = m.copyOnWrite
      /\ \A j \in Keys(m) : p.roarings[j] = m.roarings[j]
      /\ \A j \in (sh..eh) \ Keys(m) : p.roarings[j] = [vals |-> {}, cow |-> m.copyOnWrite]
  BY <1>1, PopulatedFacts
<1> HIDE DEF p
<1>3. Flags(p) \subseteq Flags(m)
  <2>1. \A k \in Keys(p) : p.roarings[k].cow \in Flags(m)
    BY <1>2 DEF Flags
  <2> QED
    BY <1>2, <2>1 DEF Flags
<1>4. \A h \in Halves : ValsOrNone(p, h) = ValsOrNone(m, h)
  BY <1>2 DEF ValsOrNone, Vals
<1>5. \A k \in Keys(p) : Vals(p, k) = {} => (k \in Keys(m) /\ Vals(m, k) = {}) \/ k \in sh..eh
  BY <1>2 DEF Vals
<1>6. sh + 0 = sh /\ sh..(sh + 0 - 1) = {}
  BY <1>1
<1> QED
  BY <1>2, <1>3, <1>4, <1>5, <1>6 DEF FlippedTo, IsFlippedTo, p

\* One bitmap more is flipped, and erased when nothing is left in it.
LEMMA FlipContinues ==
  ASSUME NEW m \in Maps, NEW min \in Values, NEW max \in Values, NEW j \in Nat,
         highBytes(min) + j <= highBytes(max),
         NEW acc \in FlippedTo(m, j, min, max)
  PROVE  FlippedAt(acc, highBytes(min) + j, min, max) \in FlippedTo(m, j + 1, min, max)
<1> DEFINE sh == highBytes(min)
           eh == highBytes(max)
           k == sh + j
           vals == SymDiff(Vals(acc, k), Part(k, min, max))
           r == FlippedAt(acc, k, min, max)
<1>1. sh \in Nat /\ eh \in Nat /\ eh \in Halves /\ eh < Highs
  BY Halved, Bounds DEF Halves
<1>2. /\ acc \in Maps /\ acc.copyOnWrite = m.copyOnWrite
      /\ Flags(acc) \subseteq Flags(m)
      /\ k..eh \subseteq Keys(acc)
      /\ \A h \in Keys(acc) : Vals(acc, h) = {} =>
           h = 0 \/ (h \in Keys(m) /\ Vals(m, h) = {}) \/ h \in k..eh
      /\ \A h \in Halves : ValsOrNone(acc, h) =
           IF h \in sh..(k - 1) THEN SymDiff(ValsOrNone(m, h), Part(h, min, max)) ELSE ValsOrNone(m, h)
  <2>1. acc \in Maps /\ IsFlippedTo(m, j, min, max, acc)
    BY DEF FlippedTo
  <2>2. highBytes(min) + j - 1 = k - 1
    BY <1>1
  <2> QED
    BY <2>1, <2>2 DEF IsFlippedTo
<1>3. k \in Nat /\ k <= eh /\ k \in k..eh
  BY <1>1
<1>4. k \in Keys(acc) /\ k \in Halves
  BY <1>2, <1>3, MapParts
<1>5. vals \in SUBSET Lowers
  BY <1>2, <1>4, MapParts, PartFacts DEF SymDiff
<1>6. ValsOrNone(acc, k) = ValsOrNone(m, k) /\ Vals(acc, k) = ValsOrNone(acc, k)
  <2>1. k \notin sh..(k - 1)
    BY <1>1, <1>3
  <2> QED
    BY <1>2, <1>4, <2>1 DEF ValsOrNone
<1>7. vals = SymDiff(ValsOrNone(m, k), Part(k, min, max))
  BY <1>6
<1>8. r = eraseIfEmpty(SetVals(acc, k, vals), k)
  BY DEF FlippedAt
<1> HIDE DEF vals, r, k
<1>9. /\ r \in Maps
      /\ Keys(r) = IF vals = {} THEN Keys(acc) \ {k} ELSE Keys(acc)
      /\ vals # {} => Vals(r, k) = vals /\ r.roarings[k].cow = acc.roarings[k].cow
      /\ \A h \in Keys(r) \ {k} : r.roarings[h] = acc.roarings[h]
      /\ r.copyOnWrite = acc.copyOnWrite
  BY <1>2, <1>4, <1>5, <1>8, CutFacts
<1>10. Close(acc, r) /\ ValsOrNone(r, k) = vals /\ \A h \in Halves \ {k} : ValsOrNone(r, h) = ValsOrNone(acc, h)
  BY <1>2, <1>4, <1>5, <1>8, CutPointwise
<1>11. Flags(r) \subseteq Flags(m)
  BY <1>2, <1>10 DEF Close
<1>12. (sh + (j + 1))..eh = (k..eh) \ {k} /\ sh..(sh + (j + 1) - 1) = (sh..(k - 1)) \cup {k}
  BY <1>1, <1>3 DEF k
<1>13. (k..eh) \ {k} \subseteq Keys(r)
  BY <1>2, <1>9
<1>14. \A h \in Keys(r) : Vals(r, h) = {} =>
         h = 0 \/ (h \in Keys(m) /\ Vals(m, h) = {}) \/ h \in (k..eh) \ {k}
  BY <1>2, <1>9 DEF Vals
<1>15. \A h \in Halves : ValsOrNone(r, h) =
         IF h \in (sh..(k - 1)) \cup {k} THEN SymDiff(ValsOrNone(m, h), Part(h, min, max)) ELSE ValsOrNone(m, h)
  BY <1>2, <1>7, <1>10
<1> QED
  BY <1>2, <1>9, <1>11, <1>12, <1>13, <1>14, <1>15 DEF FlippedTo, IsFlippedTo, r, k

\* flipClosed: the bitmaps of the range in turn.
LEMMA FlipCorrect ==
  ASSUME NEW m \in Maps, NEW min \in Values, NEW max \in Values
  PROVE  /\ Close(m, flipClosed(m, min, max))
         /\ Members(flipClosed(m, min, max)) = SymDiff(Members(m), min..max)
<1> DEFINE sh == highBytes(min)
           eh == highBytes(max)
           n == eh - sh + 1
           keys == KeyRange(sh, eh)
           p == ensureRangePopulated(m, sh, eh)
           S == SymDiff(Members(m), min..max)
<1>1. sh \in Halves /\ eh \in Halves /\ sh \in Nat /\ eh \in Nat
  BY Halved, Bounds
<1>2. CASE min > max
  <2>1. flipClosed(m, min, max) = m
    BY <1>2 DEF flipClosed
  <2>2. min..max = {}
    BY <1>2, Bounds DEF Values
  <2> QED
    BY <2>1, <2>2, CloseIfFewer DEF SymDiff
<1>3. CASE ~(min > max)
  <2> DEFINE G == [q \in (1..n) \X Maps |-> FlippedAt(q[2], keys[q[1]], min, max)]
             Step(it) == [x \in SUBSET DOMAIN keys |->
                            IF x = {} THEN p ELSE FlippedAt(it[x \ {Max(x)}], keys[Max(x)], min, max)]
             it == CHOOSE f : f = Step(f)
             J == [k \in 0..n |-> FlippedTo(m, k, min, max)]
  <2>1. sh <= eh /\ n \in Nat
    <3>1. min <= max
      BY <1>3, Bounds DEF Values
    <3> QED
      BY <1>1, <3>1, RangeEnds
  <2>2. flipClosed(m, min, max) = it[DOMAIN keys]
    BY <1>3 DEF flipClosed, FoldLeft, MapThenFoldSet, FlippedAt, Flipped, Part
  <2>3. DOMAIN keys = 1..n /\ \A k \in 1..n : keys[k] = sh + (k - 1) /\ keys[k] \in Halves
    BY <1>1, Bounds DEF KeyRange, Halves
  <2> HIDE DEF keys
  <2>4. p \in Maps
    BY FlipBegins DEF FlippedTo
  <2>5. G \in [(1..n) \X Maps -> Maps]
    <3>1. \A k \in 1..n, acc \in Maps : FlippedAt(acc, keys[k], min, max) \in Maps
      BY <2>3, FlippedAtType
    <3> QED
      BY <3>1
  <2> HIDE DEF G
  <2>6. PICK f \in [SUBSET (1..n) -> Maps] : Folds(f, n, p, G)
    BY <2>1, <2>4, <2>5, FoldExists
  <2>7. ASSUME NEW x \in SUBSET (1..n), x # {}
        PROVE  f[x] = FlippedAt(f[x \ {Max(x)}], keys[Max(x)], min, max)
    <3>1. Max(x) \in 1..n /\ x \ {Max(x)} \in SUBSET (1..n)
      BY <2>1, <2>7, LastIndex
    <3>2. f[x \ {Max(x)}] \in Maps
      BY <3>1
    <3> QED
      BY <2>6, <2>7, <3>1, <3>2 DEF G, Folds
  <2>8. f = Step(f)
    BY <2>3, <2>6, <2>7 DEF Folds
  <2>9. it = Step(it)
    BY <2>8
  <2> HIDE DEF it, J
  <2>10. /\ it[{}] = p
         /\ \A k \in 1..n : it[1..k] = FlippedAt(it[1..(k - 1)], keys[k], min, max)
    <3>1. \A x \in SUBSET (1..n) :
            it[x] = IF x = {} THEN p ELSE FlippedAt(it[x \ {Max(x)}], keys[Max(x)], min, max)
      BY <2>3, <2>9
    <3> QED
      BY <2>1, <3>1, Segment
  <2>11. it[{}] \in J[0]
    BY <2>1, <2>10, FlipBegins DEF J
  <2>12. ASSUME NEW k \in 1..n, it[1..(k - 1)] \in J[k - 1] PROVE it[1..k] \in J[k]
    <3> DEFINE acc == it[1..(k - 1)]
    <3>1. acc \in FlippedTo(m, k - 1, min, max)
      BY <2>1, <2>12 DEF J
    <3>2. k - 1 \in Nat /\ sh + (k - 1) <= eh /\ (k - 1) + 1 = k
      BY <1>1, <2>1
    <3> HIDE DEF acc
    <3>3. FlippedAt(acc, sh + (k - 1), min, max) \in FlippedTo(m, (k - 1) + 1, min, max)
      BY <3>1, <3>2, FlipContinues
    <3>4. FlippedAt(acc, keys[k], min, max) \in FlippedTo(m, k, min, max)
      BY <2>3, <3>2, <3>3
    <3> QED
      BY <2>1, <2>10, <3>4 DEF J, acc
  <2>13. it[1..n] \in J[n]
    <3> HIDE DEF n
    <3> QED
      BY <2>1, <2>11, <2>12, FoldKeeps
  <2> DEFINE r == it[1..n]
  <2>14. flipClosed(m, min, max) = r /\ r \in FlippedTo(m, n, min, max)
    BY <2>1, <2>2, <2>3, <2>13 DEF J
  <2> HIDE DEF r
  <2>15. (sh + n)..eh = {} /\ sh..(sh + n - 1) = sh..eh
    BY <1>1, <2>1
  <2>16. /\ r \in Maps /\ r.copyOnWrite = m.copyOnWrite /\ Flags(r) \subseteq Flags(m)
         /\ \A k \in Keys(r) : Vals(r, k) = {} => k = 0 \/ (k \in Keys(m) /\ Vals(m, k) = {})
         /\ \A h \in Halves : ValsOrNone(r, h) =
              IF h \in sh..eh THEN SymDiff(ValsOrNone(m, h), Part(h, min, max)) ELSE ValsOrNone(m, h)
    BY <2>14, <2>15 DEF FlippedTo, IsFlippedTo
  <2>17. Close(m, r)
    BY <2>16 DEF Close
  <2>18. S \in SUBSET Values
    BY MembersAreValues, RangesAreValues DEF SymDiff
  <2>19. ASSUME NEW h \in Halves, NEW l \in Lowers PROVE l \in ValsOrNone(r, h) <=> uniteBytes(h, l) \in S
    <3>1. uniteBytes(h, l) \in min..max <=> h \in sh..eh /\ l \in Part(h, min, max)
      BY PartFacts
    <3>2. uniteBytes(h, l) \in Members(m) <=> l \in ValsOrNone(m, h)
      BY MemberHalves
    <3> QED
      BY <2>16, <3>1, <3>2 DEF SymDiff
  <2>20. Members(r) = S
    BY <2>16, <2>18, <2>19, MembersBy
  <2> QED
    BY <2>14, <2>17, <2>20
<1> QED
  BY <1>2, <1>3

-----------------------------------------------------------------------------
(* The union of many maps.                                                 *)

\* An inner bitmap that unites the first i of q.
Unites(q, i) ==
  {x \in Inner : /\ x.vals = UNION {q[p].vals : p \in 1..i}
                 /\ \E p \in 1..i : x.cow = q[p].cow}

\* roaring_bitmap_or_many unites all its arguments and takes the flag of one of them.
LEMMA OrManyFacts ==
  ASSUME NEW q \in Seq(Inner), Len(q) >= 1
  PROVE  OrMany(q) \in Unites(q, Len(q))
<1> DEFINE Join(x, y) == IF x.vals = {} THEN y ELSE IF y.vals = {} THEN x
                         ELSE [vals |-> x.vals \cup y.vals, cow |-> x.cow \/ y.cow]
           JoinInplace(x, y) == IF TakesOver(x, y) THEN y ELSE [x EXCEPT !.vals = @ \cup y.vals]
           first == Join(q[1], q[2])
           rest == SubSeq(q, 3, Len(q))
           n == Len(q) - 2
           Step(it) == [x \in SUBSET DOMAIN rest |->
                          IF x = {} THEN first ELSE JoinInplace(it[x \ {Max(x)}], rest[Max(x)])]
           it == CHOOSE f : f = Step(f)
           G == [p \in (1..n) \X Inner |-> JoinInplace(p[2], rest[p[1]])]
           J == [k \in 0..n |-> Unites(q, k + 2)]
<1>1. Len(q) \in Nat /\ \A p \in 1..Len(q) : q[p] \in Inner
  OBVIOUS
<1>2. CASE Len(q) = 1
  <2>1. OrMany(q) = q[1] /\ 1..Len(q) = {1}
    BY <1>2 DEF OrMany
  <2>2. q[1] \in Inner
    BY <1>1, <1>2
  <2> QED
    BY <2>1, <2>2 DEF Unites
<1>3. CASE Len(q) # 1
  <2>1. n \in Nat /\ q[1] \in Inner /\ q[2] \in Inner /\ Len(q) = n + 2
    BY <1>1, <1>3
  <2>2. OrMany(q) = it[DOMAIN rest]
    BY <1>3 DEF OrMany, FoldLeft, MapThenFoldSet
  <2>3. DOMAIN rest = 1..n /\ \A k \in 1..n : rest[k] = q[k + 2] /\ rest[k] \in Inner
    <3>1. rest = [k \in 1..n |-> q[k + 2]]
      <4>1. rest = [k \in 1..(1 + Len(q) - 3) |-> q[3 + k - 1]]
        BY <1>1
      <4>2. 1 + Len(q) - 3 = n /\ \A k \in 1..n : 3 + k - 1 = k + 2
        BY <1>1, <2>1
      <4> QED
        BY <4>1, <4>2
    <3>2. \A k \in 1..n : k + 2 \in 1..Len(q)
      BY <1>1, <2>1
    <3> HIDE DEF rest
    <3> QED
      BY <1>1, <3>1, <3>2
  <2>4. first \in Unites(q, 2)
    <3>1. first \in Inner
      BY <2>1 DEF Inner
    <3>2. UNION {q[p].vals : p \in 1..2} = q[1].vals \cup q[2].vals
      <4>1. 1..2 = {1, 2}
        OBVIOUS
      <4> QED
        BY <4>1
    <3>3. first.vals = q[1].vals \cup q[2].vals
      BY <2>1 DEF Inner
    <3>4. first.cow = q[1].cow \/ first.cow = q[2].cow
      BY <2>1 DEF Inner
    <3>5. 1 \in 1..2 /\ 2 \in 1..2
      OBVIOUS
    <3> HIDE DEF first
    <3> QED
      BY <3>1, <3>2, <3>3, <3>4, <3>5 DEF Unites
  <2>5. \A x \in Inner, y \in Inner :
          /\ JoinInplace(x, y) \in Inner
          /\ JoinInplace(x, y).vals = x.vals \cup y.vals
          /\ JoinInplace(x, y).cow = x.cow \/ JoinInplace(x, y).cow = y.cow
    BY DEF Inner, TakesOver
  <2> HIDE DEF first, rest, n, JoinInplace
  <2>6. first \in Inner
    BY <2>4 DEF Unites
  <2>7. G \in [(1..n) \X Inner -> Inner]
    BY <2>3, <2>5
  <2> HIDE DEF G
  <2>8. PICK f \in [SUBSET (1..n) -> Inner] : Folds(f, n, first, G)
    BY <2>1, <2>6, <2>7, FoldExists
  <2>9. ASSUME NEW x \in SUBSET (1..n), x # {}
        PROVE  f[x] = JoinInplace(f[x \ {Max(x)}], rest[Max(x)])
    <3>1. Max(x) \in 1..n /\ x \ {Max(x)} \in SUBSET (1..n)
      BY <2>1, <2>9, LastIndex
    <3>2. f[x \ {Max(x)}] \in Inner
      BY <3>1
    <3> QED
      BY <2>8, <2>9, <3>1, <3>2 DEF G, Folds
  <2>10. f = Step(f)
    BY <2>3, <2>8, <2>9 DEF Folds
  <2>11. it = Step(it)
    BY <2>10
  <2> HIDE DEF it, J
  <2>12. it[{}] = first /\ \A k \in 1..n : it[1..k] = JoinInplace(it[1..(k - 1)], rest[k])
    <3>1. \A x \in SUBSET (1..n) : it[x] = IF x = {} THEN first ELSE JoinInplace(it[x \ {Max(x)}], rest[Max(x)])
      BY <2>3, <2>11
    <3> QED
      BY <2>1, <3>1, Segment
  <2>13. it[{}] \in J[0]
    BY <2>1, <2>4, <2>12 DEF J
  <2>14. ASSUME NEW k \in 1..n, it[1..(k - 1)] \in J[k - 1] PROVE it[1..k] \in J[k]
    <3> DEFINE x == it[1..(k - 1)]
               y == q[k + 2]
               z == JoinInplace(x, y)
    <3>1. x \in Unites(q, k + 1)
      <4>1. J[k - 1] = Unites(q, k + 1)
        BY <2>1 DEF J
      <4> QED
        BY <2>14, <4>1
    <3>2. y \in Inner /\ it[1..k] = z
      BY <2>3, <2>12
    <3> HIDE DEF x, y, z
    <3>3. z \in Inner /\ z.vals = x.vals \cup y.vals /\ (z.cow = x.cow \/ z.cow = y.cow)
      BY <2>5, <3>1, <3>2 DEF z, Unites
    <3>4. 1..(k + 2) = (1..(k + 1)) \cup {k + 2}
      OBVIOUS
    <3>5. UNION {q[p].vals : p \in 1..(k + 2)} = (UNION {q[p].vals : p \in 1..(k + 1)}) \cup q[k + 2].vals
      <4>1. {q[p].vals : p \in 1..(k + 2)} = {q[p].vals : p \in 1..(k + 1)} \cup {q[k + 2].vals}
        BY <3>4
      <4> QED
        BY <4>1
    <3>6. z \in Unites(q, k + 2)
      BY <3>1, <3>3, <3>4, <3>5 DEF Unites, y
    <3> QED
      BY <2>1, <3>2, <3>6 DEF J
  <2>15. it[1..n] \in J[n]
    BY <2>1, <2>13, <2>14, FoldKeeps
  <2>16. J[n] = Unites(q, n + 2)
    BY <2>1 DEF J
  <2> QED
    BY <2>1, <2>2, <2>3, <2>15, <2>16
<1> QED
  BY <1>2, <1>3

\* The inner bitmaps of key k in the first i inputs.
Grouped(inputs, k, i) ==
  {q \in Seq(Inner) :
     /\ \A p \in 1..Len(q) : \E j \in 1..i : k \in Keys(inputs[j]) /\ q[p] = inputs[j].roarings[k]
     /\ \A j \in 1..i : k \in Keys(inputs[j]) => \E p \in 1..Len(q) : q[p] = inputs[j].roarings[k]}

\* One step of the queue.
Collected(acc, m, k) == IF k \in Keys(m) THEN Append(acc, m.roarings[k]) ELSE acc

GroupOf(inputs, k) ==
  FoldLeft(LAMBDA acc, m : IF k \in Keys(m) THEN Append(acc, m.roarings[k]) ELSE acc, <<>>, inputs)

\* The queue collects, for a key, every input that has it.
LEMMA GroupFacts ==
  ASSUME NEW n \in Nat, NEW inputs \in [1..n -> Maps], NEW k \in Halves
  PROVE  GroupOf(inputs, k) \in Grouped(inputs, k, n)
<1> DEFINE A == Seq(Inner)
           Step(it) == [x \in SUBSET DOMAIN inputs |->
                          IF x = {} THEN <<>> ELSE Collected(it[x \ {Max(x)}], inputs[Max(x)], k)]
           it == CHOOSE f : f = Step(f)
           G == [p \in (1..n) \X A |-> Collected(p[2], inputs[p[1]], k)]
           J == [i \in 0..n |-> Grouped(inputs, k, i)]
<1>1. GroupOf(inputs, k) = it[1..n]
  BY DEF GroupOf, FoldLeft, MapThenFoldSet, Collected
<1>2. \A m \in Maps : k \in Keys(m) => m.roarings[k] \in Inner
  BY MapParts
<1>3. \A q \in A, m \in Maps : Collected(q, m, k) \in A
  BY <1>2 DEF Collected
<1>4. G \in [(1..n) \X A -> A] /\ <<>> \in A
  BY <1>3
<1> HIDE DEF G, A
<1>5. PICK f \in [SUBSET (1..n) -> A] : Folds(f, n, <<>>, G)
  BY <1>4, FoldExists
<1>6. ASSUME NEW x \in SUBSET (1..n), x # {}
      PROVE  f[x] = Collected(f[x \ {Max(x)}], inputs[Max(x)], k)
  <2>1. Max(x) \in 1..n /\ x \ {Max(x)} \in SUBSET (1..n)
    BY <1>6, LastIndex
  <2>2. f[x \ {Max(x)}] \in A
    BY <2>1
  <2> QED
    BY <1>5, <1>6, <2>1, <2>2 DEF G, Folds
<1>7. f = Step(f)
  BY <1>5, <1>6 DEF Folds
<1>8. it = Step(it)
  BY <1>7
<1> HIDE DEF it, J
<1>9. it[{}] = <<>> /\ \A i \in 1..n : it[1..i] = Collected(it[1..(i - 1)], inputs[i], k)
  <2>1. \A x \in SUBSET (1..n) : it[x] = IF x = {} THEN <<>> ELSE Collected(it[x \ {Max(x)}], inputs[Max(x)], k)
    BY <1>8
  <2> QED
    BY <2>1, Segment
<1>10. it[{}] \in J[0]
  <2>1. <<>> \in Grouped(inputs, k, 0)
    BY DEF Grouped
  <2> QED
    BY <1>9, <2>1 DEF J
<1>11. ASSUME NEW i \in 1..n, it[1..(i - 1)] \in J[i - 1] PROVE it[1..i] \in J[i]
  <2> DEFINE q == it[1..(i - 1)]
             m == inputs[i]
  <2>1. /\ q \in Seq(Inner)
        /\ \A p \in 1..Len(q) : \E j \in 1..(i - 1) : k \in Keys(inputs[j]) /\ q[p] = inputs[j].roarings[k]
        /\ \A j \in 1..(i - 1) : k \in Keys(inputs[j]) => \E p \in 1..Len(q) : q[p] = inputs[j].roarings[k]
    <3>1. J[i - 1] = Grouped(inputs, k, i - 1)
      BY DEF J
    <3> QED
      BY <1>11, <3>1 DEF Grouped
  <2>2. it[1..i] = Collected(q, m, k) /\ m \in Maps
    BY <1>9
  <2>3. 1..i = (1..(i - 1)) \cup {i}
    OBVIOUS
  <2> HIDE DEF q
  <2>4. Collected(q, m, k) \in Grouped(inputs, k, i)
    <3>1. CASE k \notin Keys(m)
      BY <2>1, <2>3, <3>1 DEF Grouped, Collected
    <3>2. CASE k \in Keys(m)
      <4> DEFINE c == Append(q, m.roarings[k])
      <4>1. Collected(q, m, k) = c /\ m.roarings[k] \in Inner
        BY <1>2, <2>2, <3>2 DEF Collected
      <4>2. c \in Seq(Inner) /\ Len(c) = Len(q) + 1 /\ Len(q) \in Nat
        BY <2>1, <4>1
      <4>3. \A p \in 1..Len(q) : c[p] = q[p]
        BY <2>1, <4>1
      <4>4. c[Len(c)] = m.roarings[k]
        BY <2>1, <4>1
      <4> HIDE DEF c
      <4>5. \A p \in 1..Len(c) : \E j \in 1..i : k \in Keys(inputs[j]) /\ c[p] = inputs[j].roarings[k]
        <5>1. \A p \in 1..Len(c) : p \in 1..Len(q) \/ p = Len(c)
          BY <4>2
        <5> QED
          BY <2>1, <2>3, <3>2, <4>3, <4>4, <5>1
      <4>6. \A j \in 1..i : k \in Keys(inputs[j]) => \E p \in 1..Len(c) : c[p] = inputs[j].roarings[k]
        <5>1. \A p \in 1..Len(q) : p \in 1..Len(c)
          BY <4>2
        <5>2. Len(c) \in 1..Len(c)
          BY <4>2
        <5> QED
          BY <2>1, <2>3, <4>3, <4>4, <5>1, <5>2
      <4> QED
        BY <4>1, <4>2, <4>5, <4>6 DEF Grouped
    <3> QED
      BY <3>1, <3>2
  <2> QED
    BY <2>2, <2>4 DEF J
<1>12. it[1..n] \in J[n]
  BY <1>10, <1>11, FoldKeeps
<1> QED
  BY <1>1, <1>12 DEF J

\* fastunion: the values of all inputs, with flags and empty bitmaps of theirs.
LEMMA FastUnionCorrect ==
  ASSUME NEW n \in Nat, NEW inputs \in [1..n -> Maps]
  PROVE  LET r == fastunion(inputs)
         IN  /\ r \in Maps /\ r.copyOnWrite = FALSE
             /\ \A k \in Keys(r) : \E i \in 1..n :
                  k \in Keys(inputs[i]) /\ r.roarings[k].cow = inputs[i].roarings[k].cow
             /\ \A k \in Keys(r) : Vals(r, k) = {} => \E i \in 1..n : k \in Keys(inputs[i]) /\ Vals(inputs[i], k) = {}
             /\ Members(r) = UNION {Members(inputs[i]) : i \in 1..n}
<1> DEFINE keys == UNION {Keys(inputs[i]) : i \in 1..n}
           f == [k \in keys |-> OrMany(GroupOf(inputs, k))]
           r == fastunion(inputs)
           S == UNION {Members(inputs[i]) : i \in 1..n}
<1>1. r = [roarings |-> f, copyOnWrite |-> FALSE]
  BY DEF fastunion, GroupOf
<1>2. keys \in SUBSET Halves
  BY MapParts
<1>3. ASSUME NEW k \in keys
      PROVE  /\ f[k] \in Inner
             /\ f[k].vals = UNION {ValsOrNone(inputs[i], k) : i \in 1..n}
             /\ \E i \in 1..n : k \in Keys(inputs[i]) /\ f[k].cow = inputs[i].roarings[k].cow
  <2> DEFINE q == GroupOf(inputs, k)
             x == OrMany(q)
  <2>1. f[k] = x
    OBVIOUS
  <2>2. q \in Grouped(inputs, k, n)
    BY <1>2, GroupFacts
  <2> HIDE DEF q
  <2>3. /\ q \in Seq(Inner)
        /\ \A p \in 1..Len(q) : \E j \in 1..n : k \in Keys(inputs[j]) /\ q[p] = inputs[j].roarings[k]
        /\ \A j \in 1..n : k \in Keys(inputs[j]) => \E p \in 1..Len(q) : q[p] = inputs[j].roarings[k]
    BY <2>2 DEF Grouped
  <2>4. Len(q) >= 1
    <3>1. PICK j \in 1..n : k \in Keys(inputs[j])
      OBVIOUS
    <3>2. PICK p \in 1..Len(q) : q[p] = inputs[j].roarings[k]
      BY <2>3, <3>1
    <3>3. Len(q) \in Nat
      BY <2>3
    <3> QED
      BY <3>2, <3>3
  <2>5. x \in Unites(q, Len(q))
    BY <2>3, <2>4, OrManyFacts
  <2> HIDE DEF x
  <2>6. x \in Inner /\ x.vals = UNION {q[p].vals : p \in 1..Len(q)} /\ \E p \in 1..Len(q) : x.cow = q[p].cow
    BY <2>5 DEF Unites
  <2>7. \E i \in 1..n : k \in Keys(inputs[i]) /\ x.cow = inputs[i].roarings[k].cow
    BY <2>3, <2>6
  <2>8. ASSUME NEW l PROVE l \in x.vals <=> l \in UNION {ValsOrNone(inputs[i], k) : i \in 1..n}
    <3>1. ASSUME NEW p \in 1..Len(q), l \in q[p].vals PROVE \E i \in 1..n : l \in ValsOrNone(inputs[i], k)
      BY <2>3, <3>1 DEF ValsOrNone, Vals
    <3>2. ASSUME NEW i \in 1..n, l \in ValsOrNone(inputs[i], k) PROVE \E p \in 1..Len(q) : l \in q[p].vals
      BY <2>3, <3>2 DEF ValsOrNone, Vals
    <3> QED
      BY <2>6, <3>1, <3>2
  <2> HIDE DEF f
  <2> QED
    BY <2>1, <2>6, <2>7, <2>8
<1>4. f \in [keys -> Inner]
  BY <1>3
<1> HIDE DEF f, r
<1>5. r \in Maps /\ r.roarings = f /\ Keys(r) = keys /\ r.copyOnWrite = FALSE
  BY <1>1, <1>2, <1>4, MakesMap DEF Keys
<1>6. \A k \in Keys(r) : \E i \in 1..n :
        k \in Keys(inputs[i]) /\ r.roarings[k].cow = inputs[i].roarings[k].cow
  BY <1>3, <1>5
<1>7. ASSUME NEW k \in Keys(r), Vals(r, k) = {}
      PROVE  \E i \in 1..n : k \in Keys(inputs[i]) /\ Vals(inputs[i], k) = {}
  <2>1. PICK i \in 1..n : k \in Keys(inputs[i])
    BY <1>5
  <2>2. Vals(inputs[i], k) \subseteq Vals(r, k)
    BY <1>3, <1>5, <2>1 DEF Vals, ValsOrNone
  <2> QED
    BY <1>7, <2>1, <2>2
<1>8. ASSUME NEW h \in Halves, NEW l \in Lowers PROVE l \in ValsOrNone(r, h) <=> uniteBytes(h, l) \in S
  <2>1. l \in ValsOrNone(r, h) <=> \E i \in 1..n : l \in ValsOrNone(inputs[i], h)
    <3>1. CASE h \in keys
      <4>1. ValsOrNone(r, h) = UNION {ValsOrNone(inputs[i], h) : i \in 1..n}
        BY <1>3, <1>5, <3>1 DEF ValsOrNone, Vals
      <4> QED
        BY <4>1
    <3>2. CASE h \notin keys
      BY <1>5, <3>2 DEF ValsOrNone
    <3> QED
      BY <3>1, <3>2
  <2>2. \A i \in 1..n : uniteBytes(h, l) \in Members(inputs[i]) <=> l \in ValsOrNone(inputs[i], h)
    BY MemberHalves
  <2> QED
    BY <2>1, <2>2
<1>9. S \in SUBSET Values
  BY MembersAreValues
<1> HIDE DEF S
<1>10. Members(r) = S
  BY <1>5, <1>8, <1>9, MembersBy
<1> QED
  BY <1>5, <1>6, <1>7, <1>10 DEF r, S

-----------------------------------------------------------------------------
(* Sets of numbers in order.                                               *)

\* The elements below another one.
Below(S, v) == {w \in S : w < v}

\* The numbers of elements below two elements of a set are in their order.
LEMMA BelowGrows ==
  ASSUME NEW S \in SUBSET Nat, IsFiniteSet(S), NEW v \in S, NEW w \in S, v < w
  PROVE  Cardinality(Below(S, v)) + 1 <= Cardinality(Below(S, w))
<1> DEFINE V == Below(S, v)
           W == Below(S, w)
<1>1. V \in SUBSET S /\ W \in SUBSET S
  BY DEF Below
<1>2. IsFiniteSet(V) /\ IsFiniteSet(W)
  BY <1>1, FS_Subset
<1>3. v \notin V /\ v \in S /\ v \in Nat
  BY DEF Below
<1>4. V \cup {v} \in SUBSET W
  <2>1. \A x \in V : x \in Nat /\ x \in S /\ x < v
    BY DEF Below
  <2>2. \A x \in V : x < w
    BY <2>1
  <2> QED
    BY <2>1, <2>2 DEF Below
<1> HIDE DEF V, W
<1>5. Cardinality(V \cup {v}) = Cardinality(V) + 1
  BY <1>2, <1>3, FS_AddElement
<1>6. Cardinality(V \cup {v}) <= Cardinality(W)
  BY <1>2, <1>4, FS_Subset
<1> QED
  BY <1>5, <1>6 DEF V, W

\* There are fewer elements below an element than elements.
LEMMA BelowIsFewer ==
  ASSUME NEW S \in SUBSET Nat, IsFiniteSet(S), NEW v \in S
  PROVE  Cardinality(Below(S, v)) \in Nat /\ Cardinality(Below(S, v)) < Cardinality(S) /\ Cardinality(S) \in Nat
<1> DEFINE V == Below(S, v)
<1>1. V \in SUBSET S /\ v \notin V
  BY DEF Below
<1> HIDE DEF V
<1>2. IsFiniteSet(V) /\ Cardinality(V) <= Cardinality(S) /\ (Cardinality(S) = Cardinality(V) => S = V)
  BY <1>1, FS_Subset
<1>3. Cardinality(V) # Cardinality(S)
  BY <1>1, <1>2
<1>4. Cardinality(V) \in Nat /\ Cardinality(S) \in Nat
  BY <1>2, FS_CardinalityType
<1> QED
  BY <1>2, <1>3, <1>4 DEF V

\* Every number smaller than the size of a set is the number of elements below one of its elements.
LEMMA BelowReaches ==
  ASSUME NEW S \in SUBSET Nat, IsFiniteSet(S), NEW i \in 1..Cardinality(S)
  PROVE  \E v \in S : Cardinality(Below(S, v)) = i - 1
<1> DEFINE T == {j \in Nat : j < Cardinality(S) => \E v \in S : Cardinality(Below(S, v)) = j}
<1>1. Cardinality(S) \in Nat
  BY FS_CardinalityType
<1>2. 0 \in T
  <2> SUFFICES ASSUME 0 < Cardinality(S) PROVE \E v \in S : Cardinality(Below(S, v)) = 0
    OBVIOUS
  <2>1. S # {}
    BY FS_EmptySet
  <2>2. Min(S) \in S /\ \A y \in S : Min(S) <= y
    BY <2>1, MinFacts
  <2>3. Below(S, Min(S)) = {}
    <3>1. ASSUME NEW y \in S PROVE ~(y < Min(S))
      <4> DEFINE u == Min(S)
      <4>1. u \in Nat /\ y \in Nat /\ u <= y
        BY <2>2
      <4> HIDE DEF u
      <4>2. ~(y < u)
        BY <4>1
      <4> QED
        BY <4>2 DEF u
    <3> QED
      BY <3>1 DEF Below
  <2> QED
    BY <2>2, <2>3, FS_EmptySet
<1>3. ASSUME NEW j \in Nat, j \in T PROVE j + 1 \in T
  <2> SUFFICES ASSUME j + 1 < Cardinality(S) PROVE \E v \in S : Cardinality(Below(S, v)) = j + 1
    OBVIOUS
  <2>1. PICK v \in S : Cardinality(Below(S, v)) = j
    BY <1>1, <1>3
  <2> DEFINE V == Below(S, v)
             N == {w \in S : w > v}
             u == Min(N)
  <2>2. V \in SUBSET S /\ v \notin V /\ v \in Nat
    BY DEF Below
  <2>3. IsFiniteSet(V)
    BY <2>2, FS_Subset
  <2>4. Cardinality(V \cup {v}) = j + 1
    BY <2>1, <2>2, <2>3, FS_AddElement
  <2>5. N # {}
    <3> SUFFICES ASSUME N = {} PROVE FALSE
      OBVIOUS
    <3>1. \A x \in S : x \in Nat /\ ~(x > v)
      OBVIOUS
    <3>2. \A x \in S : x < v \/ x = v
      BY <2>2, <3>1
    <3>3. S = V \cup {v}
      BY <2>2, <3>2 DEF Below
    <3> HIDE DEF V
    <3> QED
      BY <2>4, <3>3
  <2>6. N \in SUBSET Nat
    OBVIOUS
  <2>7. u \in N /\ \A y \in N : u <= y
    <3> HIDE DEF N
    <3> QED
      BY <2>5, <2>6, MinFacts
  <2> HIDE DEF u
  <2>8. u \in S /\ u > v /\ u \in Nat
    BY <2>7
  <2>9. \A x \in S : x < u <=> x < v \/ x = v
    <3> SUFFICES ASSUME NEW x \in S PROVE x < u <=> x < v \/ x = v
      OBVIOUS
    <3>1. x \in Nat /\ (x > v => u <= x)
      BY <2>7
    <3> QED
      BY <2>2, <2>8, <3>1
  <2>10. Below(S, u) = V \cup {v}
    BY <2>9 DEF Below
  <2> QED
    BY <2>4, <2>8, <2>10
<1>4. Nat \subseteq T
  <2> HIDE DEF T
  <2> QED
    BY <1>2, <1>3, SetInduction
<1>5. i - 1 \in Nat /\ i - 1 < Cardinality(S)
  BY <1>1
<1> QED
  BY <1>4, <1>5

\* Ordered lists every element of a set once, in order.
LEMMA OrderedFacts ==
  ASSUME NEW S \in SUBSET Nat, IsFiniteSet(S)
  PROVE  /\ Ordered(S) \in Seq(S) /\ Len(Ordered(S)) = Cardinality(S) /\ Cardinality(S) \in Nat
         /\ \A i \in 1..Cardinality(S) : Ordered(S)[i] \in S /\ Cardinality(Below(S, Ordered(S)[i])) = i - 1
         /\ \A v \in S : /\ Cardinality(Below(S, v)) + 1 \in 1..Cardinality(S)
                         /\ Ordered(S)[Cardinality(Below(S, v)) + 1] = v
         /\ \A i, j \in 1..Cardinality(S) : i < j => Ordered(S)[i] < Ordered(S)[j]
<1> DEFINE q == Ordered(S)
           n == Cardinality(S)
<1>1. n \in Nat
  BY FS_CardinalityType
<1>2. ASSUME NEW i \in 1..n PROVE q[i] \in S /\ Cardinality(Below(S, q[i])) = i - 1
  <2>1. q[i] = CHOOSE v \in S : Cardinality(Below(S, v)) = i - 1
    BY DEF Ordered, Below
  <2>2. \E v \in S : Cardinality(Below(S, v)) = i - 1
    BY BelowReaches
  <2> HIDE DEF q
  <2> QED
    BY <2>1, <2>2
<1>3. q = [i \in 1..n |-> CHOOSE v \in S : Cardinality({w \in S : w < v}) = i - 1]
  BY DEF Ordered
<1> HIDE DEF q
<1>4. q \in [1..n -> S]
  <2>1. DOMAIN q = 1..n /\ q = [i \in DOMAIN q |-> q[i]]
    BY <1>3
  <2> QED
    BY <1>2, <2>1
<1>5. q \in Seq(S) /\ Len(q) = n
  BY <1>1, <1>4
<1>6. ASSUME NEW i \in 1..n, NEW j \in 1..n, i < j PROVE q[i] < q[j]
  <2>1. q[i] \in S /\ Cardinality(Below(S, q[i])) = i - 1 /\ q[i] \in Nat
    BY <1>2
  <2>2. q[j] \in S /\ Cardinality(Below(S, q[j])) = j - 1 /\ q[j] \in Nat
    BY <1>2
  <2>3. ~(q[j] < q[i])
    <3> SUFFICES ASSUME q[j] < q[i] PROVE FALSE
      OBVIOUS
    <3>1. Cardinality(Below(S, q[j])) + 1 <= Cardinality(Below(S, q[i]))
      BY <2>1, <2>2, BelowGrows
    <3> QED
      BY <1>1, <1>6, <2>1, <2>2, <3>1
  <2>4. q[i] # q[j]
    BY <1>6, <2>1, <2>2
  <2> QED
    BY <2>1, <2>2, <2>3, <2>4
<1>7. ASSUME NEW v \in S
      PROVE  Cardinality(Below(S, v)) + 1 \in 1..n /\ q[Cardinality(Below(S, v)) + 1] = v
  <2> DEFINE i == Cardinality(Below(S, v)) + 1
  <2>1. i \in 1..n
    BY BelowIsFewer
  <2>2. q[i] \in S /\ Cardinality(Below(S, q[i])) = i - 1 /\ q[i] \in Nat /\ v \in Nat
    BY <1>2, <2>1
  <2>3. Cardinality(Below(S, v)) = i - 1 /\ i - 1 \in Nat
    <3>1. Cardinality(Below(S, v)) \in Nat
      BY BelowIsFewer
    <3> QED
      BY <3>1
  <2> HIDE DEF i
  <2>4. ~(q[i] < v)
    <3> SUFFICES ASSUME q[i] < v PROVE FALSE
      OBVIOUS
    <3>1. Cardinality(Below(S, q[i])) + 1 <= Cardinality(Below(S, v))
      BY <2>2, BelowGrows
    <3> QED
      BY <2>2, <2>3, <3>1
  <2>5. ~(v < q[i])
    <3> SUFFICES ASSUME v < q[i] PROVE FALSE
      OBVIOUS
    <3>1. Cardinality(Below(S, v)) + 1 <= Cardinality(Below(S, q[i]))
      BY <2>2, BelowGrows
    <3> QED
      BY <2>2, <2>3, <3>1
  <2>6. q[i] = v
    BY <2>2, <2>4, <2>5
  <2> QED
    BY <2>1, <2>6 DEF i
<1> QED
  BY <1>1, <1>2, <1>5, <1>6, <1>7 DEF q

\* A sequence whose i-th element is in the set, with i - 1 elements below it, is Ordered.
LEMMA OrderedIs ==
  ASSUME NEW S \in SUBSET Nat, IsFiniteSet(S), NEW n \in Nat, n = Cardinality(S), NEW q \in [1..n -> S],
         \A i \in 1..n : Cardinality(Below(S, q[i])) = i - 1
  PROVE  q = Ordered(S)
<1> DEFINE o == Ordered(S)
<1>1. /\ o \in Seq(S) /\ Len(o) = n
      /\ \A v \in S : o[Cardinality(Below(S, v)) + 1] = v
  BY OrderedFacts
<1> HIDE DEF o
<1>2. o \in [1..n -> S]
  BY <1>1
<1>3. ASSUME NEW i \in 1..n PROVE o[i] = q[i]
  <2>1. q[i] \in S /\ Cardinality(Below(S, q[i])) = i - 1 /\ (i - 1) + 1 = i
    OBVIOUS
  <2>2. o[Cardinality(Below(S, q[i])) + 1] = q[i]
    BY <1>1, <2>1
  <2> QED
    BY <2>1, <2>2
<1>4. o = q
  BY <1>2, <1>3
<1> QED
  BY <1>4 DEF o

\* The elements of a set before those of another one that are all larger.
LEMMA OrderedConcat ==
  ASSUME NEW A \in SUBSET Nat, IsFiniteSet(A), NEW B \in SUBSET Nat, IsFiniteSet(B),
         \A v \in A, w \in B : v < w
  PROVE  Ordered(A) \o Ordered(B) = Ordered(A \cup B)
<1> DEFINE p == Ordered(A)
           r == Ordered(B)
           q == p \o r
           S == A \cup B
           c == Cardinality(A)
           d == Cardinality(B)
<1>1. p \in Seq(A) /\ Len(p) = c /\ c \in Nat
  BY OrderedFacts
<1>2. r \in Seq(B) /\ Len(r) = d /\ d \in Nat
  BY OrderedFacts
<1>3. \A i \in 1..c : p[i] \in A /\ Cardinality(Below(A, p[i])) = i - 1
  BY OrderedFacts
<1>4. \A i \in 1..d : r[i] \in B /\ Cardinality(Below(B, r[i])) = i - 1
  BY OrderedFacts
<1>5. A \cap B = {}
  BY SMT
<1>6. IsFiniteSet(S) /\ Cardinality(S) = c + d
  <2>1. Cardinality(A \cap B) = 0
    BY <1>5, FS_EmptySet
  <2> QED
    <3>1. Cardinality(S) = c + d - Cardinality(A \cap B) /\ IsFiniteSet(S)
      BY FS_Union
    <3> QED
      BY <1>1, <1>2, <2>1, <3>1
<1>7. S \in SUBSET Nat
  OBVIOUS
<1> HIDE DEF p, r, c, d
<1>8. q \in Seq(S) /\ Len(q) = c + d
  BY <1>1, <1>2
<1>9. \A i \in 1..c : q[i] = p[i]
  BY <1>1, <1>2
<1>10. \A i \in (c + 1)..(c + d) : q[i] = r[i - c]
  BY <1>1, <1>2
<1> HIDE DEF q, S
<1>11. ASSUME NEW i \in 1..c PROVE Cardinality(Below(S, q[i])) = i - 1
  <2>1. q[i] = p[i] /\ p[i] \in A /\ Cardinality(Below(A, p[i])) = i - 1
    BY <1>3, <1>9
  <2>2. \A w \in B : ~(w < p[i])
    <3>1. p[i] \in Nat /\ \A w \in B : w \in Nat /\ p[i] < w
      BY <2>1
    <3> QED
      BY <3>1
  <2>3. Below(S, p[i]) = Below(A, p[i])
    BY <2>2 DEF Below, S
  <2> QED
    BY <2>1, <2>3
<1>12. ASSUME NEW i \in (c + 1)..(c + d) PROVE Cardinality(Below(S, q[i])) = i - 1
  <2> DEFINE j == i - c
             V == Below(B, r[j])
  <2>1. j \in 1..d /\ q[i] = r[j]
    BY <1>1, <1>2, <1>10
  <2>2. r[j] \in B /\ Cardinality(V) = j - 1
    BY <1>4, <2>1
  <2>3. \A v \in A : v < r[j]
    BY <2>2
  <2>4. Below(S, r[j]) = A \cup V
    BY <2>3 DEF Below, S
  <2>5. V \in SUBSET B
    BY DEF Below
  <2> HIDE DEF V
  <2>6. IsFiniteSet(V) /\ A \cap V = {}
    BY <1>5, <2>5, FS_Subset
  <2>7. Cardinality(A \cap V) = 0
    BY <2>6, FS_EmptySet
  <2>8. Cardinality(A \cup V) = c + (j - 1) - 0
    BY <2>2, <2>6, <2>7, FS_Union DEF c
  <2>9. c + (j - 1) - 0 = i - 1
    BY <1>1, <1>2
  <2> QED
    BY <2>1, <2>4, <2>8, <2>9
<1> DEFINE n == c + d
<1>13. n \in Nat /\ n = Cardinality(S) /\ q \in [1..n -> S]
  BY <1>1, <1>2, <1>6, <1>8
<1>14. \A i \in 1..n : i \in 1..c \/ i \in (c + 1)..(c + d)
  BY <1>1, <1>2
<1>15. \A i \in 1..n : Cardinality(Below(S, q[i])) = i - 1
  BY <1>11, <1>12, <1>14
<1> HIDE DEF n
<1>16. IsFiniteSet(S) /\ S \in SUBSET Nat
  BY <1>6, <1>7
<1>17. q = Ordered(S)
  BY <1>13, <1>15, <1>16, OrderedIs
<1> QED
  BY <1>17 DEF p, r, q, S

-----------------------------------------------------------------------------
(* Files.                                                                  *)

\* Sequences that list the elements of a finite set, each one once.
Lists(K) ==
  {q \in Seq(K) :
     /\ Len(q) = Cardinality(K)
     /\ \A k \in K : \E p \in 1..Len(q) : q[p] = k
     /\ \A p, r \in 1..Len(q) : q[p] = q[r] => p = r}

\* The number of keys, and of values.
LEMMA FiniteParts ==
  ASSUME NEW m \in Maps
  PROVE  /\ IsFiniteSet(Keys(m)) /\ Cardinality(Keys(m)) \in Nat
         /\ \A k \in Keys(m) : Cardinality(Vals(m, k)) \in Nat
<1>1. IsFiniteSet(Halves) /\ IsFiniteSet(Lowers)
  BY Bounds, FS_Interval DEF Halves, Lowers, uint32_max
<1> QED
  BY <1>1, MapParts, FS_Subset, FS_CardinalityType

\* KeySeq lists the keys.
LEMMA KeySeqFacts ==
  ASSUME NEW m \in Maps
  PROVE  KeySeq(m) \in Lists(Keys(m))
<1> DEFINE K == Keys(m)
           q == KeySeq(m)
           n == Cardinality(K)
<1>1. K \in SUBSET Nat /\ IsFiniteSet(K)
  BY FiniteParts, MapParts, Bounds
<1>2. q = Ordered(K)
  BY DEF KeySeq
<1> HIDE DEF K, q
<1>3. /\ q \in Seq(K) /\ Len(q) = n /\ n \in Nat
      /\ \A i \in 1..n : q[i] \in K
      /\ \A v \in K : /\ Cardinality(Below(K, v)) + 1 \in 1..n
                      /\ q[Cardinality(Below(K, v)) + 1] = v
      /\ \A i, j \in 1..n : i < j => q[i] < q[j]
  BY <1>1, <1>2, OrderedFacts
<1>4. \A v \in K : \E i \in 1..Len(q) : q[i] = v
  BY <1>3
<1>5. ASSUME NEW i \in 1..Len(q), NEW j \in 1..Len(q), q[i] = q[j] PROVE i = j
  <2>1. q[i] \in Nat /\ q[j] \in Nat
    BY <1>1, <1>3
  <2>2. ~(i < j) /\ ~(j < i)
    BY <1>3, <1>5, <2>1
  <2> QED
    BY <1>3, <2>2
<1> HIDE DEF n
<1>6. q \in Lists(K)
  BY <1>3, <1>4, <1>5 DEF Lists, n
<1> QED
  BY <1>6 DEF K, q

\* The bytes that the inner bitmaps of some keys take, by the keys.
IsSizes(f, m) ==
  /\ f[{}] = 0
  /\ \A s \in SUBSET Keys(m) :
       /\ f[s] \in Nat
       /\ \A k \in s : f[s] = InnerBytes(Vals(m, k)) + f[s \ {k}]

\* There are such sizes, and getSizeInBytes adds up those of all keys.
LEMMA SizesExist ==
  ASSUME NEW m \in Maps
  PROVE  \E f : IsSizes(f, m) /\ getSizeInBytes(m) = CountBytes + Cardinality(Keys(m)) * KeyBytes + f[Keys(m)]
<1> DEFINE S == Keys(m)
           g == [k \in S |-> InnerBytes(Vals(m, k))]
           Step(it) == [s \in SUBSET S |->
                          IF s = {} THEN 0
                          ELSE LET x == CHOOSE x \in s : TRUE
                               IN  InnerBytes(Vals(m, x)) + it[s \ {x}]]
           it == CHOOSE f : f = Step(f)
<1>1. getSizeInBytes(m) = CountBytes + Cardinality(Keys(m)) * KeyBytes + it[S]
  BY DEF getSizeInBytes, MapThenSumSet, MapThenFoldSet
<1>2. IsFiniteSet(S) /\ g \in [S -> Nat]
  BY FiniteParts DEF InnerBytes
<1> HIDE DEF g
<1>3. PICK f \in [SUBSET S -> Nat] : Sums(f, S, g)
  BY <1>2, SumExists
<1>4. \A k \in S : g[k] = InnerBytes(Vals(m, k))
  BY DEF g
<1>5. f = Step(f)
  <2>1. ASSUME NEW s \in SUBSET S PROVE f[s] = Step(f)[s]
    <3>1. CASE s = {}
      BY <1>3, <3>1 DEF Sums
    <3>2. CASE s # {}
      <4> DEFINE x == CHOOSE x \in s : TRUE
      <4>1. f[s] = g[x] + f[s \ {x}]
        BY <1>3, <3>2 DEF Sums
      <4>2. x \in S
        BY <3>2
      <4>3. g[x] = InnerBytes(Vals(m, x))
        <5> HIDE DEF x
        <5> QED
          BY <1>4, <4>2
      <4> QED
        BY <3>2, <4>1, <4>3
    <3> QED
      BY <3>1, <3>2
  <2> QED
    BY <2>1
<1>6. it = Step(it)
  BY <1>5
<1> HIDE DEF it
<1>7. Sums(it, S, g)
  <2>1. ASSUME NEW s \in SUBSET S
        PROVE  it[s] = IF s = {} THEN 0
                       ELSE g[CHOOSE x \in s : TRUE] + it[s \ {CHOOSE x \in s : TRUE}]
    <3>1. CASE s = {}
      BY <1>6, <3>1
    <3>2. CASE s # {}
      <4> DEFINE x == CHOOSE x \in s : TRUE
      <4>1. it[s] = InnerBytes(Vals(m, x)) + it[s \ {x}]
        BY <1>6, <3>2
      <4>2. x \in S
        BY <3>2
      <4>3. g[x] = InnerBytes(Vals(m, x))
        <5> HIDE DEF x
        <5> QED
          BY <1>4, <4>2
      <4> QED
        BY <3>2, <4>1, <4>3
    <3> QED
      BY <3>1, <3>2
  <2> QED
    BY <2>1 DEF Sums
<1>8. \A s \in SUBSET S : it[s] \in Nat /\ \A k \in s : it[s] = g[k] + it[s \ {k}]
  BY <1>2, <1>7, SumsAreNat, SumSplits
<1>9. it[{}] = 0
  BY <1>7 DEF Sums
<1>10. IsSizes(it, m)
  BY <1>4, <1>8, <1>9 DEF IsSizes
<1> QED
  BY <1>1, <1>10

\* One entry read by readSafe.
Entered(acc, e) ==
  LET left == acc.left - KeyBytes
  IN  IF ~acc.ok \/ left < 0 \/ left < InnerBytes(e.vals) THEN [acc EXCEPT !.ok = FALSE]
      ELSE [ok |-> TRUE, left |-> left - InnerBytes(e.vals),
            map |-> Put(acc.map, e.key, [vals |-> e.vals, cow |-> FALSE])]

\* The first i keys of q are read, and the bytes of the others are left.
ReadTo(m, q, f, i) ==
  {acc \in [ok : {TRUE}, left : Nat, map : Maps] :
     /\ acc.left = (Len(q) - i) * KeyBytes + f[Keys(m) \ {q[p] : p \in 1..i}]
     /\ acc.map.copyOnWrite = FALSE
     /\ Keys(acc.map) = {q[p] : p \in 1..i}
     /\ \A k \in Keys(acc.map) : acc.map.roarings[k] = [vals |-> Vals(m, k), cow |-> FALSE]}

\* A map as constructed.
LEMMA EmptyFacts ==
  Empty \in Maps /\ Keys(Empty) = {} /\ Empty.copyOnWrite = FALSE
<1>1. Empty.roarings \in [{} -> Inner] /\ {} \in SUBSET Halves
  BY DEF Empty
<1>2. [roarings |-> Empty.roarings, copyOnWrite |-> FALSE] \in Maps
  BY <1>1, MakesMap
<1> QED
  BY <1>1, <1>2 DEF Empty, Keys

\* The file has enough bytes left for the next entry.
LEMMA ReadContinues ==
  ASSUME NEW m \in Maps, NEW q \in Lists(Keys(m)), NEW f, IsSizes(f, m),
         NEW i \in 1..Len(q), NEW acc \in ReadTo(m, q, f, i - 1)
  PROVE  Entered(acc, [key |-> q[i], vals |-> Vals(m, q[i])]) \in ReadTo(m, q, f, i)
<1> DEFINE k == q[i]
           rest == Keys(m) \ {q[p] : p \in 1..(i - 1)}
           inner == [vals |-> Vals(m, k), cow |-> FALSE]
           map == Put(acc.map, k, inner)
           bytes == InnerBytes(Vals(m, k))
<1>1. /\ q \in Seq(Keys(m)) /\ Len(q) \in Nat
      /\ \A p \in 1..Len(q) : q[p] \in Keys(m)
      /\ \A p, r \in 1..Len(q) : q[p] = q[r] => p = r
  BY DEF Lists
<1>2. /\ acc.ok = TRUE /\ acc.left \in Nat /\ acc.map \in Maps
      /\ acc.left = (Len(q) - (i - 1)) * KeyBytes + f[rest]
      /\ acc.map.copyOnWrite = FALSE
      /\ Keys(acc.map) = {q[p] : p \in 1..(i - 1)}
      /\ \A j \in Keys(acc.map) : acc.map.roarings[j] = [vals |-> Vals(m, j), cow |-> FALSE]
  BY DEF ReadTo
<1>3. 1..i = (1..(i - 1)) \cup {i} /\ i \notin 1..(i - 1) /\ 1..(i - 1) \subseteq 1..Len(q)
  BY <1>1
<1>4. k \in Keys(m) /\ k \in rest /\ rest \in SUBSET Keys(m)
  BY <1>1, <1>3
<1>5. rest \ {k} = Keys(m) \ {q[p] : p \in 1..i} /\ {q[p] : p \in 1..i} = Keys(acc.map) \cup {k}
  BY <1>2, <1>3
<1> HIDE DEF rest
<1>6. f[rest] = bytes + f[rest \ {k}] /\ f[rest \ {k}] \in Nat /\ f[rest] \in Nat
  <2>1. rest \ {k} \in SUBSET Keys(m)
    BY <1>4
  <2> QED
    BY <1>4, <2>1 DEF IsSizes
<1>7. bytes \in Nat
  BY <1>4, FiniteParts DEF InnerBytes
<1>8. k \in Halves /\ inner \in Inner
  BY <1>4, MapParts DEF Inner
<1> HIDE DEF k
<1>9. /\ map \in Maps /\ Keys(map) = Keys(acc.map) \cup {k} /\ map.copyOnWrite = FALSE
      /\ \A j \in Keys(map) : map.roarings[j] = [vals |-> Vals(m, j), cow |-> FALSE]
  <2> HIDE DEF inner
  <2>1. /\ map \in Maps /\ Keys(map) = Keys(acc.map) \cup {k} /\ map.copyOnWrite = FALSE
        /\ map.roarings[k] = inner
        /\ \A j \in Keys(acc.map) \ {k} : map.roarings[j] = acc.map.roarings[j]
    BY <1>2, <1>8, PutFacts
  <2> HIDE DEF map
  <2> QED
    BY <1>2, <2>1 DEF inner
<1> HIDE DEF bytes, map
<1>10. acc.left - KeyBytes - bytes = (Len(q) - i) * KeyBytes + f[rest \ {k}]
  <2> DEFINE l == Len(q)
             left == acc.left
             all == f[rest]
             others == f[rest \ {k}]
  <2>1. l \in Nat /\ i \in Nat /\ all \in Nat /\ others \in Nat /\ bytes \in Nat
    BY <1>1, <1>6, <1>7
  <2>2. left = (l - (i - 1)) * 4 + all /\ all = bytes + others
    BY <1>2, <1>6 DEF KeyBytes
  <2> HIDE DEF l, left, all, others
  <2>3. left - 4 - bytes = (l - i) * 4 + others
    BY <2>1, <2>2
  <2> QED
    BY <2>3 DEF l, left, others, KeyBytes
<1>11. /\ acc.left - KeyBytes - bytes \in Nat /\ acc.left - KeyBytes \in Int
       /\ ~(acc.left - KeyBytes < 0) /\ ~(acc.left - KeyBytes < bytes)
  <2> DEFINE left == acc.left
             others == f[rest \ {k}]
             keys == (Len(q) - i) * 4
  <2>1. keys \in Nat /\ others \in Nat /\ left \in Nat
    BY <1>1, <1>2, <1>6
  <2>2. left - 4 - bytes = keys + others
    BY <1>10 DEF KeyBytes
  <2> HIDE DEF left, others, keys
  <2>3. left - 4 - bytes \in Nat /\ left - 4 \in Int /\ ~(left - 4 < 0) /\ ~(left - 4 < bytes)
    BY <1>7, <2>1, <2>2
  <2> QED
    BY <2>3 DEF KeyBytes, left
<1>12. Entered(acc, [key |-> k, vals |-> Vals(m, k)]) =
         [ok |-> TRUE, left |-> acc.left - KeyBytes - bytes, map |-> map]
  BY <1>2, <1>11 DEF Entered, bytes, map
<1>13. [ok |-> TRUE, left |-> acc.left - KeyBytes - bytes, map |-> map] \in ReadTo(m, q, f, i)
  BY <1>5, <1>9, <1>10, <1>11 DEF ReadTo
<1> QED
  BY <1>12, <1>13 DEF k

\* readSafe gives back the keys and the values of the map that was written, all
\* with the flag off, and never runs out of the bytes announced.
LEMMA ReadCorrect ==
  ASSUME NEW m \in Maps
  PROVE  LET r == readSafe(write(m), getSizeInBytes(m)).map
         IN  /\ r \in Maps /\ r.copyOnWrite = FALSE
             /\ Keys(r) = Keys(m)
             /\ \A k \in Keys(m) : Vals(r, k) = Vals(m, k) /\ r.roarings[k].cow = FALSE
<1> DEFINE q == KeySeq(m)
           N == Cardinality(Keys(m))
           s == write(m).entries
           size == getSizeInBytes(m)
           first == [ok |-> TRUE, map |-> Empty, left |-> size - CountBytes]
           A == [ok : BOOLEAN, left : Int, map : Maps]
           Step(it) == [x \in SUBSET DOMAIN s |->
                          IF x = {} THEN first ELSE Entered(it[x \ {Max(x)}], s[Max(x)])]
           it == CHOOSE g : g = Step(g)
           G == [p \in (1..N) \X A |-> Entered(p[2], s[p[1]])]
           r == readSafe(write(m), size)
<1>1. q \in Lists(Keys(m)) /\ N \in Nat
  BY KeySeqFacts, FiniteParts
<1>2. q \in Seq(Keys(m)) /\ Len(q) = N /\ Keys(m) = {q[p] : p \in 1..N} /\ \A p \in 1..N : q[p] \in Keys(m)
  BY <1>1 DEF Lists
<1>3. DOMAIN s = 1..N /\ \A i \in 1..N : s[i] = [key |-> q[i], vals |-> Vals(m, q[i])]
  BY DEF write
<1>4. PICK f : IsSizes(f, m) /\ size = CountBytes + N * KeyBytes + f[Keys(m)]
  BY SizesExist
<1>5. f[Keys(m)] \in Nat
  BY <1>4 DEF IsSizes
<1> HIDE DEF q, N, s, size
<1> DEFINE J == [i \in 0..N |-> ReadTo(m, q, f, i)]
<1>6. size \in Nat /\ size >= CountBytes /\ size - CountBytes = N * KeyBytes + f[Keys(m)]
  BY <1>1, <1>4, <1>5 DEF CountBytes, KeyBytes
<1>7. r = it[DOMAIN s]
  <2>1. ~(size < CountBytes)
    BY <1>6 DEF CountBytes
  <2> QED
    BY <2>1 DEF readSafe, FoldLeft, MapThenFoldSet, Entered, s
<1>8. \A i \in 1..N : s[i].key \in Halves /\ s[i].vals \in SUBSET Lowers /\ InnerBytes(s[i].vals) \in Nat
  <2>1. \A i \in 1..N : q[i] \in Halves /\ Vals(m, q[i]) \in SUBSET Lowers
    BY <1>2, MapParts
  <2>2. \A i \in 1..N : InnerBytes(Vals(m, q[i])) \in Nat
    <3>1. \A k \in Keys(m) : Cardinality(Vals(m, k)) \in Nat
      BY FiniteParts
    <3>2. \A i \in 1..N : Cardinality(Vals(m, q[i])) \in Nat
      BY <1>2, <3>1
    <3> QED
      BY <3>2 DEF InnerBytes
  <2> QED
    BY <1>3, <2>1, <2>2
<1>9. ASSUME NEW acc \in A, NEW i \in 1..N PROVE Entered(acc, s[i]) \in A
  <2> DEFINE e == s[i]
             inner == [vals |-> e.vals, cow |-> FALSE]
  <2>1. inner \in Inner
    BY <1>8 DEF Inner
  <2> HIDE DEF inner
  <2>2. Put(acc.map, e.key, inner) \in Maps
    BY <1>8, <2>1, PutFacts
  <2>3. acc.left - KeyBytes \in Int /\ acc.left - KeyBytes - InnerBytes(e.vals) \in Int
    BY <1>8 DEF KeyBytes
  <2> HIDE DEF e
  <2> QED
    BY <2>2, <2>3 DEF Entered, inner, e
<1>10. first \in A
  BY <1>6, EmptyFacts DEF CountBytes
<1> HIDE DEF first
<1>11. G \in [(1..N) \X A -> A]
  BY <1>9
<1> HIDE DEF G, A
<1>12. PICK g \in [SUBSET (1..N) -> A] : Folds(g, N, first, G)
  BY <1>1, <1>10, <1>11, FoldExists
<1>13. ASSUME NEW x \in SUBSET (1..N), x # {}
       PROVE  g[x] = Entered(g[x \ {Max(x)}], s[Max(x)])
  <2>1. Max(x) \in 1..N /\ x \ {Max(x)} \in SUBSET (1..N)
    BY <1>1, <1>13, LastIndex
  <2>2. g[x \ {Max(x)}] \in A
    BY <2>1
  <2> QED
    BY <1>12, <1>13, <2>1, <2>2 DEF G, Folds
<1>14. g = Step(g)
  BY <1>3, <1>12, <1>13 DEF Folds
<1>15. it = Step(it)
  BY <1>14
<1> HIDE DEF it, J
<1>16. it[{}] = first /\ \A i \in 1..N : it[1..i] = Entered(it[1..(i - 1)], s[i])
  <2>1. \A x \in SUBSET (1..N) : it[x] = IF x = {} THEN first ELSE Entered(it[x \ {Max(x)}], s[Max(x)])
    BY <1>3, <1>15
  <2> QED
    BY <1>1, <2>1, Segment
<1>17. it[{}] \in J[0]
  <2>1. (Len(q) - 0) * KeyBytes = N * KeyBytes /\ 1..0 = {} /\ Keys(m) \ {} = Keys(m)
    BY <1>1, <1>2
  <2>2. {q[p] : p \in 1..0} = {}
    BY <2>1
  <2>3. size - CountBytes \in Nat
    BY <1>6 DEF CountBytes
  <2>4. first \in ReadTo(m, q, f, 0)
    BY <1>6, <2>1, <2>2, <2>3, EmptyFacts DEF ReadTo, first
  <2> QED
    BY <1>1, <1>16, <2>4 DEF J
<1>18. ASSUME NEW i \in 1..N, it[1..(i - 1)] \in J[i - 1] PROVE it[1..i] \in J[i]
  <2>1. it[1..(i - 1)] \in ReadTo(m, q, f, i - 1)
    BY <1>1, <1>18 DEF J
  <2>2. Entered(it[1..(i - 1)], s[i]) \in ReadTo(m, q, f, i)
    BY <1>1, <1>2, <1>3, <1>4, <2>1, ReadContinues
  <2> QED
    BY <1>1, <1>16, <2>2 DEF J
<1>19. it[1..N] \in J[N]
  BY <1>1, <1>17, <1>18, FoldKeeps
<1>20. J[N] = ReadTo(m, q, f, N)
  BY <1>1 DEF J
<1>21. r \in ReadTo(m, q, f, N)
  BY <1>3, <1>7, <1>19, <1>20
<1> HIDE DEF r
<1>22. /\ r.map \in Maps /\ r.map.copyOnWrite = FALSE /\ Keys(r.map) = Keys(m)
       /\ \A k \in Keys(m) : r.map.roarings[k] = [vals |-> Vals(m, k), cow |-> FALSE]
  BY <1>2, <1>21 DEF ReadTo
<1>23. \A k \in Keys(m) : Vals(r.map, k) = Vals(m, k) /\ r.map.roarings[k].cow = FALSE
  <2>1. ASSUME NEW k \in Keys(m)
        PROVE  r.map.roarings[k].vals = Vals(m, k) /\ r.map.roarings[k].cow = FALSE
    <3> DEFINE vals == Vals(m, k)
    <3>1. r.map.roarings[k] = [vals |-> vals, cow |-> FALSE]
      BY <1>22
    <3> HIDE DEF vals
    <3>2. r.map.roarings[k].vals = vals /\ r.map.roarings[k].cow = FALSE
      BY <3>1
    <3> QED
      BY <3>2 DEF vals
  <2>2. \A k \in Keys(m) : Vals(r.map, k) = r.map.roarings[k].vals
    BY DEF Vals
  <2> QED
    BY <2>1, <2>2
<1> QED
  BY <1>22, <1>23 DEF r, size

-----------------------------------------------------------------------------
(* The flag, and maps with the same values.                                *)

\* The values of a map are those of its inner bitmaps.
LEMMA SameMembers ==
  ASSUME NEW m \in Maps, NEW r \in Maps, \A h \in Halves : ValsOrNone(r, h) = ValsOrNone(m, h)
  PROVE  Members(r) = Members(m)
<1>1. Members(m) \in SUBSET Values
  BY MembersAreValues
<1>2. \A h \in Halves, l \in Lowers : l \in ValsOrNone(r, h) <=> uniteBytes(h, l) \in Members(m)
  BY MemberHalves
<1> QED
  BY <1>1, <1>2, MembersBy

\* setCopyOnWrite changes the flag of the map and, with it, of all inner bitmaps.
LEMMA SetFlagFacts ==
  ASSUME NEW m \in Maps, NEW val \in BOOLEAN
  PROVE  LET r == setCopyOnWrite(m, val)
         IN  /\ r \in Maps /\ r.copyOnWrite = val
             /\ Keys(r) = Keys(m) /\ \A k \in Keys(m) : Vals(r, k) = Vals(m, k)
             /\ Members(r) = Members(m)
             /\ \A k \in Keys(r) : r.roarings[k].cow = val \/ (m.copyOnWrite = val /\ r.roarings[k].cow = m.roarings[k].cow)
<1> DEFINE r == setCopyOnWrite(m, val)
<1>1. CASE m.copyOnWrite = val
  BY <1>1 DEF setCopyOnWrite
<1>2. CASE m.copyOnWrite # val
  <2> DEFINE f == [k \in Keys(m) |-> [m.roarings[k] EXCEPT !.cow = val]]
  <2>1. ASSUME NEW k \in Keys(m)
        PROVE  f[k] \in Inner /\ f[k].vals = Vals(m, k) /\ f[k].cow = val
    <3>1. m.roarings[k] \in Inner
      BY MapParts
    <3> QED
      BY <3>1 DEF Inner, Vals
  <2>2. r = [roarings |-> f, copyOnWrite |-> val]
    BY <1>2 DEF setCopyOnWrite
  <2>3. f \in [Keys(m) -> Inner] /\ Keys(m) \in SUBSET Halves
    BY <2>1, MapParts
  <2> HIDE DEF f, r
  <2>4. r \in Maps /\ r.roarings = f /\ Keys(r) = Keys(m) /\ r.copyOnWrite = val
    BY <2>2, <2>3, MakesMap DEF Keys
  <2>5. \A k \in Keys(m) : Vals(r, k) = Vals(m, k)
    BY <2>1, <2>4 DEF Vals
  <2>6. Members(r) = Members(m)
    BY <2>4, <2>5, SameMembers DEF ValsOrNone
  <2> QED
    BY <2>1, <2>4, <2>5, <2>6 DEF r
<1> QED
  BY <1>1, <1>2

\* clear, and the removal of a map from itself.
LEMMA ClearCorrect ==
  ASSUME NEW m \in Maps
  PROVE  Close(m, Without(m, Keys(m))) /\ Members(Without(m, Keys(m))) = {}
<1> DEFINE r == Without(m, Keys(m))
<1>1. r \in Maps /\ Close(m, r) /\ Keys(r) = {}
  BY WithoutPointwise
<1> HIDE DEF r
<1>2. Members(r) = {}
  BY <1>1 DEF Members
<1> QED
  BY <1>1, <1>2 DEF r

\* Empty inner bitmaps hold no values.
LEMMA ShrinkCorrect ==
  ASSUME NEW m \in Maps
  PROVE  Close(m, shrinkToFit(m)) /\ Members(shrinkToFit(m)) = Members(m)
<1> DEFINE K == {k \in Keys(m) : Vals(m, k) = {}}
           r == Without(m, K)
<1>1. shrinkToFit(m) = r
  BY DEF shrinkToFit
<1> HIDE DEF K
<1>2. r \in Maps /\ Close(m, r) /\ \A h \in Halves : ValsOrNone(r, h) = IF h \in K THEN {} ELSE ValsOrNone(m, h)
  BY WithoutPointwise
<1> HIDE DEF r
<1>3. \A h \in Halves : h \in K => ValsOrNone(m, h) = {}
  BY DEF K, ValsOrNone
<1>4. Members(r) = Members(m)
  BY <1>2, <1>3, SameMembers
<1> QED
  BY <1>1, <1>2, <1>4

\* A map with the inner bitmaps of another one, and its own flag.
LEMMA SwapFacts ==
  ASSUME NEW m \in Maps, NEW o \in Maps
  PROVE  LET r == [m EXCEPT !.roarings = o.roarings]
         IN  /\ r \in Maps /\ r.copyOnWrite = m.copyOnWrite
             /\ r.roarings = o.roarings /\ Keys(r) = Keys(o)
             /\ Members(r) = Members(o)
<1> DEFINE r == [m EXCEPT !.roarings = o.roarings]
<1>1. Keys(o) \in SUBSET Halves /\ o.roarings \in [Keys(o) -> Inner]
  BY MapParts
<1>2. r \in Maps /\ r.roarings = o.roarings /\ Keys(r) = Keys(o) /\ r.copyOnWrite = m.copyOnWrite
  BY <1>1, NewRoarings
<1> HIDE DEF r
<1>3. \A h \in Halves : ValsOrNone(r, h) = ValsOrNone(o, h)
  BY <1>2 DEF ValsOrNone, Vals
<1>4. Members(r) = Members(o)
  BY <1>2, <1>3, SameMembers
<1> QED
  BY <1>2, <1>4 DEF r

-----------------------------------------------------------------------------
(* The inductive invariant.                                                *)

\* m holds the values S, has no empty bitmaps but at key 0 when this library
\* made it, and the flag of the other map everywhere when the callers keep the
\* flags equal.
Fits(m, S) ==
  /\ m \in Maps
  /\ Members(m) = S
  /\ program # "foreign" => ZeroOnly(m)
  /\ CallerSetsFlag = TRUE => m.copyOnWrite = b.copyOnWrite /\ Follows(m)

Inv == Fits(a, va) /\ Fits(b, vb)

\* Every call in place whose result is close to the map it changed keeps Inv.
LEMMA CloseFits ==
  ASSUME Inv, NEW r, Close(a, r)
  PROVE  Fits(r, Members(r))
<1>1. r \in Maps /\ r.copyOnWrite = a.copyOnWrite /\ Flags(r) \subseteq Flags(a)
  BY DEF Close
<1>2. ASSUME program # "foreign" PROVE ZeroOnly(r)
  BY <1>2 DEF Inv, Fits, Close, ZeroOnly
<1>3. ASSUME CallerSetsFlag = TRUE PROVE r.copyOnWrite = b.copyOnWrite /\ Follows(r)
  <2>1. a.copyOnWrite = b.copyOnWrite /\ \A k \in Keys(a) : a.roarings[k].cow = a.copyOnWrite
    BY <1>3 DEF Inv, Fits, Follows
  <2>2. \A k \in Keys(r) : r.roarings[k].cow \in Flags(a)
    BY <1>1 DEF Flags
  <2>3. Flags(a) = {a.copyOnWrite}
    BY <2>1 DEF Flags
  <2> QED
    BY <1>1, <2>1, <2>2, <2>3 DEF Follows
<1> QED
  BY <1>1, <1>2, <1>3 DEF Fits

\* The same for the calls that take inner bitmaps from the other map.
LEMMA CloseToBothFits ==
  ASSUME Inv, NEW r, CloseToBoth(a, b, r)
  PROVE  Fits(r, Members(r))
<1>1. r \in Maps /\ r.copyOnWrite = a.copyOnWrite /\ Flags(r) \subseteq Flags(a) \cup Flags(b)
  BY DEF CloseToBoth
<1>2. ASSUME program # "foreign" PROVE ZeroOnly(r)
  BY <1>2 DEF Inv, Fits, CloseToBoth, ZeroOnly
<1>3. ASSUME CallerSetsFlag = TRUE PROVE r.copyOnWrite = b.copyOnWrite /\ Follows(r)
  <2>1. /\ a.copyOnWrite = b.copyOnWrite
        /\ \A k \in Keys(a) : a.roarings[k].cow = a.copyOnWrite
        /\ \A k \in Keys(b) : b.roarings[k].cow = b.copyOnWrite
    BY <1>3 DEF Inv, Fits, Follows
  <2>2. \A k \in Keys(r) : r.roarings[k].cow \in Flags(a) \cup Flags(b)
    BY <1>1 DEF Flags
  <2>3. Flags(a) = {a.copyOnWrite} /\ Flags(b) = {a.copyOnWrite}
    BY <2>1 DEF Flags
  <2> QED
    BY <1>1, <2>1, <2>2, <2>3 DEF Follows
<1> QED
  BY <1>1, <1>2, <1>3 DEF Fits

\* A result whose flag is off, once the caller has given it the flag of b.
LEMMA FlaggedFits ==
  ASSUME Inv, NEW r \in Maps, r.copyOnWrite = FALSE,
         program # "foreign" => ZeroOnly(r),
         CallerSetsFlag = TRUE =>
           \A k \in Keys(r) : r.roarings[k].cow = FALSE \/ r.roarings[k].cow = b.copyOnWrite
  PROVE  Fits(Flagged(r), Members(r))
<1>1. CASE CallerSetsFlag = TRUE
  <2> DEFINE p == setCopyOnWrite(r, b.copyOnWrite)
  <2>1. b.copyOnWrite \in BOOLEAN
    BY MapParts DEF Inv, Fits
  <2>2. /\ p \in Maps /\ p.copyOnWrite = b.copyOnWrite
        /\ Keys(p) = Keys(r) /\ \A k \in Keys(r) : Vals(p, k) = Vals(r, k)
        /\ Members(p) = Members(r)
        /\ \A k \in Keys(p) : p.roarings[k].cow = b.copyOnWrite
             \/ (r.copyOnWrite = b.copyOnWrite /\ p.roarings[k].cow = r.roarings[k].cow)
    BY <2>1, SetFlagFacts
  <2> HIDE DEF p
  <2>3. program # "foreign" => ZeroOnly(p)
    BY <2>2 DEF ZeroOnly
  <2>4. Follows(p)
    BY <1>1, <2>2 DEF Follows
  <2> QED
    BY <1>1, <2>2, <2>3, <2>4 DEF Flagged, Fits, p
<1>2. CASE CallerSetsFlag # TRUE
  BY <1>2, Maps64Assumption DEF Flagged, Fits
<1> QED
  BY <1>1, <1>2

-----------------------------------------------------------------------------
(* Every call keeps it.                                                    *)

\* What a call leaves alone still fits.
LEMMA OtherFits ==
  Inv /\ UNCHANGED <<program, b, vb>> => Fits(b, vb)'
BY DEF Inv, Fits

\* The new value of a fits when the call computed one that fits.
LEMMA BecomesKeeps ==
  ASSUME NEW STATE m, NEW STATE S, Inv, Becomes(m, S), Fits(m, S)
  PROVE  Inv'
<1>1. a' = m /\ va' = S /\ program' = program /\ b' = b /\ vb' = vb
  BY DEF Becomes
<1>2. Fits(a, va)'
  BY <1>1 DEF Fits
<1>3. Fits(b, vb)'
  BY <1>1, OtherFits
<1> QED
  BY <1>2, <1>3 DEF Inv

\* Results that are close to a fit.
LEMMA ChangedFits ==
  ASSUME NEW STATE m, NEW STATE S, Inv, Becomes(m, S), Close(a, m), Members(m) = S
  PROVE  Inv'
BY CloseFits, BecomesKeeps

\* fastunion of some of a and b.
LEMMA FastUnionKeeps ==
  ASSUME Inv, FastUnion
  PROVE  Inv'
<1>1. PICK inputs \in {<<a>>, <<a, b>>, <<b, a, a>>} :
        Becomes(Flagged(fastunion(inputs)), UNION {Members(inputs[i]) : i \in DOMAIN inputs})
  BY DEF FastUnion
<1>2. \E n \in Nat : /\ inputs \in [1..n -> Maps] /\ DOMAIN inputs = 1..n
                     /\ \A i \in 1..n : inputs[i] = a \/ inputs[i] = b
  <2>1. a \in Maps /\ b \in Maps
    BY DEF Inv, Fits
  <2>2. CASE inputs = <<a>>
    <3>1. inputs \in [1..1 -> Maps] /\ DOMAIN inputs = 1..1 /\ \A i \in 1..1 : inputs[i] = a
      BY <2>1, <2>2
    <3> QED
      BY <3>1
  <2>3. CASE inputs = <<a, b>>
    <3>1. /\ inputs \in [1..2 -> Maps] /\ DOMAIN inputs = 1..2
          /\ \A i \in 1..2 : inputs[i] = a \/ inputs[i] = b
      BY <2>1, <2>3
    <3> QED
      BY <3>1
  <2>4. CASE inputs = <<b, a, a>>
    <3>1. /\ inputs \in [1..3 -> Maps] /\ DOMAIN inputs = 1..3
          /\ \A i \in 1..3 : inputs[i] = a \/ inputs[i] = b
      BY <2>1, <2>4
    <3> QED
      BY <3>1
  <2> QED
    BY <1>1, <2>2, <2>3, <2>4
<1>3. PICK n \in Nat : /\ inputs \in [1..n -> Maps] /\ DOMAIN inputs = 1..n
                       /\ \A i \in 1..n : inputs[i] = a \/ inputs[i] = b
  BY <1>2
<1> DEFINE r == fastunion(inputs)
           S == UNION {Members(inputs[i]) : i \in DOMAIN inputs}
<1>4. /\ r \in Maps /\ r.copyOnWrite = FALSE
      /\ \A k \in Keys(r) : \E i \in 1..n :
           k \in Keys(inputs[i]) /\ r.roarings[k].cow = inputs[i].roarings[k].cow
      /\ \A k \in Keys(r) : Vals(r, k) = {} => \E i \in 1..n : k \in Keys(inputs[i]) /\ Vals(inputs[i], k) = {}
      /\ Members(r) = S
  BY <1>3, FastUnionCorrect
<1> HIDE DEF r, S
<1>5. program # "foreign" => ZeroOnly(r)
  BY <1>3, <1>4 DEF Inv, Fits, ZeroOnly
<1>6. ASSUME CallerSetsFlag = TRUE, NEW k \in Keys(r)
      PROVE  r.roarings[k].cow = FALSE \/ r.roarings[k].cow = b.copyOnWrite
  <2>1. PICK i \in 1..n : k \in Keys(inputs[i]) /\ r.roarings[k].cow = inputs[i].roarings[k].cow
    BY <1>4
  <2>2. \A x \in {a, b} : x.copyOnWrite = b.copyOnWrite /\ \A j \in Keys(x) : x.roarings[j].cow = x.copyOnWrite
    BY <1>6 DEF Inv, Fits, Follows
  <2>3. inputs[i].roarings[k].cow = b.copyOnWrite
    BY <1>3, <2>1, <2>2
  <2> QED
    BY <2>1, <2>3
<1>7. Fits(Flagged(r), S)
  BY <1>4, <1>5, <1>6, FlaggedFits
<1> QED
  BY <1>1, <1>7, BecomesKeeps DEF r, S

\* Reading a file, of this library or of another writer.
LEMMA ReadKeeps ==
  ASSUME Inv, Read
  PROVE  Inv'
<1> DEFINE r == readSafe(write(a), getSizeInBytes(a)).map
<1>1. a \in Maps /\ Members(a) = va
  BY DEF Inv, Fits
<1>2. /\ r \in Maps /\ r.copyOnWrite = FALSE /\ Keys(r) = Keys(a)
      /\ \A k \in Keys(a) : Vals(r, k) = Vals(a, k) /\ r.roarings[k].cow = FALSE
  BY <1>1, ReadCorrect
<1>3. Becomes(Flagged(r), va)
  BY DEF Read
<1> HIDE DEF r
<1>4. Members(r) = va
  BY <1>1, <1>2, SameMembers DEF ValsOrNone
<1>5. program # "foreign" => ZeroOnly(r)
  BY <1>2 DEF Inv, Fits, ZeroOnly
<1>6. Fits(Flagged(r), va)
  BY <1>2, <1>4, <1>5, FlaggedFits
<1> QED
  BY <1>3, <1>6, BecomesKeeps

\* The empty bitmap that another writer kept, which the library takes over.
LEMMA ReadForeignKeeps ==
  ASSUME Inv, NEW k \in 0..(Highs - 1), ReadForeign(k)
  PROVE  Inv'
<1> DEFINE p == readSafe(write(a), getSizeInBytes(a)).map
           inner == [vals |-> {}, cow |-> FALSE]
           r == Put(p, k, inner)
<1>1. a \in Maps /\ Members(a) = va
  BY DEF Inv, Fits
<1>2. /\ p \in Maps /\ p.copyOnWrite = FALSE /\ Keys(p) = Keys(a)
      /\ \A j \in Keys(a) : Vals(p, j) = Vals(a, j) /\ p.roarings[j].cow = FALSE
  BY <1>1, ReadCorrect
<1>3. program = "foreign" /\ k \notin Keys(a) /\ Becomes(Flagged(r), va)
  BY DEF ReadForeign
<1> HIDE DEF p
<1>4. k \in Halves /\ inner \in Inner /\ inner.vals = {} /\ inner.cow = FALSE
  BY DEF Halves, Inner
<1> HIDE DEF inner
<1>5. /\ r \in Maps /\ Keys(r) = Keys(p) \cup {k} /\ r.roarings[k] = inner
      /\ \A j \in Keys(p) \ {k} : r.roarings[j] = p.roarings[j]
      /\ r.copyOnWrite = FALSE
  BY <1>2, <1>4, PutFacts
<1> HIDE DEF r
<1>6. \A j \in Keys(r) : r.roarings[j].cow = FALSE
  BY <1>2, <1>4, <1>5
<1>7. \A h \in Halves : ValsOrNone(r, h) = ValsOrNone(a, h)
  <2>1. ValsOrNone(r, k) = {} /\ ValsOrNone(a, k) = {}
    BY <1>3, <1>4, <1>5 DEF ValsOrNone, Vals
  <2>2. ASSUME NEW h \in Halves, h # k PROVE ValsOrNone(r, h) = ValsOrNone(a, h)
    <3>1. CASE h \in Keys(a)
      <4>1. Vals(r, h) = Vals(p, h) /\ h \in Keys(r)
        BY <1>2, <1>5, <2>2, <3>1 DEF Vals
      <4> QED
        BY <1>2, <3>1, <4>1 DEF ValsOrNone
    <3>2. CASE h \notin Keys(a)
      BY <1>2, <1>5, <2>2, <3>2 DEF ValsOrNone
    <3> QED
      BY <3>1, <3>2
  <2> QED
    BY <2>1, <2>2
<1>8. Members(r) = va
  BY <1>1, <1>5, <1>7, SameMembers
<1>9. Fits(Flagged(r), va)
  BY <1>3, <1>5, <1>6, <1>8, FlaggedFits
<1> QED
  BY <1>3, <1>9, BecomesKeeps

\* The calls that change both maps.
LEMMA SwapKeeps ==
  ASSUME Inv, Swap
  PROVE  Inv'
<1> DEFINE p == [a EXCEPT !.roarings = b.roarings]
           q == [b EXCEPT !.roarings = a.roarings]
<1>1. a \in Maps /\ b \in Maps
  BY DEF Inv, Fits
<1>2. /\ p \in Maps /\ p.copyOnWrite = a.copyOnWrite
      /\ p.roarings = b.roarings /\ Keys(p) = Keys(b) /\ Members(p) = Members(b)
  BY <1>1, SwapFacts
<1>3. /\ q \in Maps /\ q.copyOnWrite = b.copyOnWrite
      /\ q.roarings = a.roarings /\ Keys(q) = Keys(a) /\ Members(q) = Members(a)
  BY <1>1, SwapFacts
<1>4. a' = p /\ b' = q /\ va' = vb /\ vb' = va /\ program' = program
  BY DEF Swap
<1> HIDE DEF p, q
<1>5. program # "foreign" => ZeroOnly(p) /\ ZeroOnly(q)
  BY <1>2, <1>3 DEF Inv, Fits, ZeroOnly, Vals
<1>6. CallerSetsFlag = TRUE => /\ p.copyOnWrite = q.copyOnWrite
                               /\ Follows(p) /\ Follows(q)
  BY <1>2, <1>3 DEF Inv, Fits, Follows
<1>7. Members(p) = vb /\ Members(q) = va
  BY <1>2, <1>3 DEF Inv, Fits
<1> QED
  BY <1>2, <1>3, <1>4, <1>5, <1>6, <1>7 DEF Inv, Fits

\* The callers turn copy-on-write on or off, on both maps.
LEMMA SetCopyOnWriteKeeps ==
  ASSUME Inv, NEW val \in BOOLEAN, SetCopyOnWrite(val)
  PROVE  Inv'
<1> DEFINE p == setCopyOnWrite(a, val)
           q == setCopyOnWrite(b, val)
<1>1. a \in Maps /\ b \in Maps
  BY DEF Inv, Fits
<1>2. /\ p \in Maps /\ p.copyOnWrite = val
      /\ Keys(p) = Keys(a) /\ \A k \in Keys(a) : Vals(p, k) = Vals(a, k)
      /\ Members(p) = Members(a)
      /\ \A k \in Keys(p) : p.roarings[k].cow = val \/ (a.copyOnWrite = val /\ p.roarings[k].cow = a.roarings[k].cow)
  BY <1>1, SetFlagFacts
<1>3. /\ q \in Maps /\ q.copyOnWrite = val
      /\ Keys(q) = Keys(b) /\ \A k \in Keys(b) : Vals(q, k) = Vals(b, k)
      /\ Members(q) = Members(b)
      /\ \A k \in Keys(q) : q.roarings[k].cow = val \/ (b.copyOnWrite = val /\ q.roarings[k].cow = b.roarings[k].cow)
  BY <1>1, SetFlagFacts
<1>4. a' = p /\ b' = q /\ va' = va /\ vb' = vb /\ program' = program
  BY DEF SetCopyOnWrite
<1> HIDE DEF p, q
<1>5. program # "foreign" => ZeroOnly(p) /\ ZeroOnly(q)
  BY <1>2, <1>3 DEF Inv, Fits, ZeroOnly
<1>6. CallerSetsFlag = TRUE => Follows(p) /\ Follows(q)
  BY <1>2, <1>3 DEF Inv, Fits, Follows
<1>7. Members(p) = va /\ Members(q) = vb
  BY <1>2, <1>3 DEF Inv, Fits
<1> QED
  BY <1>2, <1>3, <1>4, <1>5, <1>6, <1>7 DEF Inv, Fits

\* Both maps start empty.
LEMMA InvInit ==
  Init => Inv
<1> SUFFICES ASSUME Init PROVE Inv
  OBVIOUS
<1>1. Empty \in Maps /\ Keys(Empty) = {} /\ Empty.copyOnWrite = FALSE
  BY EmptyFacts
<1>2. Members(Empty) = {} /\ ZeroOnly(Empty) /\ Follows(Empty)
  BY <1>1 DEF Members, ZeroOnly, Follows
<1> HIDE DEF Empty
<1>3. a = Empty /\ va = {} /\ b = Empty /\ vb = {}
  BY DEF Init
<1> QED
  BY <1>1, <1>2, <1>3 DEF Inv, Fits

\* Every call keeps the inductive invariant.
LEMMA InvNext ==
  Inv /\ [Next]_vars => Inv'
<1> SUFFICES ASSUME Inv, [Next]_vars PROVE Inv'
  OBVIOUS
<1>1. a \in Maps /\ b \in Maps /\ Members(a) = va /\ Members(b) = vb
  BY DEF Inv, Fits
<1>2. \A x \in 0..uint32_max : x \in Lowers
  BY DEF Lowers
<1>3. ASSUME NEW x \in Values, Add(x) PROVE Inv'
  BY <1>1, <1>3, AddCorrect, ChangedFits DEF Add
<1>4. ASSUME NEW x \in Values, RemoveValue(x) PROVE Inv'
  BY <1>1, <1>4, RemoveCorrect, ChangedFits DEF RemoveValue
<1>5. ASSUME NEW x \in Values, RemoveChecked(x) PROVE Inv'
  BY <1>1, <1>5, RemoveCheckedCorrect, ChangedFits DEF RemoveChecked
<1>6. ASSUME NEW x \in Values, NEW y \in Values, AddMany(x, y) PROVE Inv'
  <2> DEFINE s == <<x, y, x>>
  <2>1. s \in [1..3 -> Values] /\ {s[i] : i \in 1..3} = {x, y}
    <3>1. s \in [1..3 -> Values] /\ s[1] = x /\ s[2] = y /\ s[3] = x
      OBVIOUS
    <3>2. 1..3 = {1, 2, 3}
      OBVIOUS
    <3> HIDE DEF s
    <3> QED
      BY <3>1, <3>2
  <2>2. Becomes(addMany(a, s), va \cup {x, y})
    BY <1>6 DEF AddMany
  <2> HIDE DEF s
  <2>3. Close(a, addMany(a, s)) /\ Members(addMany(a, s)) = va \cup {x, y}
    <3>1. 3 \in Nat
      OBVIOUS
    <3>2. Close(a, addMany(a, s)) /\ Members(addMany(a, s)) = Members(a) \cup {s[i] : i \in 1..3}
      BY <1>1, <2>1, <3>1, AddManyCorrect
    <3> QED
      BY <1>1, <2>1, <3>2
  <2> QED
    BY <2>2, <2>3, ChangedFits
<1>7. ASSUME NEW min \in Values, NEW max \in Values, AddRange(min, max) PROVE Inv'
  BY <1>1, <1>7, AddRangeCorrect, ChangedFits DEF AddRange
<1>8. ASSUME NEW min \in Values, NEW max \in Values, RemoveRange(min, max) PROVE Inv'
  BY <1>1, <1>8, RemoveRangeCorrect, ChangedFits DEF RemoveRange
<1>9. ASSUME NEW min \in Values, NEW max \in Values, Flip(min, max) PROVE Inv'
  BY <1>1, <1>9, FlipCorrect, ChangedFits DEF Flip
<1>10. ASSUME NEW min \in 0..uint32_max, NEW max \in 0..uint32_max, AddRange32(min, max) PROVE Inv'
  BY <1>1, <1>2, <1>10, AddRange32Correct, ChangedFits DEF AddRange32
<1>11. ASSUME NEW min \in 0..uint32_max, NEW max \in 0..uint32_max, RemoveRange32(min, max) PROVE Inv'
  BY <1>1, <1>2, <1>11, RemoveRange32Correct, ChangedFits DEF RemoveRange32
<1>12. ASSUME NEW min \in 0..uint32_max, NEW max \in 0..uint32_max, Flip32(min, max) PROVE Inv'
  BY <1>1, <1>2, <1>12, Flip32Correct, ChangedFits DEF Flip32
<1>13. ASSUME And PROVE Inv'
  BY <1>1, <1>13, AndCorrect, ChangedFits DEF And
<1>14. ASSUME Minus PROVE Inv'
  BY <1>1, <1>14, MinusCorrect, ChangedFits DEF Minus
<1>15. ASSUME Or PROVE Inv'
  <2> DEFINE r == operator_or(a, b, FALSE)
  <2>1. CloseToBoth(a, b, r) /\ Members(r) = va \cup vb
    BY <1>1, OrCorrect
  <2>2. Becomes(r, va \cup vb)
    BY <1>15 DEF Or
  <2> HIDE DEF r
  <2>3. Fits(r, va \cup vb)
    BY <2>1, CloseToBothFits
  <2> QED
    BY <2>2, <2>3, BecomesKeeps
<1>16. ASSUME Xor PROVE Inv'
  <2> DEFINE r == operator_xor(a, b, FALSE)
  <2>1. CloseToBoth(a, b, r) /\ Members(r) = SymDiff(va, vb)
    BY <1>1, XorCorrect
  <2>2. Becomes(r, SymDiff(va, vb))
    BY <1>16 DEF Xor
  <2> HIDE DEF r
  <2>3. Fits(r, SymDiff(va, vb))
    BY <2>1, CloseToBothFits
  <2> QED
    BY <2>2, <2>3, BecomesKeeps
<1>17. ASSUME AndItself \/ OrItself PROVE Inv'
  <2>1. operator_and(a, a, TRUE) = a /\ operator_or(a, a, TRUE) = a
    BY DEF operator_and, operator_or
  <2>2. Becomes(a, va)
    BY <1>17, <2>1 DEF AndItself, OrItself
  <2>3. Fits(a, va)
    BY DEF Inv
  <2> QED
    BY <2>2, <2>3, BecomesKeeps
<1>18. ASSUME MinusItself \/ XorItself \/ Clear PROVE Inv'
  <2> DEFINE r == Without(a, Keys(a))
  <2>1. operator_minus(a, a, TRUE) = r /\ operator_xor(a, a, TRUE) = r
    BY DEF operator_minus, operator_xor
  <2>2. Becomes(r, {})
    BY <1>18, <2>1 DEF MinusItself, XorItself, Clear
  <2>3. Close(a, r) /\ Members(r) = {}
    BY <1>1, ClearCorrect
  <2> HIDE DEF r
  <2> QED
    BY <2>2, <2>3, ChangedFits
<1>19. ASSUME ShrinkToFit PROVE Inv'
  BY <1>1, <1>19, ShrinkCorrect, ChangedFits DEF ShrinkToFit
<1>20. ASSUME Assign PROVE Inv'
  <2>1. Fits(b, vb)
    BY DEF Inv
  <2> QED
    BY <1>20, <2>1, BecomesKeeps DEF Assign
<1>21. CASE UNCHANGED vars
  BY <1>21 DEF vars, Inv, Fits
<1> QED
  BY <1>3, <1>4, <1>5, <1>6, <1>7, <1>8, <1>9, <1>10, <1>11, <1>12, <1>13, <1>14, <1>15, <1>16,
     <1>17, <1>18, <1>19, <1>20, <1>21, FastUnionKeeps, ReadKeeps, ReadForeignKeeps, SwapKeeps,
     SetCopyOnWriteKeeps
     DEF Next

\* The inductive invariant holds in every reachable state.
LEMMA InvHolds ==
  Spec => []Inv
BY InvInit, InvNext, PTL DEF Spec

\* Whatever the sizes of the halves and however many calls are made, both maps
\* are well formed and hold exactly the values that the calls document: points,
\* ranges over any number of inner bitmaps, set operations, unions of many maps,
\* swaps, and maps written to a file and read back.
THEOREM MapsHoldTheirMembers ==
  Spec => []HoldsMembers
<1>1. Inv => HoldsMembers
  <2>1. ASSUME NEW m \in Maps
        PROVE  /\ Keys(m) \subseteq 0..(Highs - 1)
               /\ \A k \in Keys(m) : m.roarings[k] \in [vals : SUBSET (0..uint32_max), cow : BOOLEAN]
               /\ m.copyOnWrite \in BOOLEAN
    BY MapParts DEF Halves, Inner, Lowers
  <2> QED
    BY <2>1 DEF Inv, Fits, HoldsMembers, TypeOK
<1> QED
  BY <1>1, InvHolds, PTL

\* Only the calls with 32-bit arguments leave an empty inner bitmap, and only
\* for key 0, unless a file of another writer brought one.
THEOREM EmptyBitmapsAtZeroOnly ==
  Spec => []EmptyOnlyAtZero
<1>1. Inv => EmptyOnlyAtZero
  BY DEF Inv, Fits, ZeroOnly, EmptyOnlyAtZero
<1> QED
  BY <1>1, InvHolds, PTL

\* When callers keep the flags of the two maps equal, every inner bitmap has
\* the flag of its map, whatever call created it or took it from the other one,
\* and none is empty that should have been erased.
THEOREM InnersStayConsistent ==
  ASSUME CallerSetsFlag = TRUE
  PROVE  Spec => []InnersConsistent
<1>1. Inv => InnersConsistent
  BY DEF Inv, Fits, ZeroOnly, Follows, EmptyOnlyAtZero, FlagsFollow, InnersConsistent
<1> QED
  BY <1>1, InvHolds, PTL
=============================================================================
