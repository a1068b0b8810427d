---------------------------- MODULE OrderedMap ----------------------------
(***************************************************************************)
(* What the adaptive radix tree of art.h promises to its callers: a map    *)
(* from keys to values, ordered by key, and one cursor (art_iterator_t)    *)
(* that stands on a key, is past one of the ends (Off), or has been made   *)
(* unusable by a modification that did not go through it (None).           *)
(***************************************************************************)
EXTENDS Integers, FiniteSets

CONSTANTS Key, ValueOf(_), Precedes(_, _),
          Off, None     \* two values that are not keys

VARIABLES map, cursor

vars == <<map, cursor>>

\* The smallest and the greatest key of a set of keys.
Least(S)    == CHOOSE k \in S : \A l \in S : l = k \/ Precedes(k, l)
Greatest(S) == CHOOSE k \in S : \A l \in S : l = k \/ Precedes(l, k)

LeastOf(S)    == IF S = {} THEN Off ELSE Least(S)
GreatestOf(S) == IF S = {} THEN Off ELSE Greatest(S)

After(m, k)   == {l \in DOMAIN m : Precedes(k, l)}
AtLeast(m, k) == {l \in DOMAIN m : l = k \/ Precedes(k, l)}
Before(m, k)  == {l \in DOMAIN m : Precedes(l, k)}

\* A key is stored with ValueOf(key): which value does not matter here, that
\* it stays with its key does.
With(m, k)    == [l \in DOMAIN m \cup {k} |-> IF l = k THEN ValueOf(k) ELSE m[l]]
Without(m, k) == [l \in DOMAIN m \ {k} |-> m[l]]

Init == map \in {[k \in S |-> ValueOf(k)] : S \in SUBSET Key} /\ cursor = None

\* art_insert; the key must not be in the tree.
Insert(k) == /\ k \notin DOMAIN map
             /\ map' = With(map, k)
             /\ cursor' = None

\* art_erase of a key that is in the tree.
Erase(k) == k \in DOMAIN map /\ map' = Without(map, k) /\ cursor' = None

\* art_shrink_to_fit, art_reserve: memory only, but pointers are lost.
Reorganise == UNCHANGED map /\ cursor' = None

\* art_init_iterator.
First == UNCHANGED map /\ cursor' = LeastOf(DOMAIN map)
Last  == UNCHANGED map /\ cursor' = GreatestOf(DOMAIN map)

\* art_lower_bound, art_iterator_lower_bound and art_upper_bound.
LowerBound(k) == UNCHANGED map /\ cursor' = LeastOf(AtLeast(map, k))
UpperBound(k) == UNCHANGED map /\ cursor' = LeastOf(After(map, k))

\* art_iterator_next and art_iterator_prev.
Next_ == /\ cursor \in DOMAIN map
         /\ cursor' = LeastOf(After(map, cursor))
         /\ UNCHANGED map
Prev_ == /\ cursor \in DOMAIN map
         /\ cursor' = GreatestOf(Before(map, cursor))
         /\ UNCHANGED map

\* art_iterator_insert: the cursor ends on the new key.
CursorInsert(k) == /\ k \notin DOMAIN map /\ cursor # None
                   /\ map' = With(map, k)
                   /\ cursor' = k

\* art_iterator_erase: the cursor ends on the next key.
CursorErase == /\ cursor \in DOMAIN map
               /\ map' = Without(map, cursor)
               /\ cursor' = LeastOf(After(map, cursor))

Next == \/ \E k \in Key : \/ Erase(k) \/ LowerBound(k) \/ UpperBound(k)
                          \/ Insert(k) \/ CursorInsert(k)
        \/ Reorganise \/ First \/ Last \/ Next_ \/ Prev_ \/ CursorErase

Spec == Init /\ [][Next]_vars
===========================================================================
