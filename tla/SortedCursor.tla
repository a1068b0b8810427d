---------------------------- MODULE SortedCursor ----------------------------
(***************************************************************************)
(* What the iterators of the library promise, whatever they walk over: a   *)
(* cursor into a fixed set of integers, in increasing order.  The cursor   *)
(* stands on a member, or it has run off one of the two ends.  Moving,     *)
(* seeking, reading and skipping are defined by the set alone.  The        *)
(* iterators of a container, of a 32-bit and of a 64-bit bitmap are shown  *)
(* to implement this specification.                                        *)
(***************************************************************************)
EXTENDS Integers, Sequences, FiniteSets

CONSTANTS Universe,   \* the integers a set may hold, an interval from zero
          Counts      \* how many values a read or a skip may ask for

VARIABLES members,    \* the set that is walked over
          at,         \* where the cursor is
          last        \* what the last call returned

vars == <<members, at, last>>

Before == -1
After == Cardinality(Universe)

Ahead(p) == { m \in members : m >= p }
Behind(p) == { m \in members : m <= p }

\* The k-th smallest of a set, and the k-th largest.
Lowest(S, k) == CHOOSE m \in S : Cardinality({ x \in S : x < m }) = k - 1
Highest(S, k) == CHOOSE m \in S : Cardinality({ x \in S : x > m }) = k - 1

Least(S) == IF S = {} THEN After ELSE Lowest(S, 1)
Greatest(S) == IF S = {} THEN Before ELSE Highest(S, 1)

Smaller(a, b) == IF a < b THEN a ELSE b

\* The end of the run of consecutive members that p is in.
RunUpTo(p) == CHOOSE e \in Ahead(p) : p .. e \subseteq members /\ e + 1 \notin members
RunDownTo(p) == CHOOSE s \in Behind(p) : s .. p \subseteq members /\ s - 1 \notin members

Init == /\ members \in SUBSET Universe
        /\ at \in {Before, After, Least(members), Greatest(members)}
        /\ last = <<>>

MoveTo(p, result) == /\ at' = p
                     /\ last' = result
                     /\ UNCHANGED members

First == MoveTo(Least(members), <<>>)
Final == MoveTo(Greatest(members), <<>>)
Advance == MoveTo(Least(Ahead(at + 1)), <<>>)
Retreat == MoveTo(Greatest(Behind(at - 1)), <<>>)
Seek == \E v \in Universe : MoveTo(Least(Ahead(v)), <<>>)

\* What is left in front of the cursor and behind it, its own place included.
\* A cursor that has run off an end has nothing left in either direction.
Rest == IF at \in members THEN Ahead(at) ELSE {}
RestBack == IF at \in members THEN Behind(at) ELSE {}

\* The next n members, or as many as there are; the cursor moves past them.
Read ==
  \E n \in Counts :
    LET k == Smaller(n, Cardinality(Rest))
        out == [i \in 1 .. k |-> Lowest(Rest, i)]
    IN  MoveTo(IF k = 0 THEN at ELSE Least(Ahead(out[k] + 1)), out)

ReadBack ==
  \E n \in Counts :
    LET k == Smaller(n, Cardinality(RestBack))
        out == [i \in 1 .. k |-> Highest(RestBack, i)]
    IN  MoveTo(IF k = 0 THEN at ELSE Greatest(Behind(out[k] - 1)), out)

\* As a read that returns only how many values it passed.
Skip ==
  \E n \in Counts :
    LET k == Smaller(n, Cardinality(Rest))
    IN  MoveTo(IF k = 0 THEN at ELSE Least(Ahead(Lowest(Rest, k) + 1)), <<k>>)

SkipBack ==
  \E n \in Counts :
    LET k == Smaller(n, Cardinality(RestBack))
    IN  MoveTo(IF k = 0 THEN at ELSE Greatest(Behind(Highest(RestBack, k) - 1)), <<k>>)

\* A list of pairs, one number after the other.
Pairs(s) == [i \in 1 .. 2 * Len(s) |-> s[(i + 1) \div 2][IF i % 2 = 1 THEN 1 ELSE 2]]

\* The next n runs of consecutive members, the first from where the cursor is.
ReadRuns ==
  \E n \in Counts :
    LET starts == { m \in Rest : m = at \/ m - 1 \notin members }
        k == Smaller(n, Cardinality(starts))
        out == Pairs([i \in 1 .. k |-> << Lowest(starts, i), RunUpTo(Lowest(starts, i)) >>])
    IN  MoveTo(IF k = 0 THEN at ELSE Least(Ahead(out[2 * k] + 1)), out)

ReadRunsBack ==
  \E n \in Counts :
    LET ends == { m \in RestBack : m = at \/ m + 1 \notin members }
        k == Smaller(n, Cardinality(ends))
        out == Pairs([i \in 1 .. k |-> << RunDownTo(Highest(ends, i)), Highest(ends, i) >>])
    IN  MoveTo(IF k = 0 THEN at ELSE Greatest(Behind(out[2 * k - 1] - 1)), out)

\* The cursor is given up and another one is made.
Restart == MoveTo(After, <<>>)

Next == \/ First \/ Final \/ Advance \/ Retreat \/ Seek
        \/ Read \/ ReadBack \/ Skip \/ SkipBack
        \/ ReadRuns \/ ReadRunsBack
        \/ Restart

Spec == Init /\ [][Next]_vars
=============================================================================
