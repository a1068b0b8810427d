-------------------------- MODULE ContainerCursor --------------------------
(***************************************************************************)
(* The iterator of one container (containers.c, containers.h): an index    *)
(* whose meaning depends on the type of the container, and the value it    *)
(* stands on.  In a bitset the index is the value, in an array a position, *)
(* in a run container the number of a run.                                 *)
(***************************************************************************)
EXTENDS ContainerQueries

Descending(S) == Reverse(Values2Seq(S))

Smallest(a, b) == IF a < b THEN a ELSE b

\* An iterator that stands on a value, and one that has none: its fields keep
\* what the code left in them.
On(index, value) == [index |-> index, value |-> value, has |-> TRUE]
Off(index, value) == [index |-> index, value |-> value, has |-> FALSE]

\* A bitset iterator, where only the index tells what it stands on.
OnBit(it, bit) == IF bit = NoValue THEN Off(it.index, it.value) ELSE On(bit, bit)
OnArray(c, index, value) ==
  IF index \in 0 .. c.card - 1 THEN On(index, array(c, index)) ELSE Off(index, value)
OnRunStart(c, index, value) ==
  IF index < n_runs(c) THEN On(index, runs(c, index).value) ELSE Off(index, value)
OnRunMax(c, index, value) ==
  IF index >= 0 THEN On(index, RunMax(runs(c, index))) ELSE Off(index, value)
-----------------------------------------------------------------------------
container_init_iterator(c) ==
  CASE IsBitset(c) -> LET bit == BitFrom(c.set, 0) IN On(bit, bit)
    [] IsArray(c) -> On(0, array(c, 0))
    [] IsRun(c) -> On(0, runs(c, 0).value)

container_init_iterator_last(c) ==
  CASE IsBitset(c) -> LET bit == BitDownFrom(c.set, UINT16_MAX) IN On(bit, bit)
    [] IsArray(c) -> On(c.card - 1, array(c, c.card - 1))
    [] IsRun(c) -> On(n_runs(c) - 1, RunMax(runs(c, n_runs(c) - 1)))

container_iterator_next(c, it) ==
  CASE IsBitset(c) ->
         LET moved == [it EXCEPT !.index = @ + 1]
         IN  IF moved.index \div WordBits >= BITSET_CONTAINER_SIZE_IN_WORDS
             THEN Off(moved.index, it.value)
             ELSE OnBit(moved, BitFrom(c.set, moved.index))
    [] IsArray(c) -> OnArray(c, it.index + 1, it.value)
    [] IsRun(c) ->
         IF it.value = UINT16_MAX THEN Off(it.index, it.value)
         ELSE IF it.value < RunMax(runs(c, it.index)) THEN On(it.index, it.value + 1)
         ELSE OnRunStart(c, it.index + 1, it.value)

container_iterator_prev(c, it) ==
  CASE IsBitset(c) ->
         LET moved == [it EXCEPT !.index = @ - 1]
         IN  IF moved.index < 0 THEN Off(moved.index, it.value)
             ELSE OnBit(moved, BitDownFrom(c.set, moved.index))
    [] IsArray(c) -> OnArray(c, it.index - 1, it.value)
    [] IsRun(c) ->
         IF it.value = 0 THEN Off(it.index, it.value)
         ELSE IF it.value - 1 >= runs(c, it.index).value THEN On(it.index, it.value - 1)
         ELSE OnRunMax(c, it.index - 1, it.value - 1)

\* bitset_container_index_equalorlarger and its like for the other types.
container_iterator_lower_bound(c, it, val) ==
  IF val > container_maximum(c) THEN Off(it.index, it.value)
  ELSE CASE IsBitset(c) ->
              LET index == bitset_container_index_equalorlarger(c, val)
              IN  On(index, index)
         [] IsArray(c) ->
              LET index == array_container_index_equalorlarger(c, val)
              IN  On(index, array(c, index))
         [] IsRun(c) ->
              LET index == run_container_index_equalorlarger(c.runs, val)
                  start == runs(c, index).value
              IN  On(index, IF start <= val THEN val ELSE start)
-----------------------------------------------------------------------------
(* Reading.  A read returns the iterator and the values, to which it adds  *)
(* the high bits of the container's key.                                   *)

Outcome(it, out) == [it |-> it, out |-> out]

\* The do-while loop over words: take the bits of a word, skip words of zeroes.
ReadBits(c, it, count) ==
  LET RECURSIVE read(_, _, _)
      read(word, wordindex, out) ==
        LET n == Smallest(Cardinality(word), count - Len(out))
            taken == SubSeq(Values2Seq(word), 1, n)
            rest == word \ ToSet(taken)
            next == IF rest # {} THEN rest ELSE NextWord(c.set, wordindex)
        IN  IF next = {} THEN Outcome(Off(it.index, it.value), out \o taken)
            ELSE IF Len(out) + n < count
                 THEN read(next, Min(next) \div WordBits, out \o taken)
            ELSE Outcome(On(Min(next), Min(next)), out \o taken)
      first == it.index \div WordBits
  IN  read({ v \in Word(c.set, first) : v >= it.index }, first, <<>>)

ReadBitsBackward(c, it, count) ==
  LET RECURSIVE read(_, _, _)
      read(word, wordindex, out) ==
        LET n == Smallest(Cardinality(word), count - Len(out))
            taken == SubSeq(Descending(word), 1, n)
            rest == word \ ToSet(taken)
            next == IF rest # {} THEN rest ELSE PrevWord(c.set, wordindex)
        IN  IF next = {} THEN Outcome(Off(it.index, it.value), out \o taken)
            ELSE IF Len(out) + n < count
                 THEN read(next, Max(next) \div WordBits, out \o taken)
            ELSE Outcome(On(Max(next), Max(next)), out \o taken)
      first == it.index \div WordBits
  IN  read({ v \in Word(c.set, first) : v <= it.index }, first, <<>>)

ReadArray(c, it, count) ==
  LET n == Smallest(c.card - it.index, count)
  IN  Outcome(OnArray(c, it.index + n, it.value),
              [i \in 1 .. n |-> array(c, it.index + i - 1)])

ReadArrayBackward(c, it, count) ==
  LET n == Smallest(it.index + 1, count)
  IN  Outcome(OnArray(c, it.index - n, it.value),
              [i \in 1 .. n |-> array(c, it.index - i + 1)])

\* The value wraps to zero after UINT16_MAX, which also ends the run.
ReadRuns(c, it, count) ==
  LET RECURSIVE read(_, _)
      read(pos, out) ==
        LET largest == RunMax(runs(c, pos.index))
            n == Smallest(largest - pos.value + 1, count - Len(out))
            done == out \o [i \in 1 .. n |-> pos.value + i - 1]
            value == U16(pos.value + n)
            moved == IF value > largest \/ value = 0
                     THEN OnRunStart(c, pos.index + 1, value) ELSE On(pos.index, value)
        IN  IF moved.has /\ Len(done) < count THEN read(moved, done)
            ELSE Outcome(moved, done)
  IN  read(it, <<>>)

ReadRunsBackward(c, it, count) ==
  LET RECURSIVE read(_, _)
      read(pos, out) ==
        LET start == runs(c, pos.index).value
            n == Smallest(pos.value - start + 1, count - Len(out))
            done == out \o [i \in 1 .. n |-> pos.value - i + 1]
            value == U16(pos.value - n)
            moved == IF value < start \/ value = UINT16_MAX
                     THEN OnRunMax(c, pos.index - 1, value) ELSE On(pos.index, value)
        IN  IF moved.has /\ Len(done) < count THEN read(moved, done)
            ELSE Outcome(moved, done)
  IN  read(it, <<>>)

WithHighBits(high, outcome) ==
  [outcome EXCEPT !.out = [i \in DOMAIN @ |-> high + @[i]]]

container_iterator_read_into_uint32(c, it, high16, count) ==
  WithHighBits(high16,
    CASE count = 0 -> Outcome(Off(it.index, it.value), <<>>)
      [] count > 0 /\ IsBitset(c) -> ReadBits(c, it, count)
      [] count > 0 /\ IsArray(c) -> ReadArray(c, it, count)
      [] count > 0 /\ IsRun(c) -> ReadRuns(c, it, count))

container_iterator_read_backward_into_uint32(c, it, high16, count) ==
  WithHighBits(high16,
    CASE count = 0 -> Outcome(Off(it.index, it.value), <<>>)
      [] count > 0 /\ IsBitset(c) -> ReadBitsBackward(c, it, count)
      [] count > 0 /\ IsArray(c) -> ReadArrayBackward(c, it, count)
      [] count > 0 /\ IsRun(c) -> ReadRunsBackward(c, it, count))

\* The same loops over a wider output.
container_iterator_read_into_uint64(c, it, high48, count) ==
  container_iterator_read_into_uint32(c, it, high48, count)

container_iterator_read_backward_into_uint64(c, it, high48, count) ==
  container_iterator_read_backward_into_uint32(c, it, high48, count)
-----------------------------------------------------------------------------
(* Skipping.  Returns the iterator and how many values it passed.          *)

Skipped(it, n) == [it |-> it, consumed |-> n]

SkipBits(c, it, skip_count) ==
  LET RECURSIVE skip(_, _, _)
      skip(word, word_index, remaining) ==
        LET bits == Cardinality(word)
        IN  IF bits > remaining
            THEN LET bit == Values2Seq(word)[remaining + 1]
                 IN  Skipped(On(bit, bit), skip_count)
            ELSE IF word_index + 1 = BITSET_CONTAINER_SIZE_IN_WORDS
                 THEN Skipped(Off(it.index, it.value), skip_count - (remaining - bits))
            ELSE skip(Word(c.set, word_index + 1), word_index + 1, remaining - bits)
      first == it.index \div WordBits
  IN  skip({ v \in Word(c.set, first) : v >= it.index }, first, skip_count)

SkipBitsBackward(c, it, skip_count) ==
  LET RECURSIVE skip(_, _, _)
      skip(word, word_index, remaining) ==
        LET bits == Cardinality(word)
        IN  IF bits > remaining
            THEN LET bit == Descending(word)[remaining + 1]
                 IN  Skipped(On(bit, bit), skip_count)
            ELSE IF word_index = 0
                 THEN Skipped(Off(it.index, it.value), skip_count - (remaining - bits))
            ELSE skip(Word(c.set, word_index - 1), word_index - 1, remaining - bits)
      first == it.index \div WordBits
  IN  skip({ v \in Word(c.set, first) : v <= it.index }, first, skip_count)

SkipRuns(c, it, skip_count) ==
  LET RECURSIVE skip(_, _, _)
      skip(run_index, value, remaining) ==
        LET max_skip == RunMax(runs(c, run_index)) - value + 1
            next == IF run_index + 1 < n_runs(c) THEN runs(c, run_index + 1).value
                    ELSE value
        IN  IF remaining = 0 \/ run_index >= n_runs(c)
            THEN Skipped(IF run_index < n_runs(c) THEN On(run_index, value)
                         ELSE Off(run_index, it.value), skip_count - remaining)
            ELSE IF remaining < max_skip
                 THEN Skipped(On(run_index, value + remaining), skip_count)
            ELSE skip(run_index + 1, next, remaining - max_skip)
  IN  skip(it.index, it.value, skip_count)

SkipRunsBackward(c, it, skip_count) ==
  LET RECURSIVE skip(_, _, _)
      skip(run_index, value, remaining) ==
        LET max_skip == value - runs(c, run_index).value + 1
            next == IF run_index - 1 >= 0 THEN RunMax(runs(c, run_index - 1)) ELSE value
        IN  IF remaining = 0 \/ run_index < 0
            THEN Skipped(IF run_index >= 0 THEN On(run_index, value)
                         ELSE Off(run_index, it.value), skip_count - remaining)
            ELSE IF remaining < max_skip
                 THEN Skipped(On(run_index, value - remaining), skip_count)
            ELSE skip(run_index - 1, next, remaining - max_skip)
  IN  skip(it.index, it.value, skip_count)

container_iterator_skip(c, it, count) ==
  LET skip_count == Smallest(count, UINT16_MAX + 1)
      n == Smallest(c.card - it.index, skip_count)
  IN  CASE IsArray(c) -> Skipped(OnArray(c, it.index + n, it.value), n)
        [] IsBitset(c) -> SkipBits(c, it, skip_count)
        [] IsRun(c) -> SkipRuns(c, it, skip_count)

container_iterator_skip_backward(c, it, count) ==
  LET skip_count == Smallest(count, UINT16_MAX + 1)
      n == Smallest(it.index + 1, skip_count)
  IN  CASE IsArray(c) -> Skipped(OnArray(c, it.index - n, it.value), n)
        [] IsBitset(c) -> SkipBitsBackward(c, it, skip_count)
        [] IsRun(c) -> SkipRunsBackward(c, it, skip_count)
-----------------------------------------------------------------------------
(* The run of consecutive values the iterator is in, from where it stands. *)
(* Returns the last value of the run and moves to the value after it.      *)

RunFound(end, it) == [end |-> end, it |-> it]

\* The while loops over the neighbours in an array.
RECURSIVE ConsecutiveUp(_, _, _)
ConsecutiveUp(c, index, v) ==
  IF index + 1 < c.card /\ array(c, index + 1) = U16(v + 1)
  THEN ConsecutiveUp(c, index + 1, v + 1) ELSE index

RECURSIVE ConsecutiveDown(_, _, _)
ConsecutiveDown(c, index, v) ==
  IF index > 0 /\ array(c, index - 1) = U16(v - 1)
  THEN ConsecutiveDown(c, index - 1, v - 1) ELSE index

container_iterator_find_run_end(c, it) ==
  CASE IsRun(c) -> RunFound(RunMax(runs(c, it.index)),
                            OnRunStart(c, it.index + 1, it.value))
    [] IsArray(c) ->
         LET index == ConsecutiveUp(c, it.index, it.value)
         IN  RunFound(array(c, index), OnArray(c, index + 1, it.value))
    [] IsBitset(c) ->
         LET clear == BitFrom(Values \ c.set, it.value + 1)
         IN  IF it.value + 1 >= ChunkSize \/ clear = NoValue
             THEN RunFound(UINT16_MAX, Off(it.index, it.value))
             ELSE RunFound(clear - 1, OnBit(it, BitFrom(c.set, clear)))

container_iterator_find_run_start(c, it) ==
  CASE IsRun(c) -> RunFound(runs(c, it.index).value, OnRunMax(c, it.index - 1, it.value))
    [] IsArray(c) ->
         LET index == ConsecutiveDown(c, it.index, it.value)
         IN  RunFound(array(c, index), OnArray(c, index - 1, it.value))
    [] IsBitset(c) ->
         LET clear == BitDownFrom(Values \ c.set, it.value - 1)
         IN  IF it.value = 0 \/ clear = NoValue
             THEN RunFound(0, Off(it.index, it.value))
             ELSE RunFound(clear + 1, OnBit(it, BitDownFrom(c.set, clear)))
-----------------------------------------------------------------------------
(* Iteration with a callback.  The caller's function is told the values one *)
(* by one; it returns false at its stop-th call.                            *)

\* The order in which the loops over words, values and runs meet the values.
LoopOrder(c) ==
  CASE IsBitset(c) ->
         FlattenSeq([w \in 1 .. BITSET_CONTAINER_SIZE_IN_WORDS |->
                       Values2Seq(Word(c.set, w - 1))])
    [] IsArray(c) -> [i \in 1 .. c.card |-> array(c, i - 1)]
    [] IsRun(c) ->
         FlattenSeq([i \in 1 .. n_runs(c) |->
                       [j \in 1 .. runs(c, i - 1).length + 1 |-> runs(c, i - 1).value + j - 1]])

container_iterate(c, base, calls, stop) ==
  LET order == LoopOrder(c)
      n == Smallest(Len(order), stop - Len(calls))
      told == calls \o [i \in 1 .. n |-> base + order[i]]
  IN  [calls |-> told, go |-> Len(told) < stop]

\* The callback of a 64-bit value, with its high bits in base.
container_iterate64(c, base, calls, stop) == container_iterate(c, base, calls, stop)

container_to_uint32_array(c, base) ==
  LET order == LoopOrder(c) IN [i \in DOMAIN order |-> base + order[i]]
=============================================================================
