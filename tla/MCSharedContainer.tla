------------------------- MODULE MCSharedContainer -------------------------
(***************************************************************************)
(* SharedContainer for TLC.                                                *)
(***************************************************************************)
EXTENDS SharedContainer, TLC

\* Addresses, bitmaps and threads are interchangeable.
Symmetry == Permutations(Containers) \cup Permutations(Wrappers)
              \cup Permutations(Bitmaps) \cup Permutations(Threads)
=============================================================================
