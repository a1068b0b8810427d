------------------------------ MODULE MCArtMap ------------------------------
(***************************************************************************)
(* Families of keys for model checking ArtMap.                             *)
(***************************************************************************)
EXTENDS ArtMap

\* Keys that differ in the last byte: one node, which takes every size.
WideKeys == {<<0, 0, c>> : c \in Chunk}

\* Keys that share no, one or two bytes with one another, so that prefixes are
\* split, shortened and joined again, and the root grows over inner nodes.
DeepKeys == {<<0, 0, 0>>, <<0, 0, 1>>, <<0, 1, 0>>, <<1, 0, 0>>, <<1, 0, 1>>, <<2, 1, 2>>}

KeyFamilies == {WideKeys, DeepKeys}
============================================================================
