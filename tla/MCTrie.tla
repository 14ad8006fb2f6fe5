------------------------------- MODULE MCTrie -------------------------------
(* Small instances of the trie for TLC, with nibbles of one bit. *)
EXTENDS TrieProperties

\* 00, 0011 and 01: after the first two, the third leaves one nibble of the
\* partial key 00, below the shared prefix 0.
ClashingKeys == {<<0>>, <<0, 3>>, <<1>>}

\* 0000, 0001, 0100 and 1000: splits of an extension that leave one nibble and
\* more, with and without a shared prefix, but never one below a shared prefix.
SplitKeys == {<<0, 0>>, <<0, 1>>, <<1, 0>>, <<2, 0>>}

\* 00 and 0011, for runs with two values.
PairKeys == {<<0>>, <<0, 3>>}
=============================================================================
