------------------------------ MODULE MCStorage ------------------------------
(* Small instances of the stored trie for TLC. *)
EXTENDS TrieStorage, MCTrie
=============================================================================
