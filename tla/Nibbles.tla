------------------------------ MODULE Nibbles ------------------------------
(***************************************************************************)
(* The key arithmetic of the trie, src/src/trie/util.rs.  A byte is two    *)
(* nibbles, high half first; a trie path is a sequence of nibbles.         *)
(*                                                                         *)
(* Radix is the number of values of a nibble: 16 in the code (a shift by   *)
(* 4, a mask of 0x0f and the 16 children of a branch all follow from it).  *)
(***************************************************************************)
EXTENDS Integers, Sequences

CONSTANT Radix

ASSUME RadixAssumption == Radix \in Nat \ {0}

Nibble == 0 .. (Radix - 1)
Byte   == 0 .. (Radix * Radix - 1)
Path   == Seq(Nibble)

\* Every byte becomes its high nibble followed by its low nibble.
convert_bytes_to_nibbles(bytes) ==
  [i \in 1 .. 2 * Len(bytes) |->
      LET byte == bytes[(i + 1) \div 2]
      IN  IF i % 2 = 1 THEN byte \div Radix ELSE byte % Radix]

\* What is left of a path once its first n nibbles are consumed.
Drop(path, n) == SubSeq(path, n + 1, Len(path))

StartsWith(path, prefix) ==
  /\ Len(prefix) <= Len(path)
  /\ \A i \in 1 .. Len(prefix) : path[i] = prefix[i]

\* The number of leading nibbles on which n1 and n2 agree.
SharedLen(n1, n2) ==
  CHOOSE i \in 0 .. Len(n1) :
    /\ i <= Len(n2)
    /\ \A j \in 1 .. i : n1[j] = n2[j]
    /\ i = Len(n1) \/ i = Len(n2) \/ n1[i + 1] # n2[i + 1]

\* (shared prefix, rest of n1, rest of n2)
parse_nibble_slices_shared_portion(n1, n2) ==
  LET i == SharedLen(n1, n2)
  IN  [shared |-> SubSeq(n1, 1, i), rest1 |-> Drop(n1, i), rest2 |-> Drop(n2, i)]
=============================================================================
