----------------------------- MODULE TreeProofs -----------------------------
(***************************************************************************)
(* Facts about paths, their prefixes and the shared portion of two paths,  *)
(* what the operators of TrieNode do to a tree of boxed nodes, and that    *)
(* TrieNode::insert leaves another (InsertAtOwned, at the end).            *)
(***************************************************************************)
EXTENDS TrieProperties, SequenceTheorems, WellFoundedInduction, TLAPS

-----------------------------------------------------------------------------
(* Paths.                                                                  *)

\* A path without its first n nibbles is a path.
LEMMA DropProperties ==
  ASSUME NEW p \in Path, NEW n \in 0 .. Len(p)
  PROVE  /\ Drop(p, n) \in Path
         /\ Len(Drop(p, n)) = Len(p) - n
         /\ \A i \in 1 .. Len(p) - n : Drop(p, n)[i] = p[n + i]
<1>1. Len(p) \in Nat /\ \A i \in n + 1 .. Len(p) : p[i] \in Nibble
  BY LenProperties, ElementOfSeq DEF Path
<1>2. n + 1 \in Int /\ n \in Int /\ Len(p) \in Int
  BY <1>1
<1> QED BY <1>1, <1>2, SubSeqProperties DEF Drop, Path

\* Dropping more than there is leaves nothing.
LEMMA DropType ==
  ASSUME NEW p \in Path, NEW n \in Nat
  PROVE  Drop(p, n) \in Path
<1>1. Len(p) \in Nat /\ \A i \in n + 1 .. Len(p) : p[i] \in Nibble
  BY LenProperties, ElementOfSeq DEF Path
<1>2. n + 1 \in Int /\ Len(p) \in Int
  BY <1>1
<1> QED BY <1>1, <1>2, SubSeqProperties DEF Drop, Path

\* The nibbles of two paths put together.
LEMMA ConcatPath ==
  ASSUME NEW p \in Path, NEW s \in Path
  PROVE  /\ p \o s \in Path
         /\ Len(p \o s) = Len(p) + Len(s)
         /\ \A i \in 1 .. Len(p) + Len(s) :
              (p \o s)[i] = IF i <= Len(p) THEN p[i] ELSE s[i - Len(p)]
BY ConcatProperties DEF Path

\* A path is a finite sequence of nibbles.
LEMMA PathLen ==
  ASSUME NEW p \in Path
  PROVE  Len(p) \in Nat /\ \A i \in 1 .. Len(p) : p[i] \in Nibble
BY LenProperties, ElementOfSeq DEF Path

\* Paths with the same nibbles are the same path.
LEMMA PathEqual ==
  ASSUME NEW p \in Path, NEW q \in Path,
         Len(p) = Len(q), \A i \in 1 .. Len(p) : p[i] = q[i]
  PROVE  p = q
BY SeqEqual DEF Path

\* The one path of length 0.
LEMMA EmptyPath ==
  /\ <<>> \in Path
  /\ \A p \in Path : p = <<>> <=> Len(p) = 0
BY EmptySeq DEF Path

\* The path of one nibble.
LEMMA OneNibble ==
  ASSUME NEW x \in Nibble
  PROVE  <<x>> \in Path /\ Len(<<x>>) = 1 /\ <<x>>[1] = x
BY DEF Path

\* The empty path adds nothing.
LEMMA ConcatEmpty ==
  ASSUME NEW p \in Path
  PROVE  p \o <<>> = p /\ <<>> \o p = p
BY ConcatEmptySeq DEF Path

\* Paths may be put together in any grouping.
LEMMA ConcatAssoc ==
  ASSUME NEW p \in Path, NEW s \in Path, NEW t \in Path
  PROVE  (p \o s) \o t = p \o (s \o t)
BY ConcatAssociative DEF Path

\* What follows a prefix is determined by the path.
LEMMA ConcatCancel ==
  ASSUME NEW p \in Path, NEW s \in Path, NEW t \in Path, p \o s = p \o t
  PROVE  s = t
BY ConcatSimplifications DEF Path

-----------------------------------------------------------------------------
(* Prefixes.                                                               *)

\* A path is each of its prefixes and what follows it.
LEMMA PrefixDrop ==
  ASSUME NEW q \in Path, NEW p \in Path, StartsWith(q, p)
  PROVE  Drop(q, Len(p)) \in Path /\ q = p \o Drop(q, Len(p))
<1>1. Len(p) \in 0 .. Len(q)
  BY PathLen DEF StartsWith
<1>2. /\ Drop(q, Len(p)) \in Path
      /\ Len(Drop(q, Len(p))) = Len(q) - Len(p)
      /\ \A i \in 1 .. Len(q) - Len(p) : Drop(q, Len(p))[i] = q[Len(p) + i]
  BY <1>1, DropProperties
<1> DEFINE s == Drop(q, Len(p))
           r == p \o s
<1>3. /\ r \in Path /\ Len(r) = Len(q)
      /\ \A i \in 1 .. Len(q) : r[i] = IF i <= Len(p) THEN p[i] ELSE s[i - Len(p)]
  <2>1. Len(p) + Len(s) = Len(q)
    BY <1>1, <1>2, PathLen
  <2> QED BY <2>1, <1>2, ConcatPath, ZenonT(30)
<1>4. ASSUME NEW i \in 1 .. Len(q) PROVE q[i] = r[i]
  <2> HIDE DEF s, r
  <2>1. CASE i <= Len(p)
    BY <2>1, <1>1, <1>3, PathLen DEF StartsWith
  <2>2. CASE i > Len(p)
    <3>1. i - Len(p) \in 1 .. Len(q) - Len(p) /\ Len(p) + (i - Len(p)) = i /\ ~(i <= Len(p))
      BY <2>2, <1>1, PathLen
    <3>2. s[i - Len(p)] = q[i]
      BY <3>1, <1>2 DEF s
    <3> QED BY <3>1, <3>2, <1>3
  <2> QED BY <2>1, <2>2, PathLen
<1>5. q = r
  BY <1>3, <1>4, PathEqual
<1> QED BY <1>2, <1>5

\* The converse: the first of two paths put together is a prefix.
LEMMA ConcatPrefix ==
  ASSUME NEW p \in Path, NEW s \in Path
  PROVE  StartsWith(p \o s, p) /\ Drop(p \o s, Len(p)) = s
<1>1. StartsWith(p \o s, p)
  BY ConcatPath, PathLen DEF StartsWith
<1>2. Drop(p \o s, Len(p)) \in Path /\ p \o s = p \o Drop(p \o s, Len(p))
  BY <1>1, PrefixDrop, ConcatPath
<1> QED BY <1>1, <1>2, ConcatCancel

\* A path has itself and the empty path as prefixes.
LEMMA PrefixRefl ==
  ASSUME NEW p \in Path
  PROVE  StartsWith(p, p) /\ StartsWith(p, <<>>)
BY PathLen, EmptyPath DEF StartsWith

\* A prefix of a prefix is a prefix.
LEMMA PrefixTrans ==
  ASSUME NEW p \in Path, NEW q \in Path, NEW r \in Path,
         StartsWith(r, q), StartsWith(q, p)
  PROVE  StartsWith(r, p)
BY PathLen DEF StartsWith

\* A prefix that is as long as the path is the path.
LEMMA PrefixAntisym ==
  ASSUME NEW p \in Path, NEW q \in Path,
         StartsWith(q, p), Len(q) <= Len(p)
  PROVE  p = q
BY PathLen, PathEqual DEF StartsWith

\* Of two prefixes of a path the shorter is a prefix of the longer.
LEMMA PrefixLinear ==
  ASSUME NEW p \in Path, NEW q \in Path, NEW r \in Path,
         StartsWith(r, p), StartsWith(r, q), Len(p) <= Len(q)
  PROVE  StartsWith(q, p)
BY PathLen DEF StartsWith

\* Prefixing both sides changes nothing.
LEMMA PrefixConcat ==
  ASSUME NEW p \in Path, NEW s \in Path, NEW t \in Path
  PROVE  StartsWith(p \o s, p \o t) <=> StartsWith(s, t)
<1>1. ASSUME StartsWith(s, t) PROVE StartsWith(p \o s, p \o t)
  <2>1. PICK u \in Path : s = t \o u
    BY <1>1, PrefixDrop
  <2>2. p \o s = (p \o t) \o u
    BY <2>1, ConcatAssoc, ZenonT(30)
  <2> QED BY <2>2, ConcatPath, ConcatPrefix
<1>2. ASSUME StartsWith(p \o s, p \o t) PROVE StartsWith(s, t)
  <2>1. PICK u \in Path : p \o s = (p \o t) \o u
    BY <1>2, PrefixDrop, ConcatPath
  <2>2. (p \o t) \o u = p \o (t \o u)
    BY ConcatAssoc
  <2>3. s = t \o u
    BY <2>1, <2>2, ConcatPath, ConcatCancel
  <2> QED BY <2>3, ConcatPrefix
<1> QED BY <1>1, <1>2

-----------------------------------------------------------------------------
(* The shared portion of two paths.                                        *)

\* A set of natural numbers has a least element.
LEMMA LeastElement ==
  ASSUME NEW T, T \subseteq Nat, T # {}
  PROVE  \E m \in T : \A k \in T : m <= k
<1>1. \E m \in T : \A k \in T : ~(<<k, m>> \in OpToRel(<, Nat))
  BY WFMin, NatLessThanWellFounded, Zenon
<1>2. \A m, k \in Nat : <<k, m>> \in OpToRel(<, Nat) <=> k < m
  BY DEF OpToRel
<1>3. PICK m \in T : \A k \in T : ~(<<k, m>> \in OpToRel(<, Nat))
  BY <1>1
<1>4. ASSUME NEW k \in T PROVE m <= k
  <2>1. ~(k < m)
    BY <1>2, <1>3
  <2> QED BY <2>1
<1> QED BY <1>4

\* The length of the shared prefix: how far two paths agree.
LEMMA SharedLenProperties ==
  ASSUME NEW n1 \in Path, NEW n2 \in Path
  PROVE  LET i == SharedLen(n1, n2)
         IN  /\ i \in 0 .. Len(n1)
             /\ i <= Len(n2)
             /\ \A j \in 1 .. i : n1[j] = n2[j]
             /\ i = Len(n1) \/ i = Len(n2) \/ n1[i + 1] # n2[i + 1]
<1> DEFINE Stop(i) == i = Len(n1) \/ i = Len(n2) \/ n1[i + 1] # n2[i + 1]
           Stops   == {i \in Nat : Stop(i)}
           Agree(i) == /\ i <= Len(n2)
                       /\ \A j \in 1 .. i : n1[j] = n2[j]
                       /\ i = Len(n1) \/ i = Len(n2) \/ n1[i + 1] # n2[i + 1]
<1>1. Len(n1) \in Nat /\ Len(n2) \in Nat
  BY PathLen
<1>2. Len(n1) \in Stops /\ Len(n2) \in Stops
  BY <1>1
<1>3. PICK m \in Stops : \A k \in Stops : m <= k
  <2>1. Stops \subseteq Nat /\ Stops # {}
    BY <1>2
  <2> HIDE DEF Stops
  <2> QED BY <2>1, LeastElement
<1>4. m \in 0 .. Len(n1) /\ m <= Len(n2)
  BY <1>1, <1>2, <1>3
<1>5. ASSUME NEW j \in 1 .. m PROVE n1[j] = n2[j]
  <2>1. j - 1 \in Nat /\ j - 1 < m /\ (j - 1) + 1 = j
    BY <1>4
  <2>2. j - 1 \notin Stops
    <3> HIDE DEF Stops
    <3> QED BY <2>1, <1>3, <1>4
  <2>3. ~Stop(j - 1)
    BY <2>1, <2>2
  <2> QED BY <2>1, <2>3
<1>6. \E i \in 0 .. Len(n1) : Agree(i)
  BY <1>3, <1>4, <1>5
<1>7. SharedLen(n1, n2) \in 0 .. Len(n1) /\ Agree(SharedLen(n1, n2))
  BY <1>6 DEF SharedLen
<1> QED BY <1>7

\* What parse_nibble_slices_shared_portion returns: the two paths are cut at
\* the same place, and what is left of them differs in its first nibble.
LEMMA SharedPortion ==
  ASSUME NEW n1 \in Path, NEW n2 \in Path
  PROVE  LET parts == parse_nibble_slices_shared_portion(n1, n2)
         IN  /\ parts.shared \in Path /\ parts.rest1 \in Path /\ parts.rest2 \in Path
             /\ n1 = parts.shared \o parts.rest1
             /\ n2 = parts.shared \o parts.rest2
             /\ parts.rest1 # <<>> /\ parts.rest2 # <<>> => parts.rest1[1] # parts.rest2[1]
<1> DEFINE i == SharedLen(n1, n2)
           s == SubSeq(n1, 1, i)
<1>1. /\ i \in 0 .. Len(n1) /\ i \in 0 .. Len(n2)
      /\ \A j \in 1 .. i : n1[j] = n2[j]
      /\ i = Len(n1) \/ i = Len(n2) \/ n1[i + 1] # n2[i + 1]
  BY SharedLenProperties, PathLen
<1> HIDE DEF i
<1>2. s \in Path /\ Len(s) = i /\ \A j \in 1 .. i : s[j] = n1[j]
  <2>1. \A j \in 1 .. i : n1[j] \in Nibble
    BY <1>1, PathLen
  <2>2. /\ s \in Seq(Nibble)
        /\ Len(s) = IF 1 <= i THEN i - 1 + 1 ELSE 0
        /\ \A j \in 1 .. i - 1 + 1 : s[j] = n1[1 + j - 1]
    BY <1>1, <2>1, SubSeqProperties
  <2> QED BY <1>1, <2>2 DEF Path
<1>3. StartsWith(n1, s) /\ StartsWith(n2, s)
  BY <1>1, <1>2 DEF StartsWith
<1>4. /\ Drop(n1, i) \in Path /\ n1 = s \o Drop(n1, i)
      /\ Drop(n2, i) \in Path /\ n2 = s \o Drop(n2, i)
  BY <1>2, <1>3, PrefixDrop
<1>5. Drop(n1, i) # <<>> /\ Drop(n2, i) # <<>> => Drop(n1, i)[1] # Drop(n2, i)[1]
  <2> SUFFICES ASSUME Drop(n1, i) # <<>>, Drop(n2, i) # <<>>
               PROVE  Drop(n1, i)[1] # Drop(n2, i)[1]
    OBVIOUS
  <2>1. Len(n1) - i # 0 /\ Len(n2) - i # 0
    BY <1>1, <1>4, DropProperties, EmptyPath
  <2>2. Drop(n1, i)[1] = n1[i + 1] /\ Drop(n2, i)[1] = n2[i + 1]
    BY <1>1, <2>1, DropProperties, PathLen
  <2> QED BY <1>1, <2>1, <2>2, PathLen
<1>6. /\ parse_nibble_slices_shared_portion(n1, n2).shared = s
      /\ parse_nibble_slices_shared_portion(n1, n2).rest1 = Drop(n1, i)
      /\ parse_nibble_slices_shared_portion(n1, n2).rest2 = Drop(n2, i)
  BY DEF parse_nibble_slices_shared_portion, i
<1> HIDE DEF s
<1> QED BY <1>2, <1>4, <1>5, <1>6

\* The nibbles of a key are a path.
LEMMA NibblesOfKey ==
  ASSUME NEW k \in Seq(Byte)
  PROVE  convert_bytes_to_nibbles(k) \in Path
<1> DEFINE half(i) == LET byte == k[(i + 1) \div 2]
                      IN  IF i % 2 = 1 THEN byte \div Radix ELSE byte % Radix
<1>1. Len(k) \in Nat /\ \A j \in 1 .. Len(k) : k[j] \in Byte
  BY LenProperties, ElementOfSeq
<1>2. ASSUME NEW i \in 1 .. 2 * Len(k) PROVE half(i) \in Nibble
  <2>1. (i + 1) \div 2 \in 1 .. Len(k)
    BY <1>1
  <2>2. PICK byte \in Byte : byte = k[(i + 1) \div 2]
    BY <1>1, <2>1
  <2>3. byte % Radix \in Nibble
    BY RadixAssumption DEF Nibble, Byte
  <2>4. byte \div Radix \in Nibble
    BY RadixAssumption, SMTT(30) DEF Nibble, Byte
  <2> QED BY <2>2, <2>3, <2>4
<1>3. [i \in 1 .. 2 * Len(k) |-> half(i)] \in Seq(Nibble)
  <2> HIDE DEF half
  <2>1. 2 * Len(k) \in Nat
    BY <1>1
  <2>2. [i \in 1 .. 2 * Len(k) |-> half(i)] \in [1 .. 2 * Len(k) -> Nibble]
    BY <1>2
  <2> QED BY <2>1, <2>2, SeqDef
<1> QED BY <1>3 DEF convert_bytes_to_nibbles, Path

-----------------------------------------------------------------------------
(* Trees.                                                                  *)

\* A tree of boxed nodes whose hash links name digests in D.
Owned(m, D) ==
  /\ IsStore(m)
  /\ DOMAIN m \subseteq Path
  /\ Tree(m)
  /\ \A p \in DOMAIN m : \A link \in Links(m[p]) : IsHash(link) => link.hash \in D

\* A node that owns no other node and whose hash links name digests in D.
Childless(n, D) ==
  /\ IsNode(n)
  /\ \A link \in Links(n) : link # Boxed /\ (IsHash(link) => link.hash \in D)

-----------------------------------------------------------------------------
(* One node.                                                               *)

\* The three kinds of links are links, and differ.
LEMMA LinkTypes ==
  /\ IsLink(Empty) /\ IsLink(Boxed)
  /\ Empty # Boxed /\ ~IsHash(Empty) /\ ~IsHash(Boxed)
  /\ \A h : IsLink(HashLink(h)) /\ IsHash(HashLink(h)) /\ HashLink(h).hash = h
            /\ HashLink(h) # Boxed /\ HashLink(h) # Empty
BY DEF IsLink, IsHash, Empty, Boxed, HashLink

\* A leaf has the shape of a node, and no slot.
LEMMA LeafNode ==
  ASSUME NEW p \in Path, NEW v \in Value
  PROVE  /\ IsNode(Node(p, v)) /\ Node(p, v).kind = "Node"
         /\ Slots(Node(p, v)) = {} /\ Links(Node(p, v)) = {}
BY DEF IsNode, Node, Slots, Links

\* An extension with a partial key has one slot, that key.
LEMMA ExtensionNode ==
  ASSUME NEW p \in Path, p # <<>>, NEW link, IsLink(link)
  PROVE  /\ IsNode(Extension(p, link)) /\ Extension(p, link).kind = "Extension"
         /\ Extension(p, link).partial_key = p /\ Extension(p, link).branch = link
         /\ Slots(Extension(p, link)) = {p}
         /\ LinkAt(Extension(p, link), p) = link
         /\ Links(Extension(p, link)) = {link}
BY DEF IsNode, Extension, Slots, Links, LinkAt

\* A branch has a slot for every nibble.
LEMMA BranchNode ==
  ASSUME NEW c, c = [i \in Nibble |-> c[i]], \A i \in Nibble : IsLink(c[i]),
         NEW v \in Value \cup {None}
  PROVE  /\ IsNode(Branch(c, v)) /\ Branch(c, v).kind = "Branch"
         /\ Branch(c, v).children = c /\ Branch(c, v).value = v
         /\ Slots(Branch(c, v)) = {<<i>> : i \in Nibble}
         /\ \A i \in Nibble : LinkAt(Branch(c, v), <<i>>) = c[i]
         /\ Links(Branch(c, v)) = {c[i] : i \in Nibble}
<1> DEFINE n == Branch(c, v)
<1>1. n.kind = "Branch" /\ n.children = c /\ n.value = v
  BY DEF Branch
<1>2. DOMAIN n.children = Nibble
  BY <1>1
<1>3. Slots(n) = {<<i>> : i \in Nibble}
  BY <1>1, <1>2 DEF Slots
<1>4. \A i \in Nibble : LinkAt(n, <<i>>) = c[i]
  BY <1>1 DEF LinkAt
<1>5. Links(n) = {c[i] : i \in Nibble}
  <2> HIDE DEF n
  <2>1. \A link : link \in Links(n) <=> \E slot \in Slots(n) : link = LinkAt(n, slot)
    BY DEF Links
  <2>2. ASSUME NEW link \in Links(n) PROVE \E i \in Nibble : link = c[i]
    <3>1. PICK slot \in Slots(n) : link = LinkAt(n, slot)
      BY <2>1
    <3>2. PICK i \in Nibble : slot = <<i>>
      BY <1>3
    <3> QED BY <1>4, <3>1, <3>2
  <2>3. ASSUME NEW i \in Nibble PROVE c[i] \in Links(n)
    <3>1. <<i>> \in Slots(n)
      BY <1>3
    <3> QED BY <1>4, <2>1, <3>1
  <2> QED BY <2>2, <2>3
<1>6. IsNode(n)
  BY <1>1 DEF IsNode
<1> QED BY <1>1, <1>3, <1>4, <1>5, <1>6

\* The parts of a leaf, from its type.
LEMMA LeafParts ==
  ASSUME NEW n, IsNode(n), n.kind = "Node"
  PROVE  /\ n = Node(n.rest_of_key, n.value)
         /\ n.rest_of_key \in Path /\ n.value \in Value
         /\ Slots(n) = {}
BY DEF IsNode, Slots

\* The parts of an extension, from its type.
LEMMA ExtensionParts ==
  ASSUME NEW n, IsNode(n), n.kind = "Extension"
  PROVE  /\ n = Extension(n.partial_key, n.branch)
         /\ n.partial_key \in Path /\ n.partial_key # <<>>
         /\ IsLink(n.branch)
         /\ Slots(n) = {n.partial_key}
         /\ LinkAt(n, n.partial_key) = n.branch
BY DEF IsNode, Slots, LinkAt

\* The parts of a branch, from its type.
LEMMA BranchParts ==
  ASSUME NEW n, IsNode(n), n.kind = "Branch"
  PROVE  /\ n = Branch(n.children, n.value)
         /\ n.children = [i \in Nibble |-> n.children[i]]
         /\ DOMAIN n.children = Nibble
         /\ n.value \in Value \cup {None}
         /\ \A i \in Nibble : IsLink(n.children[i])
         /\ Slots(n) = {<<i>> : i \in Nibble}
         /\ \A i \in Nibble : <<i>> \in Slots(n) /\ LinkAt(n, <<i>>) = n.children[i]
<1>1. /\ n = Branch(n.children, n.value)
      /\ n.children = [i \in Nibble |-> n.children[i]]
      /\ n.value \in Value \cup {None}
      /\ \A i \in Nibble : IsLink(n.children[i])
  BY DEF IsNode
<1>2. DOMAIN n.children = Nibble
  BY <1>1
<1>3. Slots(n) = {<<i>> : i \in Nibble}
  BY <1>2 DEF Slots
<1>4. \A i \in Nibble : LinkAt(n, <<i>>) = n.children[i]
  BY DEF LinkAt
<1> QED BY <1>1, <1>2, <1>3, <1>4

\* There are no other nodes than those of TrieNode.
LEMMA NodeKinds ==
  ASSUME NEW n, IsNode(n)
  PROVE  n.kind \in {"Node", "Extension", "Branch"}
BY DEF IsNode

\* The slots of a node are non-empty paths of one length.
LEMMA NodeSlots ==
  ASSUME NEW n, IsNode(n)
  PROVE  /\ \A s \in Slots(n) : /\ s \in Path /\ s # <<>> /\ Len(s) > 0
                                /\ IsLink(LinkAt(n, s)) /\ LinkAt(n, s) \in Links(n)
         /\ \A s, t \in Slots(n) : Len(s) = Len(t)
<1>0. \A s \in Slots(n) : LinkAt(n, s) \in Links(n)
  BY DEF Links
<1>1. CASE n.kind = "Node"
  BY <1>1, LeafParts
<1>2. CASE n.kind = "Extension"
  <2>1. /\ Slots(n) = {n.partial_key} /\ LinkAt(n, n.partial_key) = n.branch
        /\ n.partial_key \in Path /\ n.partial_key # <<>> /\ IsLink(n.branch)
    BY <1>2, ExtensionParts
  <2>2. Len(n.partial_key) > 0
    BY <2>1, PathLen, EmptyPath
  <2> QED BY <1>0, <2>1, <2>2
<1>3. CASE n.kind = "Branch"
  <2>1. /\ Slots(n) = {<<i>> : i \in Nibble}
        /\ \A i \in Nibble : LinkAt(n, <<i>>) = n.children[i] /\ IsLink(n.children[i])
    BY <1>3, BranchParts
  <2>2. \A i \in Nibble : <<i>> \in Path /\ <<i>> # <<>> /\ Len(<<i>>) = 1
    BY OneNibble, EmptyPath
  <2> QED BY <1>0, <2>1, <2>2
<1> QED BY <1>1, <1>2, <1>3, NodeKinds

\* SetLink changes one slot, if the node has it.
LEMMA SetLinkProperties ==
  ASSUME NEW n, IsNode(n), NEW slot \in Path, NEW link, IsLink(link)
  PROVE  /\ IsNode(SetLink(n, slot, link))
         /\ SetLink(n, slot, link).kind = n.kind
         /\ Slots(SetLink(n, slot, link)) = Slots(n)
         /\ \A s \in Slots(n) :
              LinkAt(SetLink(n, slot, link), s) = IF s = slot THEN link ELSE LinkAt(n, s)
<1> DEFINE r == SetLink(n, slot, link)
<1>1. CASE n.kind = "Node"
  <2>1. r = n
    BY <1>1 DEF SetLink
  <2> QED BY <1>1, <2>1, LeafParts
<1>2. CASE n.kind = "Extension"
  <2>0. /\ n = Extension(n.partial_key, n.branch)
        /\ n.partial_key \in Path /\ n.partial_key # <<>> /\ Slots(n) = {n.partial_key}
    BY <1>2, ExtensionParts
  <2>1. CASE slot = n.partial_key
    <3>1. r = [n EXCEPT !.branch = link]
      BY <1>2, <2>1 DEF SetLink
    <3>2. r = Extension(n.partial_key, link)
      BY <2>0, <3>1 DEF Extension
    <3> QED BY <1>2, <2>0, <2>1, <3>2, ExtensionNode
  <2>2. CASE slot # n.partial_key
    <3>1. r = n
      BY <1>2, <2>2 DEF SetLink
    <3> QED BY <2>0, <2>2, <3>1
  <2> QED BY <2>1, <2>2
<1>3. CASE n.kind = "Branch"
  <2>0. /\ n = Branch(n.children, n.value) /\ n.value \in Value \cup {None}
        /\ n.children = [i \in Nibble |-> n.children[i]]
        /\ Slots(n) = {<<i>> : i \in Nibble}
        /\ \A i \in Nibble : LinkAt(n, <<i>>) = n.children[i] /\ IsLink(n.children[i])
    BY <1>3, BranchParts
  <2>1. CASE Len(slot) = 1
    <3>1. slot[1] \in Nibble
      BY <2>1, PathLen
    <3>2. slot = <<slot[1]>>
      <4>1. <<slot[1]>> \in Path /\ Len(<<slot[1]>>) = 1 /\ <<slot[1]>>[1] = slot[1]
        BY <3>1, OneNibble
      <4> QED BY <2>1, <4>1, PathEqual
    <3> DEFINE c == [n.children EXCEPT ![slot[1]] = link]
    <3>3. r = [n EXCEPT !.children[slot[1]] = link]
      BY <1>3, <2>1 DEF SetLink
    <3>4. r = Branch(c, n.value)
      BY <2>0, <3>3 DEF Branch
    <3>5. /\ c = [i \in Nibble |-> c[i]]
          /\ \A i \in Nibble : c[i] = IF i = slot[1] THEN link ELSE n.children[i]
      BY <2>0
    <3>6. \A i \in Nibble : IsLink(c[i])
      BY <2>0, <3>5
    <3> HIDE DEF c
    <3>7. /\ IsNode(r) /\ r.kind = "Branch" /\ Slots(r) = {<<i>> : i \in Nibble}
          /\ \A i \in Nibble : LinkAt(r, <<i>>) = c[i]
      BY <2>0, <3>4, <3>5, <3>6, BranchNode
    <3>8. ASSUME NEW s \in Slots(n)
          PROVE  LinkAt(r, s) = IF s = slot THEN link ELSE LinkAt(n, s)
      <4> HIDE DEF r
      <4>1. PICK i \in Nibble : s = <<i>>
        BY <2>0
      <4>2. s = slot <=> i = slot[1]
        BY <3>2, <4>1
      <4> QED BY <2>0, <3>5, <3>7, <4>1, <4>2
    <3> QED BY <1>3, <2>0, <3>7, <3>8
  <2>2. CASE Len(slot) # 1
    <3>1. r = n
      BY <1>3, <2>2 DEF SetLink
    <3>2. slot \notin Slots(n)
      BY <2>0, <2>2, OneNibble
    <3> QED BY <3>1, <3>2
  <2> QED BY <2>1, <2>2
<1> QED BY <1>1, <1>2, <1>3, NodeKinds
-----------------------------------------------------------------------------
(* Storing a node, and changing the link that leads to one.                *)

\* What is where after a node is stored.
LEMMA WithProperties ==
  ASSUME NEW m, NEW p, NEW n
  PROVE  /\ DOMAIN With(m, p, n) = DOMAIN m \cup {p}
         /\ With(m, p, n)[p] = n
         /\ \A q \in DOMAIN m : q # p => With(m, p, n)[q] = m[q]
         /\ With(m, p, n) = [q \in DOMAIN With(m, p, n) |-> With(m, p, n)[q]]
BY DEF With

\* A store with one more well-typed node is well-typed.
LEMMA WithType ==
  ASSUME NEW m, IsStore(m), NEW p, NEW n, IsNode(n)
  PROVE  IsStore(With(m, p, n))
<1> DEFINE r == With(m, p, n)
<1>1. /\ DOMAIN r = DOMAIN m \cup {p} /\ r = [q \in DOMAIN r |-> r[q]]
      /\ r[p] = n /\ \A q \in DOMAIN m : q # p => r[q] = m[q]
  BY DEF With
<1> HIDE DEF r
<1>2. \A q \in DOMAIN r : IsNode(r[q])
  BY <1>1 DEF IsStore
<1>3. IsStore(r)
  BY <1>1, <1>2 DEF IsStore
<1> QED BY <1>3 DEF r

\* What is owned is owned as seen through slots.
LEMMA OwnedBySlots ==
  ASSUME NEW m, NEW D
  PROVE  Owned(m, D) <=>
           /\ IsStore(m)
           /\ DOMAIN m \subseteq Path
           /\ Tree(m)
           /\ \A p \in DOMAIN m : \A s \in Slots(m[p]) :
                IsHash(LinkAt(m[p], s)) => LinkAt(m[p], s).hash \in D
BY DEF Owned, Links

\* Relink changes the one link that leads to `at', in whatever node it is.
LEMMA RelinkProperties ==
  ASSUME NEW m, IsStore(m), DOMAIN m \subseteq Path,
         NEW at \in Path, NEW link, IsLink(link)
  PROVE  /\ IsStore(Relink(m, at, link))
         /\ DOMAIN Relink(m, at, link) = DOMAIN m
         /\ \A p \in DOMAIN m :
              /\ Slots(Relink(m, at, link)[p]) = Slots(m[p])
              /\ \A s \in Slots(m[p]) :
                   LinkAt(Relink(m, at, link)[p], s)
                     = IF p \o s = at THEN link ELSE LinkAt(m[p], s)
<1> DEFINE r == Relink(m, at, link)
<1>1. /\ DOMAIN r = DOMAIN m /\ r = [p \in DOMAIN r |-> r[p]]
      /\ \A p \in DOMAIN m :
           r[p] = IF StartsWith(at, p) THEN SetLink(m[p], Drop(at, Len(p)), link) ELSE m[p]
  BY DEF Relink
<1> HIDE DEF r
<1>2. ASSUME NEW p \in DOMAIN m
      PROVE  /\ IsNode(r[p])
             /\ Slots(r[p]) = Slots(m[p])
             /\ \A s \in Slots(m[p]) :
                  LinkAt(r[p], s) = IF p \o s = at THEN link ELSE LinkAt(m[p], s)
  <2>1. IsNode(m[p]) /\ p \in Path
    BY DEF IsStore
  <2>2. CASE StartsWith(at, p)
    <3>1. Drop(at, Len(p)) \in Path /\ at = p \o Drop(at, Len(p))
      BY <2>1, <2>2, PrefixDrop
    <3>2. r[p] = SetLink(m[p], Drop(at, Len(p)), link)
      BY <1>1, <2>2
    <3>3. ASSUME NEW s \in Slots(m[p]) PROVE s = Drop(at, Len(p)) <=> p \o s = at
      BY <2>1, <3>1, NodeSlots, ConcatCancel
    <3> QED BY <2>1, <3>1, <3>2, <3>3, SetLinkProperties
  <2>3. CASE ~StartsWith(at, p)
    <3>1. r[p] = m[p]
      BY <1>1, <2>3
    <3>2. ASSUME NEW s \in Slots(m[p]) PROVE p \o s # at
      <4>1. s \in Path
        BY <2>1, NodeSlots
      <4>2. StartsWith(p \o s, p)
        BY <2>1, <4>1, ConcatPrefix
      <4> QED BY <2>3, <4>2
    <3> QED BY <2>1, <3>1, <3>2
  <2> QED BY <2>2, <2>3
<1>3. IsStore(r)
  BY <1>1, <1>2 DEF IsStore
<1> QED BY <1>1, <1>2, <1>3 DEF r

\* In a tree, nothing is at or below a slot that does not own a node.
LEMMA NothingBelow ==
  ASSUME NEW m, NEW D, Owned(m, D),
         NEW p \in DOMAIN m, NEW s \in Slots(m[p]), LinkAt(m[p], s) # Boxed,
         NEW q \in DOMAIN m
  PROVE  ~StartsWith(q, p \o s)
<1> SUFFICES ASSUME StartsWith(q, p \o s) PROVE FALSE
  OBVIOUS
<1>1. p \in Path /\ q \in Path /\ IsNode(m[p])
  BY DEF Owned, IsStore
<1>2. s \in Path /\ Len(s) > 0 /\ p \o s \in Path /\ Len(p \o s) = Len(p) + Len(s)
  BY <1>1, NodeSlots, ConcatPath
<1>0. Len(p) \in Nat /\ Len(s) \in Nat
  BY <1>1, <1>2, PathLen
<1>3. StartsWith(q, p) /\ q # p
  <2>1. StartsWith(q, p)
    BY <1>1, <1>2, ConcatPrefix, PrefixTrans
  <2>2. Len(q) >= Len(p) + Len(s)
    BY <1>2 DEF StartsWith
  <2> QED BY <1>1, <1>2, <2>1, <2>2, PathLen
<1>4. PICK t \in Slots(m[p]) : LinkAt(m[p], t) = Boxed /\ StartsWith(q, p \o t)
  BY <1>3 DEF Owned, Tree
<1>5. t \in Path /\ Len(t) = Len(s) /\ p \o t \in Path /\ Len(p \o t) = Len(p) + Len(t)
  BY <1>1, NodeSlots, ConcatPath
<1>6. p \o s = p \o t
  <2>1. Len(p \o s) <= Len(p \o t) /\ Len(p \o t) <= Len(p \o s)
    BY <1>0, <1>2, <1>5
  <2>2. StartsWith(p \o t, p \o s)
    BY <1>1, <1>2, <1>4, <1>5, <2>1, PrefixLinear
  <2> QED BY <1>2, <1>5, <2>1, <2>2, PrefixAntisym
<1>7. s = t
  BY <1>1, <1>2, <1>5, <1>6, ConcatCancel
<1> QED BY <1>4, <1>7

\* Nothing is below a node that owns no node.
LEMMA NothingBelowChildless ==
  ASSUME NEW m, Tree(m), NEW p \in DOMAIN m,
         \A s \in Slots(m[p]) : LinkAt(m[p], s) # Boxed,
         NEW q \in DOMAIN m, StartsWith(q, p)
  PROVE  q = p
BY DEF Tree
-----------------------------------------------------------------------------
(* The steps of insert and collapse that do not split a node.              *)

\* The slots of n that own a node.
Owning(n) == {s \in Slots(n) : LinkAt(n, s) = Boxed}

\* A node may be replaced by one that owns the same slots.
LEMMA ReplaceNode ==
  ASSUME NEW m, NEW D, Owned(m, D), NEW p \in DOMAIN m,
         NEW n, IsNode(n), Owning(n) = Owning(m[p]),
         \A s \in Slots(n) : IsHash(LinkAt(n, s)) => LinkAt(n, s).hash \in D
  PROVE  Owned(With(m, p, n), D) /\ DOMAIN With(m, p, n) = DOMAIN m
<1> DEFINE r == With(m, p, n)
<1>1. /\ DOMAIN r = DOMAIN m /\ r[p] = n
      /\ \A q \in DOMAIN m : q # p => r[q] = m[q]
  BY DEF With
<1>2. IsStore(r)
  BY WithType DEF Owned
<1> HIDE DEF r
<1>3. \A q \in DOMAIN m : Owning(r[q]) = Owning(m[q])
  BY <1>1
<1>4. ASSUME NEW q \in DOMAIN m, NEW s \in Slots(r[q]), LinkAt(r[q], s) = Boxed
      PROVE  q \o s \in DOMAIN m
  <2>1. s \in Owning(m[q])
    BY <1>3, <1>4 DEF Owning
  <2> QED BY <2>1 DEF Owning, Owned, Tree
<1>5. ASSUME NEW x \in DOMAIN m, NEW y \in DOMAIN m, StartsWith(y, x), y # x
      PROVE  \E s \in Slots(r[x]) : LinkAt(r[x], s) = Boxed /\ StartsWith(y, x \o s)
  <2>1. PICK s \in Owning(m[x]) : StartsWith(y, x \o s)
    BY <1>5 DEF Owned, Tree, Owning
  <2>2. s \in Owning(r[x])
    BY <1>3, <2>1
  <2> QED BY <2>1, <2>2 DEF Owning
<1>6. Tree(r)
  BY <1>1, <1>4, <1>5 DEF Tree
<1>7. \A q \in DOMAIN r : \A s \in Slots(r[q]) : IsHash(LinkAt(r[q], s)) => LinkAt(r[q], s).hash \in D
  BY <1>1, OwnedBySlots
<1>8. Owned(r, D)
  BY <1>1, <1>2, <1>6, <1>7, OwnedBySlots DEF Owned
<1> QED BY <1>1, <1>8 DEF r

\* A node without boxed children owns no node.
LEMMA ChildlessNode ==
  ASSUME NEW n, NEW D, Childless(n, D)
  PROVE  /\ IsNode(n) /\ Owning(n) = {}
         /\ \A s \in Slots(n) : /\ LinkAt(n, s) # Boxed
                               /\ IsHash(LinkAt(n, s)) => LinkAt(n, s).hash \in D
BY NodeSlots DEF Childless, Owning

\* A leaf owns no node.
LEMMA ChildlessLeaf ==
  ASSUME NEW p \in Path, NEW v \in Value, NEW D
  PROVE  Childless(Node(p, v), D)
BY LeafNode DEF Childless

\* A link that owns no node is made to own one that itself owns none.
LEMMA Attach ==
  ASSUME NEW m, NEW D, Owned(m, D),
         NEW p \in DOMAIN m, NEW slot \in Slots(m[p]), LinkAt(m[p], slot) # Boxed,
         NEW n, Childless(n, D)
  PROVE  Owned(With(Relink(m, p \o slot, Boxed), p \o slot, n), D)
<1> DEFINE at == p \o slot
           l == Relink(m, at, Boxed)
           r == With(l, at, n)
<1>0. p \in Path /\ IsNode(m[p]) /\ slot \in Path /\ Len(slot) > 0 /\ at \in Path
      /\ Len(at) = Len(p) + Len(slot) /\ Len(p) \in Nat /\ Len(slot) \in Nat
  BY NodeSlots, ConcatPath, PathLen DEF Owned, IsStore
<1>1. /\ IsStore(l) /\ DOMAIN l = DOMAIN m
      /\ \A q \in DOMAIN m :
           /\ Slots(l[q]) = Slots(m[q])
           /\ \A s \in Slots(m[q]) :
                LinkAt(l[q], s) = IF q \o s = at THEN Boxed ELSE LinkAt(m[q], s)
  <2>1. IsStore(m) /\ DOMAIN m \subseteq Path /\ at \in Path /\ IsLink(Boxed)
    BY <1>0, LinkTypes DEF Owned
  <2> HIDE DEF at
  <2> QED BY <2>1, RelinkProperties
<1>2. \A q \in DOMAIN m : q \in Path /\ ~StartsWith(q, at) /\ q # at
  BY <1>0, NothingBelow, PrefixRefl DEF Owned
<1> HIDE DEF at, l
<1>3. /\ DOMAIN r = DOMAIN m \cup {at} /\ r[at] = n
      /\ \A q \in DOMAIN m : r[q] = l[q]
  BY <1>1, <1>2 DEF With
<1>4. IsStore(r)
  BY <1>1, WithType DEF Childless
<1> HIDE DEF r
<1>5. \A s \in Slots(n) : LinkAt(n, s) # Boxed /\ (IsHash(LinkAt(n, s)) => LinkAt(n, s).hash \in D)
  BY NodeSlots DEF Childless
<1>6. ASSUME NEW q \in DOMAIN r, NEW s \in Slots(r[q]), LinkAt(r[q], s) = Boxed
      PROVE  q \o s \in DOMAIN r
  <2>1. CASE q = at
    BY <1>3, <1>5, <1>6, <2>1
  <2>2. CASE q \in DOMAIN m
    BY <1>1, <1>3, <1>6, <2>2 DEF Owned, Tree
  <2> QED BY <1>3, <2>1, <2>2
<1>7. ASSUME NEW x \in DOMAIN r, NEW y \in DOMAIN r, StartsWith(y, x), y # x
      PROVE  \E s \in Slots(r[x]) : LinkAt(r[x], s) = Boxed /\ StartsWith(y, x \o s)
  <2>1. x # at /\ x \in DOMAIN m
    BY <1>2, <1>3, <1>7
  <2>2. CASE y \in DOMAIN m
    <3>1. PICK s \in Slots(m[x]) : LinkAt(m[x], s) = Boxed /\ StartsWith(y, x \o s)
      BY <1>7, <2>1, <2>2 DEF Owned, Tree
    <3> QED BY <1>1, <1>3, <2>1, <3>1
  <2>3. CASE y = at
    <3>1. CASE x = p
      <4>1. slot \in Slots(r[x]) /\ LinkAt(r[x], slot) = Boxed
        BY <1>1, <1>3, <3>1 DEF at
      <4>2. StartsWith(y, x \o slot)
        BY <1>0, <2>3, <3>1, PrefixRefl DEF at
      <4> QED BY <4>1, <4>2
    <3>2. CASE x # p
      <4>1. x \in Path /\ StartsWith(at, x) /\ StartsWith(at, p) /\ Len(x) \in Nat
        BY <1>0, <1>2, <1>7, <2>1, <2>3, ConcatPrefix, PathLen DEF at
      <4>2. CASE Len(p) <= Len(x)
        <5>1. StartsWith(x, p)
          BY <1>0, <4>1, <4>2, PrefixLinear
        <5>2. PICK t \in Slots(m[p]) : LinkAt(m[p], t) = Boxed /\ StartsWith(x, p \o t)
          BY <2>1, <3>2, <5>1 DEF Owned, Tree
        <5>3. /\ t \in Path /\ Len(t) = Len(slot)
              /\ p \o t \in Path /\ Len(p \o t) = Len(at)
          <6>1. t \in Path /\ Len(t) = Len(slot)
            BY <1>0, NodeSlots
          <6>2. p \o t \in Path /\ Len(p \o t) = Len(p) + Len(t)
            BY <1>0, <6>1, ConcatPath
          <6> QED BY <1>0, <6>1, <6>2
        <5>4. Len(at) <= Len(x)
          BY <5>2, <5>3 DEF StartsWith
        <5>5. x = at
          BY <1>0, <4>1, <5>4, PrefixAntisym
        <5> QED BY <2>1, <5>5
      <4>3. CASE Len(x) < Len(p)
        <5>1. StartsWith(p, x)
          BY <1>0, <4>1, <4>3, PrefixLinear
        <5>2. PICK t \in Slots(m[x]) : LinkAt(m[x], t) = Boxed /\ StartsWith(p, x \o t)
          BY <2>1, <3>2, <5>1 DEF Owned, Tree
        <5>3. x \o t \in Path
          BY <2>1, <4>1, NodeSlots, ConcatPath DEF Owned, IsStore
        <5>4. StartsWith(at, x \o t)
          BY <1>0, <4>1, <5>2, <5>3, PrefixTrans
        <5> QED BY <1>1, <1>3, <2>1, <2>3, <5>2, <5>4
      <4> QED BY <1>0, <4>1, <4>2, <4>3
    <3> QED BY <3>1, <3>2
  <2> QED BY <1>3, <2>2, <2>3
<1>8. Tree(r)
  BY <1>6, <1>7 DEF Tree
<1>9. \A q \in DOMAIN r : \A s \in Slots(r[q]) : IsHash(LinkAt(r[q], s)) => LinkAt(r[q], s).hash \in D
  BY <1>1, <1>3, <1>5, OwnedBySlots, LinkTypes
<1>10. DOMAIN r \subseteq Path
  BY <1>0, <1>2, <1>3
<1>11. Owned(r, D)
  BY <1>4, <1>8, <1>9, <1>10, OwnedBySlots
<1> QED BY <1>3, <1>11 DEF r, l, at

\* collapse takes a node that owns none out of the tree and leaves its digest.
LEMMA Detach ==
  ASSUME NEW m, NEW D, Owned(m, D), NEW p \in DOMAIN m,
         \A s \in Slots(m[p]) : LinkAt(m[p], s) # Boxed,
         NEW h
  PROVE  LET r == Relink([q \in DOMAIN m \ {p} |-> m[q]], p, HashLink(h))
         IN  /\ Owned(r, D \cup {h})
             /\ DOMAIN r = DOMAIN m \ {p}
<1> DEFINE l == [q \in DOMAIN m \ {p} |-> m[q]]
           r == Relink(l, p, HashLink(h))
<1>1. /\ DOMAIN l = DOMAIN m \ {p} /\ \A q \in DOMAIN l : l[q] = m[q]
      /\ IsStore(l) /\ p \in Path
  BY DEF Owned, IsStore
<1> HIDE DEF l
<1>2. /\ IsStore(r) /\ DOMAIN r = DOMAIN m \ {p}
      /\ \A q \in DOMAIN r :
           /\ Slots(r[q]) = Slots(m[q])
           /\ \A s \in Slots(m[q]) :
                LinkAt(r[q], s) = IF q \o s = p THEN HashLink(h) ELSE LinkAt(m[q], s)
  BY <1>1, RelinkProperties, LinkTypes DEF Owned
<1> HIDE DEF r
<1>3. ASSUME NEW q \in DOMAIN r, NEW s \in Slots(r[q]), LinkAt(r[q], s) = Boxed
      PROVE  q \o s \in DOMAIN r
  <2>1. s \in Slots(m[q]) /\ q \o s # p /\ LinkAt(m[q], s) = Boxed
    BY <1>2, <1>3, LinkTypes
  <2> QED BY <1>2, <2>1 DEF Owned, Tree
<1>4. ASSUME NEW x \in DOMAIN r, NEW y \in DOMAIN r, StartsWith(y, x), y # x
      PROVE  \E s \in Slots(r[x]) : LinkAt(r[x], s) = Boxed /\ StartsWith(y, x \o s)
  <2>1. PICK s \in Slots(m[x]) : LinkAt(m[x], s) = Boxed /\ StartsWith(y, x \o s)
    BY <1>2, <1>4 DEF Owned, Tree
  <2>2. x \o s # p
    BY <1>2, <2>1, NothingBelowChildless DEF Owned
  <2> QED BY <1>2, <2>1, <2>2
<1>5. Tree(r)
  BY <1>3, <1>4 DEF Tree
<1>6. ASSUME NEW q \in DOMAIN r, NEW s \in Slots(r[q]), IsHash(LinkAt(r[q], s))
      PROVE  LinkAt(r[q], s).hash \in D \cup {h}
  BY <1>2, <1>6, OwnedBySlots, LinkTypes
<1>7. Owned(r, D \cup {h})
  BY <1>2, <1>5, <1>6, OwnedBySlots DEF Owned
<1> QED BY <1>2, <1>7 DEF r, l
-----------------------------------------------------------------------------
(* The steps that split one.                                               *)

\* The node at p may become n, which owns the node c through one more slot.
Grafts(m, D, p, n, slot, c) ==
  /\ Owned(m, D) /\ p \in DOMAIN m
  /\ IsNode(n) /\ slot \in Slots(n)
  /\ slot \notin Owning(m[p]) /\ Owning(n) = Owning(m[p]) \cup {slot}
  /\ \A s \in Slots(n) : IsHash(LinkAt(n, s)) => LinkAt(n, s).hash \in D
  /\ \A q \in DOMAIN m : ~StartsWith(q, p \o slot)
  /\ Childless(c, D)

\* A node is replaced by one that owns one new node in addition.
LEMMA Graft ==
  ASSUME NEW m, NEW D, NEW p, NEW n, NEW slot, NEW c, Grafts(m, D, p, n, slot, c),
         NEW r, r = With(With(m, p, n), p \o slot, c)
  PROVE  Owned(r, D)
<1> USE DEF Grafts
<1> DEFINE at == p \o slot
           l == With(m, p, n)
<1>0. /\ p \in Path /\ slot \in Path /\ Len(slot) > 0 /\ at \in Path
      /\ Len(at) = Len(p) + Len(slot) /\ Len(p) \in Nat /\ Len(slot) \in Nat
  BY NodeSlots, ConcatPath, PathLen DEF Owned
<1>1. \A q \in DOMAIN m : q \in Path /\ ~StartsWith(q, at) /\ q # at
  BY <1>0, PrefixRefl DEF Owned
<1>2. StartsWith(at, p)
  BY <1>0, ConcatPrefix
<1>12. r = With(l, at, c)
  OBVIOUS
<1>3. IsStore(r)
  <2>1. IsStore(l)
    BY WithType DEF Owned
  <2> HIDE DEF l, at
  <2> QED BY <1>12, <2>1, WithType DEF Childless
<1>4. /\ DOMAIN r = DOMAIN m \cup {at} /\ r[at] = c /\ r[p] = n
      /\ \A q \in DOMAIN m : q # p => r[q] = m[q]
  <2> HIDE DEF at
  <2>1. DOMAIN l = DOMAIN m /\ l[p] = n /\ \A q \in DOMAIN m : q # p => l[q] = m[q]
    BY DEF With
  <2>2. p # at
    BY <1>1
  <2> HIDE DEF l
  <2>3. DOMAIN r = DOMAIN l \cup {at} /\ r[at] = c /\ \A q \in DOMAIN l : q # at => r[q] = l[q]
    BY <1>12 DEF With
  <2> QED BY <1>1, <2>1, <2>2, <2>3
<1> HIDE DEF l
<1>5. /\ at = p \o slot /\ Owning(r[at]) = {} /\ Owning(r[p]) = Owning(m[p]) \cup {slot}
      /\ \A q \in DOMAIN m : q # p => Owning(r[q]) = Owning(m[q])
  BY <1>4, ChildlessNode
<1> HIDE DEF at
<1>6. ASSUME NEW q \in DOMAIN r, NEW s \in Owning(r[q])
      PROVE  q \o s \in DOMAIN r
  <2>1. q \in DOMAIN m
    BY <1>4, <1>5
  <2>2. CASE s \in Owning(m[q])
    BY <1>4, <2>1, <2>2 DEF Owned, Tree, Owning
  <2>3. CASE s \notin Owning(m[q])
    BY <1>4, <1>5, <2>1, <2>3
  <2> QED BY <2>2, <2>3
<1>7. ASSUME NEW x \in DOMAIN r, NEW y \in DOMAIN r, StartsWith(y, x), y # x
      PROVE  \E s \in Owning(r[x]) : StartsWith(y, x \o s)
  <2>1. x # at /\ x \in DOMAIN m
    BY <1>1, <1>4, <1>7
  <2>2. CASE y \in DOMAIN m
    <3>1. PICK s \in Owning(m[x]) : StartsWith(y, x \o s)
      BY <1>7, <2>1, <2>2 DEF Owned, Tree, Owning
    <3> QED BY <1>5, <2>1, <3>1
  <2>3. CASE y = at
    <3>1. CASE x = p
      BY <1>0, <1>5, <2>3, <3>1, PrefixRefl
    <3>2. CASE x # p
      <4>1. x \in Path /\ StartsWith(at, x) /\ Len(x) \in Nat
        BY <1>1, <1>7, <2>1, <2>3, PathLen
      <4>2. CASE Len(p) <= Len(x)
        <5>1. StartsWith(x, p)
          BY <1>0, <1>2, <4>1, <4>2, PrefixLinear
        <5>2. PICK t \in Owning(m[p]) : StartsWith(x, p \o t)
          BY <2>1, <3>2, <5>1 DEF Owned, Tree, Owning
        <5>3. t \in Path /\ Len(t) = Len(slot)
          BY <5>2, NodeSlots DEF Owning
        <5>4. p \o t \in Path /\ Len(p \o t) = Len(p) + Len(t)
          BY <1>0, <5>3, ConcatPath
        <5>5. Len(at) <= Len(x)
          BY <1>0, <5>2, <5>3, <5>4 DEF StartsWith
        <5>6. x = at
          BY <1>0, <4>1, <5>5, PrefixAntisym
        <5> QED BY <2>1, <5>6
      <4>3. CASE Len(x) < Len(p)
        <5>1. StartsWith(p, x)
          BY <1>0, <1>2, <4>1, <4>3, PrefixLinear
        <5>2. PICK t \in Owning(m[x]) : StartsWith(p, x \o t)
          BY <2>1, <3>2, <5>1 DEF Owned, Tree, Owning
        <5>3. x \o t \in Path
          BY <2>1, <4>1, NodeSlots, ConcatPath DEF Owned, IsStore, Owning
        <5>4. StartsWith(at, x \o t)
          BY <1>0, <1>2, <5>2, <5>3, PrefixTrans
        <5> QED BY <1>5, <2>1, <2>3, <3>2, <5>2, <5>4
      <4> QED BY <1>0, <4>1, <4>2, <4>3
    <3> QED BY <3>1, <3>2
  <2> QED BY <1>4, <2>2, <2>3
<1>8. Tree(r)
  BY <1>6, <1>7 DEF Tree, Owning
<1>9. \A q \in DOMAIN r : \A s \in Slots(r[q]) : IsHash(LinkAt(r[q], s)) => LinkAt(r[q], s).hash \in D
  <2>1. \A q \in DOMAIN m : q # p =>
          \A s \in Slots(r[q]) : IsHash(LinkAt(r[q], s)) => LinkAt(r[q], s).hash \in D
    BY <1>4, OwnedBySlots
  <2>2. \A s \in Slots(c) : IsHash(LinkAt(c, s)) => LinkAt(c, s).hash \in D
    BY NodeSlots DEF Childless
  <2> QED BY <1>4, <2>1, <2>2
<1>10. DOMAIN r \subseteq Path
  BY <1>0, <1>1, <1>4
<1>11. Owned(r, D)
  BY <1>3, <1>8, <1>9, <1>10, OwnedBySlots
<1> QED BY <1>4, <1>11 DEF at

\* An extension is cut in two.
LEMMA CutExtension ==
  ASSUME NEW m, NEW D, Owned(m, D), NEW p \in DOMAIN m,
         NEW a \in Path, a # <<>>, NEW b \in Path, b # <<>>,
         NEW link, m[p] = Extension(a \o b, link)
  PROVE  LET r == With(With(m, p, Extension(a, Boxed)), p \o a, Extension(b, link))
         IN  Owned(r, D) /\ DOMAIN r = DOMAIN m \cup {p \o a}
<1> DEFINE at == p \o a
           l == With(m, p, Extension(a, Boxed))
           r == With(l, at, Extension(b, link))
           ab == a \o b
<1>0. /\ p \in Path /\ ab \in Path /\ at \in Path /\ p \o ab \in Path
      /\ p \o ab = at \o b
      /\ Len(a) \in Nat \ {0} /\ Len(b) \in Nat \ {0} /\ Len(p) \in Nat
      /\ Len(ab) = Len(a) + Len(b) /\ Len(at) = Len(p) + Len(a)
      /\ Len(p \o ab) = Len(at) + Len(b)
      /\ ab # <<>>
  <2>1. p \in Path
    BY DEF Owned
  <2>2. Len(a) \in Nat \ {0} /\ Len(b) \in Nat \ {0} /\ Len(p) \in Nat
    BY <2>1, PathLen, EmptyPath
  <2>3. ab \in Path /\ Len(ab) = Len(a) + Len(b) /\ at \in Path /\ Len(at) = Len(p) + Len(a)
    BY <2>1, ConcatPath
  <2>4. p \o ab \in Path /\ Len(p \o ab) = Len(p) + Len(ab)
    BY <2>1, <2>3, ConcatPath
  <2>5. p \o ab = at \o b
    BY <2>1, ConcatAssoc
  <2>6. ab # <<>>
    BY <2>2, <2>3, EmptyPath
  <2> HIDE DEF ab, at
  <2> QED BY <2>1, <2>2, <2>3, <2>4, <2>5, <2>6
<1>1. IsLink(link) /\ Slots(m[p]) = {ab} /\ LinkAt(m[p], ab) = link
  <2>1. IsNode(m[p]) /\ m[p].kind = "Extension" /\ m[p].partial_key = ab /\ m[p].branch = link
    <3>1. IsNode(m[p])
      BY DEF Owned, IsStore
    <3> QED BY <3>1 DEF Extension
  <2> QED BY <2>1, ExtensionParts
<1>2. /\ IsNode(Extension(a, Boxed)) /\ Slots(Extension(a, Boxed)) = {a}
      /\ LinkAt(Extension(a, Boxed), a) = Boxed
      /\ IsNode(Extension(b, link)) /\ Slots(Extension(b, link)) = {b}
      /\ LinkAt(Extension(b, link), b) = link
  BY <1>1, ExtensionNode, LinkTypes
<1> HIDE DEF ab
<1>3. ASSUME NEW q \in DOMAIN m, StartsWith(q, p), q # p
      PROVE  link = Boxed /\ StartsWith(q, p \o ab)
  BY <1>1, <1>3 DEF Owned, Tree
<1>4. StartsWith(at, p) /\ StartsWith(p \o ab, at)
  BY <1>0, ConcatPrefix
<1>5. at \notin DOMAIN m
  <2> SUFFICES ASSUME at \in DOMAIN m PROVE FALSE
    OBVIOUS
  <2>1. at # p
    BY <1>0
  <2>2. StartsWith(at, p \o ab)
    BY <1>3, <1>4, <2>1
  <2> QED BY <1>0, <2>2 DEF StartsWith
<1>6. IsStore(r)
  <2>1. IsStore(l)
    BY <1>2, WithType DEF Owned
  <2> HIDE DEF l, at
  <2> QED BY <1>2, <2>1, WithType
<1>7. /\ DOMAIN r = DOMAIN m \cup {at} /\ r[at] = Extension(b, link) /\ r[p] = Extension(a, Boxed)
      /\ \A q \in DOMAIN m : q # p => r[q] = m[q]
  <2> HIDE DEF at
  <2> QED BY <1>5 DEF With
<1> HIDE DEF r, l
<1>8. ASSUME NEW q \in DOMAIN r, NEW s \in Slots(r[q]), LinkAt(r[q], s) = Boxed
      PROVE  q \o s \in DOMAIN r
  <2>1. CASE q = at
    <3>1. s = b /\ link = Boxed /\ q \o s = p \o ab
      BY <1>0, <1>2, <1>7, <1>8, <2>1
    <3>2. p \o ab \in DOMAIN m
      BY <1>1, <3>1 DEF Owned, Tree
    <3> QED BY <1>7, <3>1, <3>2
  <2>2. CASE q = p
    BY <1>2, <1>7, <1>8, <2>2
  <2>3. CASE q \in DOMAIN m /\ q # p
    BY <1>7, <1>8, <2>3 DEF Owned, Tree
  <2> QED BY <1>7, <2>1, <2>2, <2>3
<1>9. ASSUME NEW x \in DOMAIN r, NEW y \in DOMAIN r, StartsWith(y, x), y # x
      PROVE  \E s \in Slots(r[x]) : LinkAt(r[x], s) = Boxed /\ StartsWith(y, x \o s)
  <2>0. x \in Path /\ y \in Path /\ Len(x) \in Nat
    BY <1>0, <1>7, PathLen DEF Owned
  <2>1. CASE x = p
    <3>1. StartsWith(y, at)
      <4>1. CASE y = at
        BY <1>0, <4>1, PrefixRefl
      <4>2. CASE y \in DOMAIN m
        <5>1. StartsWith(y, p \o ab)
          BY <1>3, <1>9, <2>1, <4>2
        <5> QED BY <1>0, <1>4, <2>0, <5>1, PrefixTrans
      <4> QED BY <1>7, <4>1, <4>2
    <3> QED BY <1>2, <1>7, <2>1, <3>1
  <2>2. CASE x = at
    <3>1. y \in DOMAIN m /\ StartsWith(y, p)
      BY <1>0, <1>4, <1>7, <1>9, <2>0, <2>2, PrefixTrans
    <3>2. y # p
      BY <1>0, <1>9, <2>2 DEF StartsWith
    <3>3. link = Boxed /\ StartsWith(y, at \o b)
      BY <1>0, <1>3, <3>1, <3>2
    <3> QED BY <1>2, <1>7, <2>2, <3>3
  <2>3. CASE x \in DOMAIN m /\ x # p
    <3>1. CASE y \in DOMAIN m
      BY <1>7, <1>9, <2>3, <3>1 DEF Owned, Tree
    <3>2. CASE y = at
      <4>1. CASE Len(p) <= Len(x)
        <5>1. StartsWith(x, p)
          BY <1>0, <1>4, <1>9, <2>0, <3>2, <4>1, PrefixLinear
        <5>2. StartsWith(x, p \o ab)
          BY <1>3, <2>3, <5>1
        <5>3. Len(p \o ab) <= Len(at)
          BY <1>0, <1>9, <2>0, <3>2, <5>2 DEF StartsWith
        <5> QED BY <1>0, <5>3
      <4>2. CASE Len(x) < Len(p)
        <5>1. StartsWith(p, x)
          BY <1>0, <1>4, <1>9, <2>0, <3>2, <4>2, PrefixLinear
        <5>2. PICK t \in Slots(m[x]) : LinkAt(m[x], t) = Boxed /\ StartsWith(p, x \o t)
          BY <2>3, <5>1 DEF Owned, Tree
        <5>3. t \in Path
          BY <2>3, NodeSlots DEF Owned, IsStore
        <5>4. x \o t \in Path
          BY <2>0, <5>3, ConcatPath
        <5>5. StartsWith(at, x \o t)
          BY <1>0, <1>4, <5>2, <5>4, PrefixTrans
        <5> QED BY <1>7, <2>3, <3>2, <5>2, <5>5
      <4> QED BY <1>0, <2>0, <4>1, <4>2
    <3> QED BY <1>7, <3>1, <3>2
  <2> QED BY <1>7, <2>1, <2>2, <2>3
<1>10. Tree(r)
  BY <1>8, <1>9 DEF Tree
<1>11. \A q \in DOMAIN r : \A s \in Slots(r[q]) : IsHash(LinkAt(r[q], s)) => LinkAt(r[q], s).hash \in D
  <2>1. IsHash(link) => link.hash \in D
    BY <1>1, OwnedBySlots
  <2> QED BY <1>2, <1>7, <2>1, OwnedBySlots, LinkTypes, ZenonT(30)
<1>12. DOMAIN r \subseteq Path
  BY <1>0, <1>7 DEF Owned
<1>13. Owned(r, D)
  BY <1>6, <1>10, <1>11, <1>12, OwnedBySlots
<1> QED BY <1>7, <1>13 DEF r, l, at

\* An extension loses the first part of its partial key, and what it owns
\* moves up with it.
LEMMA ShortenExtension ==
  ASSUME NEW m, NEW D, Owned(m, D), NEW p \in DOMAIN m,
         NEW a \in Path, NEW b \in Path, b # <<>>,
         NEW link, m[p] = Extension(a \o b, link)
  PROVE  LET r == With(Move(m, p \o (a \o b), p \o b), p, Extension(b, link))
         IN  Owned(r, D) /\ p \in DOMAIN r /\ DOMAIN r \subseteq Path
             /\ (<<>> \in DOMAIN m => <<>> \in DOMAIN r)
<1> DEFINE ab    == a \o b
           from  == p \o ab
           to    == p \o b
           below == {q \in DOMAIN m : StartsWith(q, from)}
           moved == {to \o Drop(q, Len(from)) : q \in below}
           l     == Move(m, from, to)
           r     == With(l, p, Extension(b, link))
<1>0. /\ p \in Path /\ ab \in Path /\ from \in Path /\ to \in Path
      /\ Len(b) \in Nat \ {0} /\ Len(p) \in Nat /\ Len(a) \in Nat
      /\ Len(from) = Len(p) + Len(a) + Len(b) /\ Len(to) = Len(p) + Len(b)
      /\ ab # <<>> /\ StartsWith(from, p) /\ StartsWith(to, p)
  <2>1. p \in Path /\ Len(p) \in Nat /\ Len(a) \in Nat /\ Len(b) \in Nat \ {0}
    BY PathLen, EmptyPath DEF Owned
  <2>2. ab \in Path /\ Len(ab) = Len(a) + Len(b) /\ to \in Path /\ Len(to) = Len(p) + Len(b)
    BY <2>1, ConcatPath
  <2>3. ab # <<>>
    BY <2>1, <2>2, EmptyPath
  <2> HIDE DEF ab
  <2>4. from \in Path /\ Len(from) = Len(p) + Len(ab) /\ StartsWith(from, p)
    BY <2>1, <2>2, ConcatPath, ConcatPrefix
  <2>5. StartsWith(to, p)
    BY <2>1, ConcatPrefix
  <2> HIDE DEF from, to
  <2> QED BY <2>1, <2>2, <2>3, <2>4, <2>5
<1>1. IsLink(link) /\ Slots(m[p]) = {ab} /\ LinkAt(m[p], ab) = link
  <2>1. IsNode(m[p]) /\ m[p].kind = "Extension" /\ m[p].partial_key = ab /\ m[p].branch = link
    <3>1. IsNode(m[p])
      BY DEF Owned, IsStore
    <3> QED BY <3>1 DEF Extension
  <2> QED BY <2>1, ExtensionParts
<1>2. /\ IsNode(Extension(b, link)) /\ Slots(Extension(b, link)) = {b}
      /\ LinkAt(Extension(b, link), b) = link
  BY <1>1, ExtensionNode
<1>3. ASSUME NEW q \in DOMAIN m, StartsWith(q, p), q # p
      PROVE  q \in below /\ link = Boxed
  BY <1>1, <1>3 DEF Owned, Tree
<1> HIDE DEF ab
\* A path at or below from, seen from there.
<1>4. ASSUME NEW q \in below
      PROVE  /\ Drop(q, Len(from)) \in Path
             /\ q = from \o Drop(q, Len(from))
             /\ q \in Path
  <2>1. q \in Path /\ StartsWith(q, from)
    BY <1>4 DEF Owned
  <2> HIDE DEF from
  <2> QED BY <1>0, <2>1, PrefixDrop
<1>5. ASSUME NEW u \in Path
      PROVE  /\ to \o u \in Path /\ from \o u \in Path
             /\ Drop(to \o u, Len(to)) = u /\ Drop(from \o u, Len(from)) = u
             /\ StartsWith(to \o u, to) /\ StartsWith(to \o u, p) /\ to \o u # p
             /\ StartsWith(from \o u, from)
  <2> HIDE DEF from, to
  <2>1. /\ to \o u \in Path /\ from \o u \in Path /\ Len(to \o u) = Len(to) + Len(u)
        /\ Len(u) \in Nat
    BY <1>0, <1>5, ConcatPath, PathLen
  <2>2. /\ Drop(to \o u, Len(to)) = u /\ Drop(from \o u, Len(from)) = u
        /\ StartsWith(to \o u, to) /\ StartsWith(from \o u, from)
    BY <1>0, <1>5, ConcatPrefix
  <2>3. StartsWith(to \o u, p)
    BY <1>0, <2>1, <2>2, PrefixTrans
  <2>4. to \o u # p
    BY <1>0, <2>1
  <2> QED BY <2>1, <2>2, <2>3, <2>4
<1>6. ASSUME NEW u \in Path PROVE to \o u \in moved <=> from \o u \in DOMAIN m
  <2>1. ASSUME to \o u \in moved PROVE from \o u \in DOMAIN m
    <3>1. PICK q \in below : to \o u = to \o Drop(q, Len(from))
      BY <2>1
    <3> HIDE DEF to, from
    <3>2. u = Drop(q, Len(from))
      BY <1>0, <1>4, <1>6, <3>1, ConcatCancel
    <3> QED BY <1>4, <3>2
  <2>2. ASSUME from \o u \in DOMAIN m PROVE to \o u \in moved
    <3>1. from \o u \in below /\ Drop(from \o u, Len(from)) = u
      BY <1>5, <1>6, <2>2
    <3> QED BY <3>1
  <2> QED BY <2>1, <2>2
<1>7. ASSUME NEW y \in moved
      PROVE  \E u \in Path : y = to \o u /\ from \o u \in DOMAIN m
  <2>1. PICK q \in below : y = to \o Drop(q, Len(from))
    OBVIOUS
  <2> QED BY <1>4, <2>1
<1> DEFINE Kept == {q \in DOMAIN m : ~StartsWith(q, p)}
<1>8. /\ DOMAIN r = Kept \cup {p} \cup moved
      /\ r[p] = Extension(b, link)
      /\ \A q \in Kept : r[q] = m[q]
      /\ \A u \in Path : to \o u \in moved => r[to \o u] = m[from \o u]
  <2>1. ASSUME NEW q \in moved PROVE StartsWith(q, p) /\ q # p
    BY <1>5, <1>7
  <2>2. /\ DOMAIN l = (DOMAIN m \ below) \cup moved
        /\ \A q \in DOMAIN l : l[q] = IF q \in moved THEN m[from \o Drop(q, Len(to))] ELSE m[q]
    BY DEF Move
  <2>3. p \notin below
    BY <1>0 DEF StartsWith
  <2>4. \A q \in Kept : q \notin below
    <3> HIDE DEF from
    <3> QED BY <1>0, PrefixTrans DEF Owned
  <2>5. /\ DOMAIN r = DOMAIN l \cup {p} /\ r[p] = Extension(b, link)
        /\ \A q \in DOMAIN l : q # p => r[q] = l[q]
    BY DEF With
  <2>6. DOMAIN m = Kept \cup {p} \cup below
    BY <1>0, <1>3, PrefixRefl
  <2> HIDE DEF r, l, moved, below, to, from
  <2>7. DOMAIN r = Kept \cup {p} \cup moved
    BY <2>2, <2>3, <2>4, <2>5, <2>6
  <2>8. \A q \in Kept : r[q] = m[q]
    BY <1>0, <2>1, <2>2, <2>4, <2>5, PrefixRefl
  <2>9. \A u \in Path : to \o u \in moved => r[to \o u] = m[from \o u]
    BY <1>5, <2>1, <2>2, <2>5
  <2> QED BY <2>5, <2>7, <2>8, <2>9
<1>9. IsStore(r)
  <2>1. ASSUME NEW q \in DOMAIN r PROVE IsNode(r[q])
    <3>1. CASE q \in Kept
      BY <1>8, <3>1 DEF Owned, IsStore
    <3>2. CASE q = p
      BY <1>2, <1>8, <3>2
    <3>3. CASE q \in moved
      BY <1>6, <1>7, <1>8, <3>3 DEF Owned, IsStore
    <3> HIDE DEF r, moved, Kept
    <3> QED BY <1>8, <2>1, <3>1, <3>2, <3>3
  <2>2. r = [q \in DOMAIN r |-> r[q]]
    BY DEF With
  <2> QED BY <2>1, <2>2 DEF IsStore
<1>10. \A x \in Kept : x \in DOMAIN m /\ x \in Path /\ ~StartsWith(x, p)
  BY DEF Owned
<1>11. p \o ab = from /\ p \o b = to
  OBVIOUS
<1> HIDE DEF r, l, moved, below, to, from, Kept
<1>12. ASSUME NEW x \in DOMAIN r, NEW s \in Slots(r[x]), LinkAt(r[x], s) = Boxed
       PROVE  x \o s \in DOMAIN r
  <2>1. CASE x \in Kept
    <3>1. x \o s \in DOMAIN m /\ s \in Slots(m[x])
      BY <1>8, <1>10, <1>12, <2>1 DEF Owned, Tree
    <3>2. /\ s \in Path /\ x \in Path /\ x \o s \in Path /\ StartsWith(x \o s, x)
          /\ Len(x \o s) = Len(x) + Len(s) /\ Len(x) \in Nat /\ Len(s) \in Nat
      <4>1. s \in Path /\ x \in Path
        BY <1>10, <2>1, <3>1, NodeSlots DEF Owned, IsStore
      <4> QED BY <4>1, ConcatPath, ConcatPrefix, PathLen
    <3>3. CASE ~StartsWith(x \o s, p)
      BY <1>8, <3>1, <3>3 DEF Kept
    <3>4. CASE StartsWith(x \o s, p)
      <4>1. Len(x) < Len(p) /\ StartsWith(p, x) /\ p # x
        <5>1. CASE Len(p) <= Len(x)
          BY <1>0, <1>10, <2>1, <3>2, <3>4, <5>1, PrefixLinear
        <5>2. CASE Len(x) < Len(p)
          BY <1>0, <3>2, <3>4, <5>2, PrefixLinear
        <5> QED BY <1>0, <3>2, <5>1, <5>2
      <4>2. PICK t \in Slots(m[x]) : LinkAt(m[x], t) = Boxed /\ StartsWith(p, x \o t)
        BY <1>10, <2>1, <4>1 DEF Owned, Tree
      <4>3. t \in Path /\ Len(t) = Len(s)
        BY <1>10, <2>1, <3>1, NodeSlots DEF Owned, IsStore
      <4>4. x \o t \in Path /\ Len(x \o t) = Len(x) + Len(t)
        BY <3>2, <4>3, ConcatPath
      <4>5. Len(x \o s) <= Len(p)
        BY <3>2, <4>2, <4>3, <4>4 DEF StartsWith
      <4>6. x \o s = p
        BY <1>0, <3>2, <3>4, <4>5, PrefixAntisym
      <4> QED BY <1>8, <4>6
    <3> QED BY <3>3, <3>4
  <2>2. CASE x = p
    <3>1. s = b /\ link = Boxed
      BY <1>2, <1>8, <1>12, <2>2
    <3>2. from \o <<>> \in DOMAIN m
      <4>1. from \in DOMAIN m
        BY <1>1, <1>11, <3>1 DEF Owned, Tree
      <4> QED BY <1>0, <4>1, ConcatEmpty
    <3>3. to \in moved
      BY <1>0, <1>6, <3>2, ConcatEmpty, EmptyPath
    <3> QED BY <1>8, <1>11, <2>2, <3>1, <3>3
  <2>3. CASE x \in moved
    <3>1. PICK u \in Path : x = to \o u /\ from \o u \in DOMAIN m
      BY <1>7, <2>3
    <3>2. r[x] = m[from \o u]
      BY <1>8, <2>3, <3>1
    <3>3. s \in Path
      BY <1>12, <3>1, <3>2, NodeSlots DEF Owned, IsStore
    <3>4. (from \o u) \o s \in DOMAIN m
      BY <1>12, <3>1, <3>2 DEF Owned, Tree
    <3>5. /\ (from \o u) \o s = from \o (u \o s) /\ x \o s = to \o (u \o s)
          /\ u \o s \in Path
      <4>1. u \o s \in Path
        BY <3>3, ConcatPath
      <4>2. (from \o u) \o s = from \o (u \o s)
        <5>1. from \in Path /\ u \in Path /\ s \in Path
          BY <1>0, <3>1, <3>3
        <5> QED BY <5>1, ConcatAssoc, SMTT(30)
      <4>3. (to \o u) \o s = to \o (u \o s)
        <5>1. to \in Path /\ u \in Path /\ s \in Path
          BY <1>0, <3>1, <3>3
        <5> QED BY <5>1, ConcatAssoc
      <4> QED BY <3>1, <4>1, <4>2, <4>3
    <3>6. x \o s \in moved
      BY <1>6, <3>4, <3>5
    <3> QED BY <1>8, <3>6
  <2> QED BY <1>8, <2>1, <2>2, <2>3
<1>13. ASSUME NEW x \in DOMAIN r, NEW y \in DOMAIN r, StartsWith(y, x), y # x
       PROVE  \E s \in Slots(r[x]) : LinkAt(r[x], s) = Boxed /\ StartsWith(y, x \o s)
  <2>0. \A q \in moved : q \in Path /\ StartsWith(q, p) /\ StartsWith(q, to)
    BY <1>5, <1>7
  <2>1. CASE x \in Kept
    <3>1. CASE y \in Kept \cup {p}
      BY <1>8, <1>10, <1>13, <2>1, <3>1 DEF Owned, Tree
    <3>2. CASE y \in moved
      <4>1. x \in Path /\ y \in Path /\ StartsWith(y, p) /\ Len(x) \in Nat
        BY <1>10, <2>0, <2>1, <3>2, PathLen
      <4>2. StartsWith(p, x) /\ p # x
        <5>1. CASE Len(p) <= Len(x)
          BY <1>0, <1>10, <1>13, <2>1, <4>1, <5>1, PrefixLinear
        <5>2. CASE Len(x) < Len(p)
          BY <1>0, <1>13, <4>1, <5>2, PrefixLinear
        <5> QED BY <1>0, <4>1, <5>1, <5>2
      <4>3. PICK t \in Slots(m[x]) : LinkAt(m[x], t) = Boxed /\ StartsWith(p, x \o t)
        BY <1>10, <2>1, <4>2 DEF Owned, Tree
      <4>4. t \in Path
        BY <1>10, <2>1, NodeSlots DEF Owned, IsStore
      <4>5. StartsWith(y, x \o t)
        BY <1>0, <4>1, <4>3, <4>4, ConcatPath, PrefixTrans
      <4> QED BY <1>8, <2>1, <4>3, <4>5
    <3> QED BY <1>8, <3>1, <3>2
  <2>2. CASE x = p
    <3>1. y \in moved
      BY <1>8, <1>10, <1>13, <2>2
    <3>2. PICK u \in Path : y = to \o u /\ from \o u \in DOMAIN m
      BY <1>7, <3>1
    <3>3. StartsWith(from \o u, p) /\ from \o u # p
      <4>1. StartsWith(from \o u, from) /\ from \o u \in Path
        BY <1>5
      <4>2. StartsWith(from \o u, p)
        BY <1>0, <4>1, PrefixTrans
      <4>3. Len(from \o u) > Len(p)
        BY <1>0, <4>1 DEF StartsWith
      <4> QED BY <4>2, <4>3
    <3>4. link = Boxed
      BY <1>3, <3>2, <3>3
    <3> QED BY <1>2, <1>8, <1>11, <2>0, <2>2, <3>1, <3>4
  <2>3. CASE x \in moved
    <3>1. PICK u \in Path : x = to \o u /\ from \o u \in DOMAIN m
      BY <1>7, <2>3
    <3>2. y \in moved
      <4>1. x \in Path /\ StartsWith(x, p) /\ Len(x) \in Nat /\ Len(p) < Len(x)
        <5>1. x \in Path /\ StartsWith(x, p) /\ StartsWith(x, to)
          BY <2>0, <2>3
        <5>2. Len(x) \in Nat /\ Len(to) <= Len(x)
          BY <5>1, PathLen DEF StartsWith
        <5> QED BY <1>0, <5>1, <5>2
      <4>2. y \notin Kept
        BY <1>0, <1>10, <1>13, <4>1, PrefixTrans
      <4>3. y # p
        BY <1>0, <1>13, <4>1 DEF StartsWith
      <4> QED BY <1>8, <4>2, <4>3
    <3>3. PICK w \in Path : y = to \o w /\ from \o w \in DOMAIN m
      BY <1>7, <3>2
    <3>4. StartsWith(w, u) /\ w # u
      BY <1>0, <1>13, <3>1, <3>3, PrefixConcat
    <3>5. StartsWith(from \o w, from \o u) /\ from \o w # from \o u
      BY <1>0, <3>4, PrefixConcat, ConcatCancel
    <3>6. PICK t \in Slots(m[from \o u]) :
            LinkAt(m[from \o u], t) = Boxed /\ StartsWith(from \o w, (from \o u) \o t)
      BY <3>1, <3>3, <3>5 DEF Owned, Tree
    <3>7. t \in Path
      BY <3>1, NodeSlots DEF Owned, IsStore
    <3>8. /\ (from \o u) \o t = from \o (u \o t) /\ (to \o u) \o t = to \o (u \o t)
          /\ u \o t \in Path
      <4>1. u \o t \in Path
        BY <3>7, ConcatPath
      <4>2. ASSUME NEW z \in Path PROVE (z \o u) \o t = z \o (u \o t)
        <5>1. u \in Path /\ t \in Path
          BY <3>1, <3>7
        <5> QED BY <5>1, ConcatAssoc
      <4>3. from \in Path /\ to \in Path
        BY <1>0
      <4> QED BY <4>1, <4>2, <4>3
    <3>9. StartsWith(w, u \o t)
      BY <1>0, <3>6, <3>8, PrefixConcat
    <3>10. StartsWith(y, x \o t)
      BY <1>0, <3>1, <3>3, <3>8, <3>9, PrefixConcat
    <3> QED BY <1>8, <2>3, <3>1, <3>6, <3>10
  <2> QED BY <1>8, <2>1, <2>2, <2>3
<1>14. Tree(r)
  BY <1>12, <1>13 DEF Tree
<1>15. ASSUME NEW x \in DOMAIN r, NEW s \in Slots(r[x]), IsHash(LinkAt(r[x], s))
       PROVE  LinkAt(r[x], s).hash \in D
  <2>1. CASE x \in Kept
    BY <1>8, <1>10, <1>15, <2>1, OwnedBySlots
  <2>2. CASE x = p
    BY <1>1, <1>2, <1>8, <1>15, <2>2, OwnedBySlots
  <2>3. CASE x \in moved
    BY <1>7, <1>8, <1>15, <2>3, OwnedBySlots
  <2> QED BY <1>8, <2>1, <2>2, <2>3
<1>16. DOMAIN r \subseteq Path
  <2>1. moved \subseteq Path
    BY <1>5, <1>7
  <2> QED BY <1>0, <1>8, <1>10, <2>1
<1>17. Owned(r, D)
  BY <1>9, <1>14, <1>15, <1>16, OwnedBySlots
<1>18. <<>> \in DOMAIN m => <<>> \in DOMAIN r
  <2> SUFFICES ASSUME <<>> \in DOMAIN m PROVE <<>> \in DOMAIN r
    OBVIOUS
  <2>1. CASE StartsWith(<<>>, p)
    <3>1. Len(p) = 0
      BY <1>0, <2>1 DEF StartsWith
    <3> QED BY <1>0, <1>8, <3>1, EmptyPath
  <2>2. CASE ~StartsWith(<<>>, p)
    BY <1>8, <2>2 DEF Kept
  <2> QED BY <2>1, <2>2
<1> QED BY <1>8, <1>16, <1>17, <1>18 DEF r, l, to, from, ab

-----------------------------------------------------------------------------
(* TrieNode::insert at one node.                                           *)

\* Branch::new is a branch of empty links.
LEMMA NewBranchNode ==
  /\ IsNode(NewBranch) /\ NewBranch.kind = "Branch"
  /\ Slots(NewBranch) = {<<i>> : i \in Nibble}
  /\ \A i \in Nibble : NewBranch.children[i] = Empty /\ LinkAt(NewBranch, <<i>>) = Empty
  /\ \A s \in Slots(NewBranch) : LinkAt(NewBranch, s) = Empty
  /\ \A D : Childless(NewBranch, D)
<1> DEFINE c == [i \in Nibble |-> Empty]
<1>1. c = [i \in Nibble |-> c[i]] /\ \A i \in Nibble : c[i] = Empty /\ IsLink(c[i])
  BY LinkTypes
<1>2. NewBranch = Branch(c, None)
  BY DEF NewBranch
<1> HIDE DEF c
<1>3. /\ IsNode(NewBranch) /\ NewBranch.kind = "Branch" /\ NewBranch.children = c
      /\ Slots(NewBranch) = {<<i>> : i \in Nibble}
      /\ \A i \in Nibble : LinkAt(NewBranch, <<i>>) = c[i]
      /\ Links(NewBranch) = {c[i] : i \in Nibble}
  BY <1>1, <1>2, BranchNode
<1>4. \A link \in Links(NewBranch) : link = Empty
  BY <1>1, <1>3
<1>5. \A s \in Slots(NewBranch) : LinkAt(NewBranch, s) = Empty
  BY <1>1, <1>3
<1>6. \A D : Childless(NewBranch, D)
  BY <1>3, <1>4, LinkTypes DEF Childless
<1> QED BY <1>1, <1>3, <1>5, <1>6

\* A branch of which one child is set.
LEMMA SetChild ==
  ASSUME NEW n, IsNode(n), n.kind = "Branch", NEW x \in Nibble, NEW link, IsLink(link),
         NEW r, r = [n EXCEPT !.children[x] = link]
  PROVE  /\ IsNode(r) /\ r.kind = "Branch" /\ Slots(r) = Slots(n)
         /\ <<x>> \in Slots(r) /\ LinkAt(r, <<x>>) = link
         /\ \A s \in Slots(n) : s # <<x>> => LinkAt(r, s) = LinkAt(n, s)
         /\ \A i \in Nibble : i # x => r.children[i] = n.children[i]
<1>1. <<x>> \in Path /\ Len(<<x>>) = 1 /\ <<x>>[1] = x
  BY OneNibble
<1>2. r = SetLink(n, <<x>>, link)
  BY <1>1 DEF SetLink
<1>3. <<x>> \in Slots(n) /\ n = Branch(n.children, n.value)
  BY BranchParts
<1>4. \A i \in Nibble : i # x => r.children[i] = n.children[i]
  BY <1>3 DEF Branch
<1>5. /\ IsNode(r) /\ r.kind = n.kind /\ Slots(r) = Slots(n)
      /\ \A s \in Slots(n) : LinkAt(r, s) = IF s = <<x>> THEN link ELSE LinkAt(n, s)
  BY <1>1, <1>2, SetLinkProperties
<1> QED BY <1>3, <1>4, <1>5

\* Branch::insert, when the child it selects is empty.
LEMMA BranchInsertOwned ==
  ASSUME NEW m, NEW D, Owned(m, D), NEW q \in DOMAIN m, m[q].kind = "Branch",
         NEW rest \in Path, NEW v \in Value,
         rest = <<>> \/ m[q].children[rest[1]] = Empty
  PROVE  LET r == BranchInsert(m, q, rest, v)
         IN  /\ Owned(r, D) /\ DOMAIN m \subseteq DOMAIN r
             /\ r[q].kind = "Branch"
             /\ \A i \in Nibble : (rest # <<>> => i # rest[1]) => r[q].children[i] = m[q].children[i]
<1> DEFINE r == BranchInsert(m, q, rest, v)
<1>0. /\ IsNode(m[q]) /\ q \in Path /\ m[q] = Branch(m[q].children, m[q].value)
      /\ m[q].children = [i \in Nibble |-> m[q].children[i]]
      /\ \A i \in Nibble : IsLink(m[q].children[i])
      /\ Slots(m[q]) = {<<i>> : i \in Nibble}
      /\ \A i \in Nibble : LinkAt(m[q], <<i>>) = m[q].children[i]
  <2>1. IsNode(m[q]) /\ q \in Path
    BY DEF Owned, IsStore
  <2> QED BY <2>1, BranchParts
<1>1. CASE rest = <<>>
  <2> DEFINE n == [m[q] EXCEPT !.value = v]
  <2>1. n = Branch(m[q].children, v) /\ n.children = m[q].children
    BY <1>0 DEF Branch
  <2>2. /\ IsNode(n) /\ n.kind = "Branch" /\ Slots(n) = Slots(m[q])
        /\ \A s \in Slots(n) : LinkAt(n, s) = LinkAt(m[q], s)
    <3>1. /\ IsNode(Branch(m[q].children, v)) /\ Branch(m[q].children, v).kind = "Branch"
          /\ Slots(Branch(m[q].children, v)) = {<<i>> : i \in Nibble}
          /\ \A i \in Nibble : LinkAt(Branch(m[q].children, v), <<i>>) = m[q].children[i]
      BY <1>0, BranchNode
    <3> HIDE DEF n
    <3> QED BY <1>0, <2>1, <3>1
  <2>3. r = With(m, q, n)
    BY <1>1 DEF BranchInsert
  <2> HIDE DEF n, r
  <2>4. Owning(n) = Owning(m[q])
    BY <2>2 DEF Owning
  <2>5. \A s \in Slots(n) : IsHash(LinkAt(n, s)) => LinkAt(n, s).hash \in D
    BY <2>2, OwnedBySlots
  <2>6. Owned(r, D) /\ DOMAIN r = DOMAIN m
    BY <2>2, <2>3, <2>4, <2>5, ReplaceNode
  <2>7. r[q] = n
    BY <2>3 DEF With
  <2> QED BY <1>1, <2>1, <2>2, <2>6, <2>7 DEF r
<1>2. CASE rest # <<>>
  <2> DEFINE x == rest[1]
             n == [m[q] EXCEPT !.children[x] = Boxed]
             c == Node(Drop(rest, 1), v)
  <2>0. x \in Nibble
    BY <1>2, PathLen, EmptyPath
  <2> HIDE DEF x
  <2>1. /\ IsNode(n) /\ n.kind = "Branch" /\ Slots(n) = Slots(m[q])
        /\ <<x>> \in Slots(n) /\ LinkAt(n, <<x>>) = Boxed
        /\ \A s \in Slots(m[q]) : s # <<x>> => LinkAt(n, s) = LinkAt(m[q], s)
        /\ \A i \in Nibble : i # x => n.children[i] = m[q].children[i]
    <3>1. n = [m[q] EXCEPT !.children[x] = Boxed]
      OBVIOUS
    <3>2. IsNode(m[q]) /\ m[q].kind = "Branch" /\ IsLink(Boxed)
      BY <1>0, LinkTypes
    <3> HIDE DEF n
    <3> QED BY <2>0, <3>1, <3>2, SetChild
  <2>2. r = With(With(m, q, n), q \o <<x>>, c)
    BY <1>2 DEF BranchInsert, x
  <2>3. Childless(c, D)
    <3>1. Drop(rest, 1) \in Path
      BY DropType
    <3> QED BY <3>1, ChildlessLeaf
  <2> HIDE DEF n, c, r
  <2>4. LinkAt(m[q], <<x>>) = Empty
    BY <1>0, <1>2, <2>0 DEF x
  <2>5. <<x>> \notin Owning(m[q]) /\ Owning(n) = Owning(m[q]) \cup {<<x>>}
    BY <2>1, <2>4, LinkTypes DEF Owning
  <2>6. \A s \in Slots(n) : IsHash(LinkAt(n, s)) => LinkAt(n, s).hash \in D
    BY <2>1, OwnedBySlots, LinkTypes
  <2>7. \A p \in DOMAIN m : ~StartsWith(p, q \o <<x>>)
    BY <2>1, <2>4, NothingBelow, LinkTypes
  <2>8. Owned(r, D) /\ DOMAIN r = DOMAIN m \cup {q \o <<x>>}
    <3>1. Grafts(m, D, q, n, <<x>>, c)
      BY <2>1, <2>3, <2>5, <2>6, <2>7 DEF Grafts
    <3>2. Owned(r, D)
      BY <2>2, <3>1, Graft
    <3>3. DOMAIN r = (DOMAIN m \cup {q}) \cup {q \o <<x>>}
      BY <2>2 DEF With
    <3> QED BY <3>2, <3>3
  <2>9. r[q] = n
    <3>1. q # q \o <<x>>
      <4>1. q \o <<x>> \in Path
        BY <1>0, <2>0, OneNibble, ConcatPath
      <4> QED BY <2>7, <4>1, PrefixRefl
    <3> QED BY <2>2, <3>1 DEF With
  <2> QED BY <1>2, <2>1, <2>8, <2>9 DEF r, x
<1> QED BY <1>1, <1>2

-----------------------------------------------------------------------------
(* Insertion.                                                              *)

\* r is a tree, with a root if m has one.
StaysOwned(m, r, D) == Owned(r, D) /\ (<<>> \in DOMAIN m => <<>> \in DOMAIN r)

\* The second of two nodes stored at one path is the one that stays.
LEMMA WithOver ==
  ASSUME NEW m, NEW p, NEW n1, NEW n2
  PROVE  With(With(m, p, n1), p, n2) = With(m, p, n2)
BY DEF With

\* Stores at different paths commute.
LEMMA WithSwap ==
  ASSUME NEW m, NEW p, NEW q, p # q, NEW n1, NEW n2, NEW c
  PROVE  With(With(With(m, p, n1), q, c), p, n2) = With(With(m, p, n2), q, c)
BY DEF With

\* split_at(1): a path that is not empty is its first nibble and the rest.
LEMMA FirstNibble ==
  ASSUME NEW rest \in Path, rest # <<>>
  PROVE  /\ rest[1] \in Nibble /\ Drop(rest, 1) \in Path
         /\ rest = <<rest[1]>> \o Drop(rest, 1)
         /\ Len(rest) = 1 => rest = <<rest[1]>>
         /\ Len(rest) # 1 => Drop(rest, 1) # <<>>
<1>1. Len(rest) \in Nat \ {0} /\ \A i \in 1 .. Len(rest) : rest[i] \in Nibble
  BY PathLen, EmptyPath
<1>2. rest[1] \in Nibble
  BY <1>1
<1> DEFINE s == <<rest[1]>>
<1>3. s \in Path /\ Len(s) = 1 /\ s[1] = rest[1]
  BY <1>2, OneNibble
<1>4. StartsWith(rest, s)
  BY <1>1, <1>3 DEF StartsWith
<1>5. Drop(rest, 1) \in Path /\ Len(Drop(rest, 1)) = Len(rest) - 1
  BY <1>1, DropProperties
<1>6. Len(rest) = 1 => rest = s
  BY <1>3, PathEqual
<1>7. Len(rest) # 1 => Drop(rest, 1) # <<>>
  BY <1>1, <1>5, EmptyPath
<1>8. rest = s \o Drop(rest, 1)
  <2> HIDE DEF s
  <2> QED BY <1>3, <1>4, PrefixDrop
<1> QED BY <1>2, <1>5, <1>6, <1>7, <1>8

\* A branch with `link' under x and nothing else.
OneChild(b, x, link) ==
  /\ IsNode(b) /\ b.kind = "Branch"
  /\ \A i \in Nibble : i # x => b.children[i] = Empty
  /\ \A s : s \in Owning(b) <=> link = Boxed /\ s = <<x>>
  /\ \A s \in Slots(b) : IsHash(LinkAt(b, s)) => LinkAt(b, s) = link

\* The new branch of a split, with the old child in its slot.
LEMMA BranchOver ==
  ASSUME NEW x \in Nibble, NEW link, IsLink(link),
         NEW b, b = [NewBranch EXCEPT !.children[x] = link]
  PROVE  OneChild(b, x, link)
<1>1. /\ IsNode(b) /\ b.kind = "Branch" /\ Slots(b) = Slots(NewBranch)
      /\ <<x>> \in Slots(b) /\ LinkAt(b, <<x>>) = link
      /\ \A s \in Slots(NewBranch) : s # <<x>> => LinkAt(b, s) = LinkAt(NewBranch, s)
      /\ \A i \in Nibble : i # x => b.children[i] = NewBranch.children[i]
  BY NewBranchNode, SetChild
<1>2. \A s \in Slots(b) : s # <<x>> => LinkAt(b, s) = Empty
  BY <1>1, NewBranchNode
<1>3. \A s : s \in Owning(b) <=> link = Boxed /\ s = <<x>>
  BY <1>1, <1>2, LinkTypes DEF Owning
<1>4. \A s \in Slots(b) : IsHash(LinkAt(b, s)) => LinkAt(b, s) = link
  BY <1>1, <1>2, LinkTypes
<1> QED BY <1>1, <1>3, <1>4, NewBranchNode DEF OneChild

-----------------------------------------------------------------------------
(* A leaf that meets another key.                                          *)

\* An empty branch, below an extension or not, replaces a node that owns none.
LEMMA PlaceNewBranch ==
  ASSUME NEW m, NEW D, Owned(m, D), NEW p \in DOMAIN m, Owning(m[p]) = {},
         NEW shared \in Path,
         NEW r, r = PlaceBranch(m, p, shared, NewBranch)
  PROVE  /\ Owned(r, D) /\ DOMAIN m \subseteq DOMAIN r
         /\ p \o shared \in DOMAIN r /\ r[p \o shared] = NewBranch
<1>0. p \in Path /\ Len(p) \in Nat
  BY PathLen DEF Owned
<1>1. CASE shared = <<>>
  <2>1. r = With(m, p, NewBranch) /\ p \o shared = p
    BY <1>0, <1>1, ConcatEmpty DEF PlaceBranch
  <2>2. Owning(NewBranch) = {} /\ \A s \in Slots(NewBranch) : ~IsHash(LinkAt(NewBranch, s))
    BY NewBranchNode, LinkTypes DEF Owning
  <2>3. Owned(With(m, p, NewBranch), D)
    BY <2>2, NewBranchNode, ReplaceNode
  <2>4. DOMAIN With(m, p, NewBranch) = DOMAIN m \cup {p} /\ With(m, p, NewBranch)[p] = NewBranch
    BY DEF With
  <2> QED BY <2>1, <2>3, <2>4
<1>2. CASE shared # <<>>
  <2> DEFINE e == Extension(shared, Boxed)
             q == p \o shared
  <2>1. r = With(With(m, p, e), q, NewBranch)
    BY <1>2 DEF PlaceBranch
  <2>2. /\ IsNode(e) /\ Slots(e) = {shared} /\ LinkAt(e, shared) = Boxed
    BY <1>2, LinkTypes, ExtensionNode
  <2>3. q \in Path /\ Len(q) = Len(p) + Len(shared) /\ Len(shared) \in Nat \ {0}
        /\ StartsWith(q, p)
    BY <1>0, <1>2, ConcatPath, PathLen, EmptyPath, ConcatPrefix
  <2>4. ASSUME NEW y \in DOMAIN m PROVE ~StartsWith(y, q)
    <3> SUFFICES ASSUME StartsWith(y, q) PROVE FALSE
      OBVIOUS
    <3>1. y \in Path /\ StartsWith(y, p)
      BY <1>0, <2>3, PrefixTrans DEF Owned
    <3>2. y = p
      BY <3>1, NothingBelowChildless DEF Owned, Owning
    <3> QED BY <1>0, <2>3, <3>2 DEF StartsWith
  <2>5. Grafts(m, D, p, e, shared, NewBranch)
    <3>1. Owning(e) = {shared}
      BY <2>2 DEF Owning
    <3>2. Childless(NewBranch, D)
      BY NewBranchNode
    <3> HIDE DEF e
    <3> QED BY <2>2, <2>4, <3>1, <3>2, LinkTypes DEF Grafts
  <2> HIDE DEF e
  <2>6. Owned(r, D)
    BY <2>1, <2>5, Graft
  <2>7. DOMAIN r = (DOMAIN m \cup {p}) \cup {q} /\ r[q] = NewBranch
    BY <2>1 DEF With
  <2> QED BY <2>6, <2>7
<1> QED BY <1>1, <1>2

\* Node::insert of another key.
LEMMA SplitNodeOwned ==
  ASSUME NEW m, NEW D, Owned(m, D), NEW p \in DOMAIN m, m[p].kind = "Node",
         NEW rest \in Path, NEW v \in Value,
         NEW r, r = SplitNode(m, p, rest, v)
  PROVE  StaysOwned(m, r, D)
<1> DEFINE parts == parse_nibble_slices_shared_portion(m[p].rest_of_key, rest)
           q     == p \o parts.shared
           fresh == PlaceBranch(m, p, parts.shared, NewBranch)
           one   == BranchInsert(fresh, q, parts.rest1, m[p].value)
           two   == BranchInsert(one, q, parts.rest2, v)
<1>1. IsNode(m[p]) /\ Slots(m[p]) = {} /\ m[p].rest_of_key \in Path /\ m[p].value \in Value
  BY LeafParts DEF Owned, IsStore
<1>2. /\ parts.shared \in Path /\ parts.rest1 \in Path /\ parts.rest2 \in Path
      /\ parts.rest1 # <<>> /\ parts.rest2 # <<>> => parts.rest1[1] # parts.rest2[1]
  BY <1>1, SharedPortion
<1>3. r = two
  BY DEF SplitNode
<1> HIDE DEF parts
<1>4. Owned(fresh, D) /\ DOMAIN m \subseteq DOMAIN fresh /\ q \in DOMAIN fresh /\ fresh[q] = NewBranch
  BY <1>1, <1>2, PlaceNewBranch DEF Owning
<1> HIDE DEF q, fresh
<1>5. parts.rest1 # <<>> => parts.rest1[1] \in Nibble
  BY <1>2, FirstNibble
<1>6. parts.rest2 # <<>> => parts.rest2[1] \in Nibble
  BY <1>2, FirstNibble
<1>7. /\ Owned(one, D) /\ DOMAIN fresh \subseteq DOMAIN one /\ one[q].kind = "Branch"
      /\ \A i \in Nibble : (parts.rest1 # <<>> => i # parts.rest1[1])
                             => one[q].children[i] = fresh[q].children[i]
  <2>1. fresh[q].kind = "Branch" /\ (parts.rest1 = <<>> \/ fresh[q].children[parts.rest1[1]] = Empty)
    BY <1>4, <1>5, NewBranchNode
  <2> QED BY <1>1, <1>2, <1>4, <2>1, BranchInsertOwned
<1> HIDE DEF one
<1>8. parts.rest2 = <<>> \/ one[q].children[parts.rest2[1]] = Empty
  BY <1>2, <1>4, <1>6, <1>7, NewBranchNode
<1>9. Owned(two, D) /\ DOMAIN one \subseteq DOMAIN two
  BY <1>2, <1>4, <1>7, <1>8, BranchInsertOwned
<1> QED BY <1>3, <1>4, <1>7, <1>9 DEF StaysOwned

-----------------------------------------------------------------------------
(* An extension that meets a key leaving its partial key.                  *)

\* An extension gives way to a branch over the rest of it.
LEMMA BranchForExtension ==
  ASSUME NEW m, NEW D, Owned(m, D), NEW q \in DOMAIN m,
         NEW rest \in Path, rest # <<>>, Len(rest) # 1,
         NEW link, m[q] = Extension(rest, link),
         NEW x, x = rest[1], NEW b, b = [NewBranch EXCEPT !.children[x] = Boxed],
         NEW r, r = With(With(m, q, b), q \o <<x>>, Extension(Drop(rest, 1), link))
  PROVE  Owned(r, D)
<1> DEFINE t  == Drop(rest, 1)
           at == q \o <<x>>
           e  == Extension(<<x>>, Boxed)
           c  == Extension(t, link)
           m1 == With(With(m, q, e), at, c)
<1>1. x \in Nibble /\ t \in Path /\ rest = <<x>> \o t /\ t # <<>> /\ <<x>> \in Path /\ Len(<<x>>) = 1
  BY FirstNibble, OneNibble
<1>2. <<x>> # <<>>
  BY <1>1, EmptyPath
<1>3. q \in Path /\ at \in Path /\ Len(at) = Len(q) + 1 /\ Len(q) \in Nat
  BY <1>1, ConcatPath, PathLen DEF Owned
<1>4. q # at
  BY <1>3
<1> HIDE DEF t
<1>5. Owned(m1, D)
  BY <1>1, <1>2, CutExtension
<1>6. m1[q] = e /\ q \in DOMAIN m1
  BY <1>4 DEF With
<1>7. r = With(m1, q, b)
  <2>1. r = With(With(m, q, b), at, c)
    BY DEF t
  <2> HIDE DEF at, e, c
  <2> QED BY <1>4, <2>1, WithSwap
<1> HIDE DEF m1, at, c
<1>8. Slots(e) = {<<x>>} /\ LinkAt(e, <<x>>) = Boxed
  BY <1>1, <1>2, ExtensionNode, LinkTypes
<1>9. Owning(e) = {<<x>>}
  BY <1>8 DEF Owning
<1> HIDE DEF e
<1>10. /\ IsNode(b) /\ Owning(b) = Owning(m1[q])
       /\ \A s \in Slots(b) : ~IsHash(LinkAt(b, s))
  BY <1>1, <1>6, <1>9, BranchOver, LinkTypes DEF OneChild
<1> QED BY <1>5, <1>6, <1>7, <1>10, ReplaceNode

\* The arm `_' of Extension::insert.
LEMMA SplitLongerOwned ==
  ASSUME NEW m, NEW D, Owned(m, D), NEW p \in DOMAIN m, m[p].kind = "Extension",
         NEW rest \in Path, ~Descends(m[p], rest), NEW v \in Value,
         Len(parse_nibble_slices_shared_portion(m[p].partial_key, rest).rest1) # 1,
         NEW r, r = SplitLonger(m, p, rest, v)
  PROVE  StaysOwned(m, r, D)
<1> DEFINE pk    == m[p].partial_key
           parts == parse_nibble_slices_shared_portion(pk, rest)
           sh    == parts.shared
           left  == parts.rest1
           x     == left[1]
           q     == p \o sh
           b     == [NewBranch EXCEPT !.children[x] = Boxed]
           c     == Extension(Drop(left, 1), m[p].branch)
           fresh == PlaceBranch(m, p, sh, b)
           one   == With(fresh, q \o <<x>>, c)
           two   == BranchInsert(one, q, parts.rest2, v)
<1>0. r = two
  BY DEF SplitLonger
<1>1. /\ m[p] = Extension(pk, m[p].branch) /\ pk \in Path /\ pk # <<>> /\ p \in Path
  BY ExtensionParts DEF Owned, IsStore
<1>2. /\ sh \in Path /\ left \in Path /\ parts.rest2 \in Path /\ pk = sh \o left
      /\ left # <<>> /\ parts.rest2 # <<>> => x # parts.rest2[1]
  BY <1>1, SharedPortion
<1>3. sh # pk /\ Len(left) # 1
  BY DEF Descends
<1> HIDE DEF parts, pk
<1>4. left # <<>>
  BY <1>2, <1>3, ConcatEmpty
<1> HIDE DEF sh, left
<1>5. x \in Nibble /\ <<x>> \in Path /\ Len(<<x>>) = 1
  BY <1>2, <1>4, FirstNibble, OneNibble
<1>6. Owned(one, D) /\ one = With(With(IF sh = <<>> THEN m ELSE With(m, p, Extension(sh, Boxed)), q, b),
                                  q \o <<x>>, c)
  <2>1. CASE sh = <<>>
    <3>1. q = p /\ pk = left
      BY <1>1, <1>2, <2>1, ConcatEmpty
    <3>2. one = With(With(m, q, b), q \o <<x>>, c)
      BY <2>1, <3>1 DEF PlaceBranch
    <3>3. Owned(one, D)
      <4> HIDE DEF one, b, c, q
      <4>1. m[q] = Extension(left, m[p].branch) /\ q \in DOMAIN m
        BY <1>1, <3>1
      <4>2. one = With(With(m, q, b), q \o <<x>>, Extension(Drop(left, 1), m[p].branch))
        BY <3>2 DEF c
      <4>3. b = [NewBranch EXCEPT !.children[x] = Boxed]
        BY DEF b
      <4> HIDE DEF x
      <4>4. x = left[1]
        BY DEF x
      <4> QED BY <1>2, <1>3, <1>4, <4>1, <4>2, <4>3, <4>4, BranchForExtension
    <3> QED BY <2>1, <3>2, <3>3
  <2>2. CASE sh # <<>>
    <3> DEFINE e  == With(m, p, Extension(sh, Boxed))
               m1 == With(e, q, Extension(left, m[p].branch))
    <3>1. one = With(With(e, q, b), q \o <<x>>, c)
      BY <2>2 DEF PlaceBranch
    <3>2. Owned(m1, D)
      BY <1>1, <1>2, <1>4, <2>2, CutExtension
    <3>3. m1[q] = Extension(left, m[p].branch) /\ q \in DOMAIN m1
      BY DEF With
    <3>4. With(e, q, b) = With(m1, q, b)
      <4> HIDE DEF e, b, q
      <4> QED BY WithOver
    <3>5. Owned(one, D)
      <4> HIDE DEF m1, e, q, b, one, c
      <4>1. one = With(With(m1, q, b), q \o <<x>>, Extension(Drop(left, 1), m[p].branch))
        BY <3>1, <3>4 DEF c
      <4>2. b = [NewBranch EXCEPT !.children[x] = Boxed]
        BY DEF b
      <4> HIDE DEF x
      <4>3. x = left[1]
        BY DEF x
      <4> QED BY <1>2, <1>3, <1>4, <3>2, <3>3, <4>1, <4>2, <4>3, BranchForExtension
    <3> QED BY <2>2, <3>1, <3>5
  <2> QED BY <2>1, <2>2
<1>7. q # q \o <<x>>
  <2>1. q \in Path
    BY <1>1, <1>2, ConcatPath
  <2>2. Len(q \o <<x>>) = Len(q) + 1 /\ Len(q) \in Nat
    BY <1>5, <2>1, ConcatPath, PathLen
  <2> QED BY <2>2
<1> HIDE DEF b, c, q, x, fresh, one
<1>8. one[q] = b /\ q \in DOMAIN one /\ DOMAIN m \subseteq DOMAIN one
  <2> DEFINE e == IF sh = <<>> THEN m ELSE With(m, p, Extension(sh, Boxed))
  <2>1. DOMAIN m \subseteq DOMAIN e
    BY DEF With
  <2>2. one = With(With(e, q, b), q \o <<x>>, c)
    BY <1>6
  <2> HIDE DEF e
  <2> QED BY <1>7, <2>1, <2>2 DEF With
<1>9. /\ b.kind = "Branch" /\ \A i \in Nibble : i # x => b.children[i] = Empty
  <2>1. b = [NewBranch EXCEPT !.children[x] = Boxed]
    BY DEF b
  <2>2. OneChild(b, x, Boxed)
    BY <1>5, <2>1, BranchOver, LinkTypes
  <2> QED BY <2>2 DEF OneChild
<1>10. parts.rest2 = <<>> \/ one[q].children[parts.rest2[1]] = Empty
  BY <1>2, <1>4, <1>8, <1>9, FirstNibble
<1>11. Owned(two, D) /\ DOMAIN one \subseteq DOMAIN two
  BY <1>2, <1>6, <1>8, <1>9, <1>10, BranchInsertOwned
<1> QED BY <1>0, <1>8, <1>11 DEF StaysOwned

\* The arm `1'.
LEMMA SplitLastNibbleOwned ==
  ASSUME NEW m, NEW D, Owned(m, D), NEW p \in DOMAIN m, m[p].kind = "Extension",
         NEW rest \in Path, NEW v \in Value,
         Len(parse_nibble_slices_shared_portion(m[p].partial_key, rest).rest1) = 1,
         NEW r, r = SplitLastNibble(m, p, rest, v)
  PROVE  StaysOwned(m, r, D)
<1> DEFINE pk    == m[p].partial_key
           parts == parse_nibble_slices_shared_portion(pk, rest)
           sh    == parts.shared
           left  == parts.rest1
           x     == left[1]
           link  == m[p].branch
           b     == [NewBranch EXCEPT !.children[x] = link]
           moved == Move(m, p \o pk, p \o <<x>>)
           m1    == With(moved, p, Extension(<<x>>, link))
           one   == With(moved, p, b)
           two   == BranchInsert(one, p, parts.rest2, v)
<1>0. r = two
  BY DEF SplitLastNibble
<1>1. /\ m[p] = Extension(pk, link) /\ pk \in Path /\ p \in Path /\ IsLink(link)
      /\ Slots(m[p]) = {pk} /\ LinkAt(m[p], pk) = link
  BY ExtensionParts DEF Owned, IsStore
<1>2. /\ sh \in Path /\ left \in Path /\ parts.rest2 \in Path /\ pk = sh \o left
      /\ left # <<>> /\ parts.rest2 # <<>> => x # parts.rest2[1]
  BY <1>1, SharedPortion
<1>3. Len(left) = 1
  OBVIOUS
<1> HIDE DEF parts, pk, sh, left
<1>4. left # <<>>
  <2>1. left \in Path /\ Len(left) # 0
    BY <1>2, <1>3
  <2> QED BY <2>1, EmptyPath
<1>5. x \in Nibble /\ left = <<x>> /\ <<x>> \in Path /\ <<x>> # <<>>
  <2>1. x \in Nibble /\ left = <<x>>
    BY <1>2, <1>3, <1>4, FirstNibble
  <2> QED BY <1>2, <1>4, <2>1
<1> HIDE DEF x, link
<1>6. m[p] = Extension(sh \o <<x>>, link)
  BY <1>1, <1>2, <1>5
<1>7. /\ Owned(m1, D) /\ p \in DOMAIN m1 /\ (<<>> \in DOMAIN m => <<>> \in DOMAIN m1)
  <2>1. m1 = With(Move(m, p \o (sh \o <<x>>), p \o <<x>>), p, Extension(<<x>>, link))
    BY <1>2, <1>5
  <2>2. LET w == With(Move(m, p \o (sh \o <<x>>), p \o <<x>>), p, Extension(<<x>>, link))
        IN  Owned(w, D) /\ p \in DOMAIN w /\ (<<>> \in DOMAIN m => <<>> \in DOMAIN w)
    BY <1>2, <1>5, <1>6, ShortenExtension
  <2> HIDE DEF m1
  <2> QED BY <2>1, <2>2
<1>8. IsHash(link) => link.hash \in D
  BY <1>1, OwnedBySlots
<1>9. /\ IsNode(b) /\ b.kind = "Branch"
      /\ \A i \in Nibble : i # x => b.children[i] = Empty
      /\ \A s : s \in Owning(b) <=> link = Boxed /\ s = <<x>>
      /\ \A s \in Slots(b) : IsHash(LinkAt(b, s)) => LinkAt(b, s) = link
  <2>1. b = [NewBranch EXCEPT !.children[x] = link]
    OBVIOUS
  <2> HIDE DEF b
  <2>2. OneChild(b, x, link)
    BY <1>1, <1>5, <2>1, BranchOver
  <2> QED BY <2>2 DEF OneChild
<1>10. m1[p] = Extension(<<x>>, link)
  BY DEF With
<1>11. Owning(b) = Owning(m1[p])
  <2>1. Slots(Extension(<<x>>, link)) = {<<x>>} /\ LinkAt(Extension(<<x>>, link), <<x>>) = link
    BY <1>1, <1>5, ExtensionNode
  <2> HIDE DEF b, m1
  <2>2. Owning(m1[p]) = IF link = Boxed THEN {<<x>>} ELSE {}
    BY <1>10, <2>1 DEF Owning
  <2> QED BY <1>9, <2>2
<1>12. one = With(m1, p, b)
  <2> HIDE DEF moved, b
  <2> QED BY WithOver
<1> HIDE DEF m1, b, one
<1>13. Owned(one, D) /\ DOMAIN one = DOMAIN m1
  <2>1. \A s \in Slots(b) : IsHash(LinkAt(b, s)) => LinkAt(b, s).hash \in D
    BY <1>8, <1>9
  <2> QED BY <1>7, <1>9, <1>11, <1>12, <2>1, ReplaceNode
<1>14. one[p] = b
  BY <1>12 DEF With
<1>15. parts.rest2 = <<>> \/ one[p].children[parts.rest2[1]] = Empty
  BY <1>2, <1>4, <1>9, <1>14, FirstNibble
<1>16. Owned(two, D) /\ DOMAIN one \subseteq DOMAIN two
  BY <1>2, <1>7, <1>9, <1>13, <1>14, <1>15, BranchInsertOwned
<1> QED BY <1>0, <1>7, <1>13, <1>16 DEF StaysOwned

-----------------------------------------------------------------------------

\* TrieNode::insert at a node that does not hand the key on.
LEMMA InsertAtOwned ==
  ASSUME NEW m, NEW D, Owned(m, D), NEW p \in DOMAIN m,
         NEW rest \in Path, ~Descends(m[p], rest), NEW v \in Value,
         NEW r, r = InsertAt(m, p, rest, v)
  PROVE  StaysOwned(m, r, D)
<1>0. IsNode(m[p])
  BY DEF Owned, IsStore
<1>1. CASE m[p].kind = "Node" /\ m[p].rest_of_key = rest
  <2>1. r = With(m, p, Node(rest, v))
    BY <1>1 DEF InsertAt
  <2>2. /\ Slots(m[p]) = {} /\ IsNode(Node(rest, v)) /\ Slots(Node(rest, v)) = {}
    BY <1>0, <1>1, LeafParts, LeafNode
  <2>3. Owning(Node(rest, v)) = Owning(m[p])
    BY <2>2 DEF Owning
  <2>4. Owned(With(m, p, Node(rest, v)), D) /\ DOMAIN With(m, p, Node(rest, v)) = DOMAIN m
    BY <2>2, <2>3, ReplaceNode
  <2> QED BY <2>1, <2>4 DEF StaysOwned
<1>2. CASE m[p].kind = "Node" /\ m[p].rest_of_key # rest
  <2>1. r = SplitNode(m, p, rest, v)
    BY <1>2 DEF InsertAt
  <2> QED BY <1>2, <2>1, SplitNodeOwned
<1>3. CASE m[p].kind = "Extension"
  <2>1. r = SplitExtension(m, p, rest, v)
    BY <1>3 DEF InsertAt
  <2>2. CASE Len(parse_nibble_slices_shared_portion(m[p].partial_key, rest).rest1) = 1
    <3>1. r = SplitLastNibble(m, p, rest, v)
      BY <2>1, <2>2 DEF SplitExtension
    <3> QED BY <1>3, <2>2, <3>1, SplitLastNibbleOwned
  <2>3. CASE Len(parse_nibble_slices_shared_portion(m[p].partial_key, rest).rest1) # 1
    <3>1. r = SplitLonger(m, p, rest, v)
      BY <2>1, <2>3 DEF SplitExtension
    <3> QED BY <1>3, <2>3, <3>1, SplitLongerOwned
  <2> QED BY <2>2, <2>3
<1>4. CASE m[p].kind = "Branch"
  <2>1. r = BranchInsert(m, p, rest, v)
    BY <1>4 DEF InsertAt
  <2>2. rest = <<>>
    BY <1>4 DEF Descends
  <2>3. Owned(BranchInsert(m, p, rest, v), D)
        /\ DOMAIN m \subseteq DOMAIN BranchInsert(m, p, rest, v)
    BY <1>4, <2>2, BranchInsertOwned
  <2> QED BY <2>1, <2>3 DEF StaysOwned
<1> QED BY <1>0, <1>1, <1>2, <1>3, <1>4, NodeKinds
=============================================================================
