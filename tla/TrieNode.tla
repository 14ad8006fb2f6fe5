------------------------------ MODULE TrieNode ------------------------------
(***************************************************************************)
(* The nodes of the trie and the links between them (src/src/trie/node/),  *)
(* and what one node does with a key: where a lookup goes from it, and     *)
(* what an insertion that ends at it leaves in its place.                  *)
(*                                                                         *)
(* A TrieNodeLink owns its node (Box), names it by hash, or is empty.  The *)
(* boxed nodes of one trie form a tree, kept here as a function from the   *)
(* path of nibbles that leads to a node to the node: `m' below.  A node    *)
(* says for each of its slots only that the child is boxed; the child is   *)
(* found in m under the node's path extended by the slot.                  *)
(***************************************************************************)
EXTENDS Nibbles

CONSTANTS Value,  \* serialized values, never inspected by the trie
          None    \* the None of Option<Vec<u8>>

ASSUME NoneAssumption == None \notin Value

-----------------------------------------------------------------------------
(* Links and nodes.                                                        *)

Empty       == [tag |-> "Empty"]
Boxed       == [tag |-> "TrieNode"]
HashLink(h) == [tag |-> "HashValue", hash |-> h]

Node(rest_of_key, value) ==
  [kind |-> "Node", rest_of_key |-> rest_of_key, value |-> value]
Extension(partial_key, branch) ==
  [kind |-> "Extension", partial_key |-> partial_key, branch |-> branch]
Branch(children, value) ==
  [kind |-> "Branch", children |-> children, value |-> value]

NewBranch == Branch([i \in Nibble |-> Empty], None)

\* Faulty variant: the digest does not cover the value.
Hash_IgnoresValue(node) ==
  [blake2 |-> IF node.kind = "Node" THEN Node(node.rest_of_key, None) ELSE node]

\* Blake2b-256 of the bincode encoding of a node: the encoding is injective
\* and collisions are assumed away, so a digest stands for one node only.
Hash(node) == [blake2 |-> node]

IsHash(link) == link.tag = "HashValue"

\* The slots of a node that hold a link, as path suffixes, and their links.
Slots(n) == CASE n.kind = "Node"      -> {}
              [] n.kind = "Extension" -> {n.partial_key}
              [] n.kind = "Branch"    -> {<<i>> : i \in DOMAIN n.children}

LinkAt(n, slot) == IF n.kind = "Extension" THEN n.branch ELSE n.children[slot[1]]

Links(n) == {LinkAt(n, slot) : slot \in Slots(n)}

SetLink(n, slot, link) ==
  CASE n.kind = "Extension" /\ slot = n.partial_key -> [n EXCEPT !.branch = link]
    [] n.kind = "Branch" /\ Len(slot) = 1           -> [n EXCEPT !.children[slot[1]] = link]
    [] OTHER                                        -> n

-----------------------------------------------------------------------------
(* Looking a key up: `rest' is what is left of the key when it reaches n.  *)

Descends_UncheckedPrefix(n, rest) ==  \* faulty variant: the partial key is only half compared
  CASE n.kind = "Node"      -> FALSE
    [] n.kind = "Extension" -> /\ Len(rest) >= Len(n.partial_key)
                               /\ rest[1] = n.partial_key[1]
    [] n.kind = "Branch"    -> rest # <<>>

Descends(n, rest) ==
  CASE n.kind = "Node"      -> FALSE
    [] n.kind = "Extension" ->
         parse_nibble_slices_shared_portion(n.partial_key, rest).shared = n.partial_key
    [] n.kind = "Branch"    -> rest # <<>>

NextSlot_OneNibble(n, rest) == SubSeq(rest, 1, 1)  \* faulty variant

\* The slot a lookup that descends goes through.
NextSlot(n, rest) == IF n.kind = "Extension" THEN n.partial_key ELSE SubSeq(rest, 1, 1)

\* Faulty variant: a leaf does not compare the rest of its key.
ValueAt_AnyLeaf(n, rest) ==
  CASE n.kind = "Node"                   -> n.value
    [] n.kind = "Branch" /\ rest = <<>> -> n.value
    [] OTHER                             -> None

\* The answer of a lookup that ends at n.
ValueAt(n, rest) ==
  CASE n.kind = "Node" /\ n.rest_of_key = rest -> n.value
    [] n.kind = "Branch" /\ rest = <<>>        -> n.value
    [] OTHER                                   -> None

-----------------------------------------------------------------------------
(* Inserting.                                                              *)

With(m, p, n) == [q \in DOMAIN m \cup {p} |-> IF q = p THEN n ELSE m[q]]

\* The link that leads to path q, wherever it is in m, becomes `link'.
Relink(m, q, link) ==
  [p \in DOMAIN m |->
     IF StartsWith(q, p) THEN SetLink(m[p], Drop(q, Len(p)), link) ELSE m[p]]

\* The boxed subtree at `from' is moved to `to', with everything below it.
Move(m, from, to) ==
  LET below == {q \in DOMAIN m : StartsWith(q, from)}
      moved == {to \o Drop(q, Len(from)) : q \in below}
  IN  [q \in (DOMAIN m \ below) \cup moved |->
         IF q \in moved THEN m[from \o Drop(q, Len(to))] ELSE m[q]]

\* Branch::insert into the branch at q, when the child it selects is empty.
BranchInsert(m, q, rest, v) ==
  IF rest = <<>>
  THEN With(m, q, [m[q] EXCEPT !.value = v])
  ELSE With(With(m, q, [m[q] EXCEPT !.children[rest[1]] = Boxed]),
            q \o <<rest[1]>>, Node(Drop(rest, 1), v))

\* Put `branch' in place of the node at p, below an extension for the shared
\* prefix unless that is empty.
PlaceBranch(m, p, shared, branch) ==
  IF shared = <<>>
  THEN With(m, p, branch)
  ELSE With(With(m, p, Extension(shared, Boxed)), p \o shared, branch)

\* Node::insert of a key other than the leaf's own: both go under a branch.
SplitNode(m, p, rest, v) ==
  LET parts == parse_nibble_slices_shared_portion(m[p].rest_of_key, rest)
      q     == p \o parts.shared
      fresh == PlaceBranch(m, p, parts.shared, NewBranch)
  IN  BranchInsert(BranchInsert(fresh, q, parts.rest1, m[p].value), q, parts.rest2, v)

\* The arm `1' of Extension::insert: one nibble of the partial key is left.
\* The new branch takes the place of the extension itself: nothing is built
\* for the shared prefix.
SplitLastNibble(m, p, rest, v) ==
  LET parts == parse_nibble_slices_shared_portion(m[p].partial_key, rest)
      x     == parts.rest1[1]
      moved == Move(m, p \o m[p].partial_key, p \o <<x>>)
  IN  BranchInsert(With(moved, p, [NewBranch EXCEPT !.children[x] = m[p].branch]),
                   p, parts.rest2, v)

\* The arm `_': the rest of the partial key becomes an extension below the
\* new branch.
SplitLonger(m, p, rest, v) ==
  LET parts == parse_nibble_slices_shared_portion(m[p].partial_key, rest)
      x     == parts.rest1[1]
      q     == p \o parts.shared
      fresh == PlaceBranch(m, p, parts.shared, [NewBranch EXCEPT !.children[x] = Boxed])
  IN  BranchInsert(With(fresh, q \o <<x>>, Extension(Drop(parts.rest1, 1), m[p].branch)),
                   q, parts.rest2, v)

\* Faulty variants: the arm `1' is missing; the split drops the old child.
SplitExtension_NoLastNibbleArm(m, p, rest, v) == SplitLonger(m, p, rest, v)

SplitExtension_DropsOldChild(m, p, rest, v) ==
  LET parts == parse_nibble_slices_shared_portion(m[p].partial_key, rest)
  IN  BranchInsert(PlaceBranch(m, p, parts.shared, NewBranch), p \o parts.shared, parts.rest2, v)

SplitExtension(m, p, rest, v) ==
  LET left == parse_nibble_slices_shared_portion(m[p].partial_key, rest).rest1
  IN  IF Len(left) = 1 THEN SplitLastNibble(m, p, rest, v) ELSE SplitLonger(m, p, rest, v)

\* Faulty variant: a leaf does not compare its own key first.
InsertAt_NoOverwrite(m, p, rest, v) ==
  CASE m[p].kind = "Node"      -> SplitNode(m, p, rest, v)
    [] m[p].kind = "Extension" -> SplitExtension(m, p, rest, v)
    [] m[p].kind = "Branch"    -> BranchInsert(m, p, rest, v)

\* TrieNode::insert at the boxed node m[p], when it does not hand the key
\* on to a child.
InsertAt(m, p, rest, v) ==
  CASE m[p].kind = "Node" /\ m[p].rest_of_key = rest -> With(m, p, Node(rest, v))
    [] m[p].kind = "Node" /\ m[p].rest_of_key # rest -> SplitNode(m, p, rest, v)
    [] m[p].kind = "Extension"                       -> SplitExtension(m, p, rest, v)
    [] m[p].kind = "Branch"                          -> BranchInsert(m, p, rest, v)
=============================================================================
