----------------------------- MODULE ShapeProofs -----------------------------
(***************************************************************************)
(* An extension always leads to a branch, and a branch always has two      *)
(* entries, in the boxed nodes as in the stored ones: NodesWellShaped is   *)
(* an invariant of the trie.                                               *)
(***************************************************************************)
EXTENDS TrieProofs

\* A link that leads to a branch, which is boxed in m or stored in d.
LeadsToBranch(link, at, m, d) ==
  \/ link = Boxed /\ m[at].kind = "Branch"
  \/ IsHash(link) /\ d[link.hash].kind = "Branch"

\* The entry of a branch that a path selects is in use.
Used(n, rest) == IF rest = <<>> THEN n.value # None ELSE n.children[rest[1]] # Empty

TwoEntries(n) ==
  \E s, t \in Path : /\ Used(n, s) /\ Used(n, t)
                     /\ s # <<>> /\ (t # <<>> => s[1] # t[1])

\* WellShaped, for any boxed nodes and any database.
Fine(n, at, m, d) ==
  /\ n.kind = "Extension" => LeadsToBranch(n.branch, at \o n.partial_key, m, d)
  /\ n.kind = "Branch" => TwoEntries(n)

AllFine(m, d) == \A p \in DOMAIN m : Fine(m[p], p, m, d)

\* The same of a node without boxed children.
FineAlone(n, d) ==
  /\ n.kind = "Extension" => IsHash(n.branch) /\ d[n.branch.hash].kind = "Branch"
  /\ n.kind = "Branch" => TwoEntries(n)

StoreFine(d) == \A h \in DOMAIN d : FineAlone(d[h], d)

\* The inductive invariant, over IndInv.
ShapeInv == AllFine(mem, db) /\ StoreFine(db)

-----------------------------------------------------------------------------
(* One node.                                                               *)

\* Two entries, counted as WellShaped counts them.
LEMMA TwoEntriesIs ==
  ASSUME NEW n
  PROVE  TwoEntries(n) <=>
           \E i \in Nibble : /\ n.children[i] # Empty
                             /\ n.value # None \/ \E j \in Nibble \ {i} : n.children[j] # Empty
<1>1. ASSUME TwoEntries(n)
      PROVE  \E i \in Nibble : /\ n.children[i] # Empty
                               /\ n.value # None \/ \E j \in Nibble \ {i} : n.children[j] # Empty
  <2>1. PICK s \in Path, t \in Path : Used(n, s) /\ Used(n, t) /\ s # <<>> /\ (t # <<>> => s[1] # t[1])
    BY <1>1 DEF TwoEntries
  <2>2. s[1] \in Nibble /\ (t # <<>> => t[1] \in Nibble)
    BY <2>1, FirstNibble
  <2>3. CASE t = <<>>
    BY <2>1, <2>2, <2>3 DEF Used
  <2>4. CASE t # <<>>
    BY <2>1, <2>2, <2>4 DEF Used
  <2> QED BY <2>3, <2>4
<1>2. ASSUME NEW i \in Nibble, n.children[i] # Empty,
             n.value # None \/ \E j \in Nibble \ {i} : n.children[j] # Empty
      PROVE  TwoEntries(n)
  <2>1. ASSUME NEW j \in Nibble, n.children[j] # Empty
        PROVE  <<j>> \in Path /\ <<j>> # <<>> /\ <<j>>[1] = j /\ Used(n, <<j>>)
    <3>1. <<j>> \in Path /\ <<j>> # <<>> /\ <<j>>[1] = j
      BY OneNibble, EmptyPath
    <3> QED BY <2>1, <3>1 DEF Used
  <2>2. CASE n.value # None
    <3>1. <<>> \in Path /\ Used(n, <<>>)
      BY <2>2, EmptyPath DEF Used
    <3> QED BY <1>2, <2>1, <3>1 DEF TwoEntries
  <2>3. CASE \E j \in Nibble \ {i} : n.children[j] # Empty
    <3>1. PICK j \in Nibble : j # i /\ n.children[j] # Empty
      BY <2>3
    <3> QED BY <1>2, <2>1, <3>1 DEF TwoEntries
  <2> QED BY <1>2, <2>2, <2>3
<1> QED BY <1>1, <1>2

\* A branch that only gains entries keeps two.
LEMMA TwoEntriesKept ==
  ASSUME NEW n, NEW r, TwoEntries(n), \A t \in Path : Used(n, t) => Used(r, t)
  PROVE  TwoEntries(r)
BY DEF TwoEntries

\* An insertion into a branch changes the branch and one entry of it.
BranchFootprint(m, q, rest, r) ==
  /\ DOMAIN m \subseteq DOMAIN r
  /\ r[q].kind = "Branch"
  /\ \A t \in Path : Used(m[q], t) => Used(r[q], t)
  /\ Used(r[q], rest)
  /\ \A y \in DOMAIN m : y # q => r[y] = m[y]
  /\ \A y \in DOMAIN r : y \in DOMAIN m \/ (rest # <<>> /\ y = q \o <<rest[1]>> /\ r[y].kind = "Node")

\* That is what Branch::insert does.
LEMMA BranchInsertFootprint ==
  ASSUME NEW m, NEW q \in DOMAIN m, q \in Path, IsNode(m[q]), m[q].kind = "Branch",
         NEW rest \in Path, NEW v \in Value,
         rest # <<>> => q \o <<rest[1]>> \notin DOMAIN m,
         NEW r, r = BranchInsert(m, q, rest, v)
  PROVE  BranchFootprint(m, q, rest, r) /\ IsNode(r[q])
<1>0. /\ m[q] = Branch(m[q].children, m[q].value)
      /\ m[q].children = [i \in Nibble |-> m[q].children[i]]
      /\ \A i \in Nibble : IsLink(m[q].children[i])
  BY BranchParts
<1>1. CASE rest = <<>>
  <2> DEFINE b == [m[q] EXCEPT !.value = v]
  <2>1. b = Branch(m[q].children, v)
    BY <1>0 DEF Branch
  <2>2. b.kind = "Branch" /\ b.children = m[q].children /\ b.value = v /\ IsNode(b)
    BY <1>0, <2>1, BranchNode
  <2>3. r = With(m, q, b)
    BY <1>1 DEF BranchInsert
  <2> HIDE DEF b
  <2>4. DOMAIN r = DOMAIN m /\ r[q] = b /\ \A y \in DOMAIN m : y # q => r[y] = m[y]
    BY <2>3 DEF With
  <2> QED BY <1>1, <2>2, <2>4, NoneAssumption DEF BranchFootprint, Used
<1>2. CASE rest # <<>>
  <2> DEFINE x == rest[1]
             b == [m[q] EXCEPT !.children[x] = Boxed]
             c == Node(Drop(rest, 1), v)
  <2>1. x \in Nibble
    BY <1>2, FirstNibble
  <2>2. b = Branch([m[q].children EXCEPT ![x] = Boxed], m[q].value)
    BY <1>0 DEF Branch
  <2>3. b.kind = "Branch" /\ b.value = m[q].value
    BY <2>2 DEF Branch
  <2>4. b.children[x] = Boxed /\ \A i \in Nibble : i # x => b.children[i] = m[q].children[i]
    BY <1>0, <2>1, <2>2 DEF Branch
  <2>5. IsNode(b)
    BY <2>1, SetChild, LinkTypes
  <2>6. r = With(With(m, q, b), q \o <<x>>, c) /\ c.kind = "Node"
    BY <1>2 DEF BranchInsert, Node
  <2> HIDE DEF b, c
  <2>7. q \o <<x>> # q
    BY <1>2
  <2> DEFINE z == q \o <<x>>
  <2>8. z \notin DOMAIN m /\ z # q /\ r = With(With(m, q, b), z, c)
    BY <1>2, <2>6, <2>7
  <2> HIDE DEF z
  <2>9. DOMAIN r = DOMAIN m \cup {z} /\ r[q] = b /\ r[z] = c /\ \A y \in DOMAIN m : y # q => r[y] = m[y]
    BY <2>8 DEF With
  <2>10. \A t \in Path : Used(m[q], t) => Used(b, t)
    <3>1. ASSUME NEW t \in Path, t # <<>>, m[q].children[t[1]] # Empty PROVE b.children[t[1]] # Empty
      <4>1. t[1] \in Nibble
        BY <3>1, FirstNibble
      <4> QED BY <2>4, <3>1, <4>1, LinkTypes
    <3> QED BY <2>3, <3>1 DEF Used
  <2>11. Used(b, rest)
    BY <1>2, <2>4, LinkTypes DEF Used
  <2>12. \A y \in DOMAIN r : y \in DOMAIN m \/ (y = q \o <<rest[1]>> /\ r[y].kind = "Node")
    BY <2>6, <2>9 DEF z
  <2> QED BY <1>2, <2>3, <2>5, <2>9, <2>10, <2>11, <2>12 DEF BranchFootprint
<1> QED BY <1>1, <1>2

-----------------------------------------------------------------------------
(* Nodes a step leaves alone.                                              *)

\* A fine node that stays as it was is fine, if branches stay branches.
LEMMA KeptFine ==
  ASSUME NEW m, NEW D, Owned(m, D), NEW d, AllFine(m, d),
         NEW r, NEW x \in DOMAIN m, r[x] = m[x],
         \A y \in DOMAIN m : m[y].kind = "Branch" => r[y].kind = "Branch"
  PROVE  Fine(r[x], x, r, d)
<1>1. CASE m[x].kind = "Extension"
  <2>1. LeadsToBranch(m[x].branch, x \o m[x].partial_key, m, d)
    BY <1>1 DEF AllFine, Fine
  <2>2. m[x].branch = Boxed => x \o m[x].partial_key \in DOMAIN m
    <3>1. Slots(m[x]) = {m[x].partial_key} /\ LinkAt(m[x], m[x].partial_key) = m[x].branch
      BY <1>1, ExtensionParts DEF Owned, IsStore
    <3> QED BY <3>1 DEF Owned, Tree
  <2> QED BY <1>1, <2>1, <2>2 DEF LeadsToBranch, Fine
<1>2. CASE m[x].kind # "Extension"
  BY <1>2 DEF AllFine, Fine
<1> QED BY <1>1, <1>2

\* Below an extension nothing is above what its partial key leads to.
LEMMA BelowExtension ==
  ASSUME NEW m, NEW D, Owned(m, D), NEW p \in DOMAIN m, m[p].kind = "Extension",
         NEW y \in DOMAIN m, StartsWith(y, p), y # p
  PROVE  /\ StartsWith(y, p \o m[p].partial_key)
         /\ Len(y) >= Len(p) + Len(m[p].partial_key)
<1>1. Slots(m[p]) = {m[p].partial_key} /\ m[p].partial_key \in Path /\ p \in Path
  BY ExtensionParts DEF Owned, IsStore
<1>2. StartsWith(y, p \o m[p].partial_key)
  BY <1>1 DEF Owned, Tree
<1>3. Len(p \o m[p].partial_key) = Len(p) + Len(m[p].partial_key)
  BY <1>1, ConcatPath
<1> QED BY <1>2, <1>3 DEF StartsWith

-----------------------------------------------------------------------------
(* Splits.                                                                 *)

\* Two paths that part select two entries.
LEMMA PartingEntries ==
  ASSUME NEW n, NEW s \in Path, NEW t \in Path, Used(n, s), Used(n, t),
         s # <<>> \/ t # <<>>, s # <<>> /\ t # <<>> => s[1] # t[1]
  PROVE  TwoEntries(n)
BY DEF TwoEntries

\* The node at p gives way to a branch at q, below the shared prefix.
Splits(m, p, sh, q, r, d) ==
  /\ q = p \o sh
  /\ \A y \in DOMAIN m : y # p => r[y] = m[y]
  /\ r[q].kind = "Branch" /\ TwoEntries(r[q])
  /\ sh # <<>> => r[p] = Extension(sh, Boxed)
  /\ \A y \in DOMAIN r : y \in DOMAIN m \/ y = q \/ Fine(r[y], y, r, d)

\* Then every node has its shape: only the node above looks at the kind of q's.
LEMMA SplitFine ==
  ASSUME NEW m, NEW D, Owned(m, D), NEW d, AllFine(m, d),
         NEW p \in DOMAIN m, m[p].kind # "Branch", NEW sh \in Path,
         NEW q, NEW r, Splits(m, p, sh, q, r, d)
  PROVE  AllFine(r, d)
<1> USE DEF Splits
<1>1. ASSUME NEW y \in DOMAIN r, y \in DOMAIN m, y # p PROVE Fine(r[y], y, r, d)
  BY <1>1, KeptFine
<1>2. Fine(r[p \o sh], p \o sh, r, d)
  BY DEF Fine
<1>3. Fine(r[p], p, r, d)
  <2>1. CASE sh = <<>>
    <3>1. p \o sh = p
      BY <2>1, ConcatEmpty DEF Owned
    <3> QED BY <1>2, <3>1
  <2>2. CASE sh # <<>>
    <3>1. r[p] = Extension(sh, Boxed)
      BY <2>2
    <3>2. r[p].kind = "Extension" /\ r[p].branch = Boxed /\ r[p].partial_key = sh
      BY <3>1 DEF Extension
    <3> QED BY <3>2 DEF Fine, LeadsToBranch
  <2> QED BY <2>1, <2>2
<1> QED BY <1>1, <1>2, <1>3 DEF AllFine

\* What PlaceBranch stores.
Placed(m, p, sh, q, b, r) ==
  /\ DOMAIN r = DOMAIN m \cup {q}
  /\ r[q] = b
  /\ sh # <<>> => r[p] = Extension(sh, Boxed) /\ q # p
  /\ \A y \in DOMAIN m : y # p /\ y # q => r[y] = m[y]

\* That is what it stores.
LEMMA PlaceFootprint ==
  ASSUME NEW m, NEW p \in DOMAIN m, p \in Path, NEW sh \in Path, NEW b,
         NEW r, r = PlaceBranch(m, p, sh, b)
  PROVE  Placed(m, p, sh, p \o sh, b, r)
<1> USE DEF Placed
<1>1. CASE sh = <<>>
  <2>1. p \o sh = p /\ r = With(m, p, b)
    BY <1>1, ConcatEmpty DEF PlaceBranch
  <2> QED BY <1>1, <2>1 DEF With
<1>2. CASE sh # <<>>
  <2> DEFINE q == p \o sh
  <2>1. q # p
    <3>1. Len(q) = Len(p) + Len(sh) /\ Len(p) \in Nat /\ Len(sh) \in Nat \ {0}
      BY <1>2, ConcatPath, PathLen, EmptyPath
    <3> QED BY <3>1
  <2>2. r = With(With(m, p, Extension(sh, Boxed)), q, b)
    BY <1>2 DEF PlaceBranch
  <2> HIDE DEF q
  <2>3. /\ DOMAIN r = DOMAIN m \cup {q} /\ r[q] = b /\ r[p] = Extension(sh, Boxed)
        /\ \A y \in DOMAIN m : y # p /\ y # q => r[y] = m[y]
    BY <2>1, <2>2 DEF With
  <2> QED BY <1>2, <2>1, <2>3 DEF q
<1> QED BY <1>1, <1>2

\* A longer path is another path.
LEMMA NextDiffers ==
  ASSUME NEW q \in Path, NEW x \in Nibble
  PROVE  /\ q \o <<x>> \in Path /\ Len(q \o <<x>>) = Len(q) + 1
         /\ q \o <<x>> # q /\ StartsWith(q \o <<x>>, q)
         /\ \A y \in Nibble : q \o <<x>> = q \o <<y>> => x = y
<1>1. <<x>> \in Path /\ Len(<<x>>) = 1 /\ <<x>>[1] = x
  BY OneNibble
<1>2. q \o <<x>> \in Path /\ Len(q \o <<x>>) = Len(q) + 1 /\ Len(q) \in Nat
  BY <1>1, ConcatPath, PathLen
<1>3. q \o <<x>> # q
  BY <1>2
<1>4. ASSUME NEW y \in Nibble, q \o <<x>> = q \o <<y>> PROVE x = y
  <2>1. <<y>> \in Path /\ <<y>>[1] = y
    BY OneNibble
  <2>2. <<x>> = <<y>>
    BY <1>1, <1>4, <2>1, ConcatCancel
  <2> QED BY <1>1, <2>1, <2>2
<1> QED BY <1>1, <1>2, <1>3, <1>4, ConcatPrefix

\* Node::insert of another key leaves a branch for both.
LEMMA SplitNodeFine ==
  ASSUME NEW m, NEW D, Owned(m, D), NEW d, AllFine(m, d),
         NEW p \in DOMAIN m, m[p].kind = "Node",
         NEW rest \in Path, m[p].rest_of_key # rest, NEW v \in Value,
         NEW r, r = SplitNode(m, p, rest, v)
  PROVE  AllFine(r, d)
<1> DEFINE parts == parse_nibble_slices_shared_portion(m[p].rest_of_key, rest)
           sh    == parts.shared
           r1    == parts.rest1
           r2    == parts.rest2
           q     == p \o sh
           fresh == PlaceBranch(m, p, sh, NewBranch)
           one   == BranchInsert(fresh, q, r1, m[p].value)
           two   == BranchInsert(one, q, r2, v)
<1>1. /\ IsNode(m[p]) /\ Slots(m[p]) = {} /\ m[p].rest_of_key \in Path /\ m[p].value \in Value
      /\ p \in Path
  BY LeafParts DEF Owned, IsStore
<1>2. /\ sh \in Path /\ r1 \in Path /\ r2 \in Path
      /\ m[p].rest_of_key = sh \o r1 /\ rest = sh \o r2
      /\ r1 # <<>> /\ r2 # <<>> => r1[1] # r2[1]
  BY <1>1, SharedPortion
<1>3. r = two
  BY DEF SplitNode
<1> HIDE DEF parts, sh, r1, r2
<1>4. r1 # <<>> \/ r2 # <<>>
  BY <1>2
<1>5. (r1 # <<>> => r1[1] \in Nibble) /\ (r2 # <<>> => r2[1] \in Nibble)
  BY <1>2, FirstNibble
<1>6. q \in Path /\ StartsWith(q, p)
  BY <1>1, <1>2, ConcatPath, ConcatPrefix
<1>7. Placed(m, p, sh, q, NewBranch, fresh)
  BY <1>1, <1>2, PlaceFootprint
<1>8. ASSUME NEW y \in DOMAIN m, StartsWith(y, q) PROVE y = p
  <2>1. y \in Path /\ StartsWith(y, p)
    BY <1>1, <1>6, <1>8, PrefixTrans DEF Owned
  <2> QED BY <1>1, <2>1, NothingBelowChildless DEF Owned
<1> HIDE DEF q, fresh
<1> USE DEF Placed
<1>9. ASSUME NEW x \in Nibble PROVE q \o <<x>> \notin DOMAIN fresh
  <2>1. q \o <<x>> # q /\ StartsWith(q \o <<x>>, q) /\ Len(q \o <<x>>) = Len(q) + 1
    BY <1>6, NextDiffers
  <2>2. q \o <<x>> # p
    BY <1>1, <1>6, <2>1, PathLen DEF StartsWith
  <2> QED BY <1>7, <1>8, <2>1, <2>2
<1>10. BranchFootprint(fresh, q, r1, one) /\ IsNode(one[q])
  BY <1>1, <1>2, <1>5, <1>6, <1>7, <1>9, NewBranchNode, BranchInsertFootprint
<1> HIDE DEF one
<1>11. r2 # <<>> => q \o <<r2[1]>> \notin DOMAIN one
  BY <1>2, <1>5, <1>6, <1>9, <1>10, NextDiffers, ZenonT(30) DEF BranchFootprint
<1>12. BranchFootprint(one, q, r2, two)
  <2>1. two = BranchInsert(one, q, r2, v) /\ q \in DOMAIN one /\ one[q].kind = "Branch"
    BY <1>7, <1>10 DEF BranchFootprint
  <2> HIDE DEF two
  <2> QED BY <1>2, <1>6, <1>10, <1>11, <2>1, BranchInsertFootprint
<1> HIDE DEF two
<1>13. two[q].kind = "Branch" /\ TwoEntries(two[q])
  <2>1. Used(two[q], r1) /\ Used(two[q], r2)
    BY <1>2, <1>10, <1>12 DEF BranchFootprint
  <2> QED BY <1>2, <1>4, <1>12, <2>1, PartingEntries DEF BranchFootprint
<1>14. \A y \in DOMAIN fresh : y # q => two[y] = fresh[y]
  BY <1>10, <1>12 DEF BranchFootprint
<1>15. \A y \in DOMAIN m : y # p => two[y] = m[y]
  <2>1. ASSUME NEW y \in DOMAIN m, y # p PROVE y # q
    BY <1>6, <1>8, <2>1, PrefixRefl
  <2> QED BY <1>7, <1>14, <2>1
<1>16. sh # <<>> => two[p] = Extension(sh, Boxed)
  BY <1>7, <1>14
<1>17. \A y \in DOMAIN two : y \in DOMAIN m \/ y = q \/ Fine(two[y], y, two, d)
  <2>1. ASSUME NEW y \in DOMAIN two, y \notin DOMAIN fresh PROVE two[y].kind = "Node"
    BY <1>6, <1>7, <1>10, <1>12, <2>1 DEF BranchFootprint
  <2>2. ASSUME NEW y \in DOMAIN two, two[y].kind = "Node" PROVE Fine(two[y], y, two, d)
    BY <2>2 DEF Fine
  <2> QED BY <1>7, <2>1, <2>2
<1>18. AllFine(two, d)
  <2>1. Splits(m, p, sh, q, two, d)
    BY <1>13, <1>15, <1>16, <1>17 DEF q, Splits
  <2> QED BY <1>2, <2>1, SplitFine
<1> QED BY <1>3, <1>18

\* A path that is two nibbles longer than another is not its neighbour.
LEMMA LongerThanCut ==
  ASSUME NEW p \in Path, NEW sh \in Path, NEW left \in Path, left # <<>>, Len(left) # 1,
         NEW q, Len(q) = Len(p) + Len(sh),
         NEW y \in Path, NEW k, k = Len(sh) + Len(left), Len(y) >= Len(p) + k
  PROVE  Len(y) > Len(q) + 1
<1>1. Len(p) \in Nat /\ Len(sh) \in Nat /\ Len(left) \in Nat /\ Len(left) # 0 /\ Len(y) \in Nat
  BY PathLen, EmptyPath
<1>2. ASSUME NEW a \in Nat, NEW b \in Nat, NEW c \in Nat, c # 0, c # 1, NEW e \in Nat, e >= a + (b + c)
      PROVE  e > (a + b) + 1
  BY <1>2
<1> QED BY <1>1, <1>2

\* The arm `_' of Extension::insert: the rest of the partial key leads where
\* the whole did.
LEMMA SplitLongerFine ==
  ASSUME NEW m, NEW D, Owned(m, D), NEW d, AllFine(m, d),
         NEW p \in DOMAIN m, m[p].kind = "Extension",
         NEW rest \in Path, ~Descends(m[p], rest), NEW v \in Value,
         Len(parse_nibble_slices_shared_portion(m[p].partial_key, rest).rest1) # 1,
         NEW r, r = SplitLonger(m, p, rest, v)
  PROVE  AllFine(r, d)
<1> DEFINE pk    == m[p].partial_key
           parts == parse_nibble_slices_shared_portion(pk, rest)
           sh    == parts.shared
           left  == parts.rest1
           r2    == parts.rest2
           x     == left[1]
           q     == p \o sh
           z     == q \o <<x>>
           t     == Drop(left, 1)
           b     == [NewBranch EXCEPT !.children[x] = Boxed]
           c     == Extension(t, m[p].branch)
           fresh == PlaceBranch(m, p, sh, b)
           one   == With(fresh, z, c)
           two   == BranchInsert(one, q, r2, v)
<1>0. r = two
  BY DEF SplitLonger
<1>1. /\ m[p] = Extension(pk, m[p].branch) /\ pk \in Path /\ pk # <<>> /\ p \in Path
      /\ Slots(m[p]) = {pk} /\ LinkAt(m[p], pk) = m[p].branch
  BY ExtensionParts DEF Owned, IsStore
<1>2. /\ sh \in Path /\ left \in Path /\ r2 \in Path /\ pk = sh \o left
      /\ left # <<>> /\ r2 # <<>> => x # r2[1]
  BY <1>1, SharedPortion
<1>3. sh # pk /\ Len(left) # 1
  BY DEF Descends
<1> HIDE DEF parts, pk, sh, left, r2
<1>4. left # <<>>
  BY <1>2, <1>3, ConcatEmpty
<1>5. x \in Nibble /\ t \in Path /\ <<x>> \in Path /\ left = <<x>> \o t /\ (r2 # <<>> => r2[1] \in Nibble)
  BY <1>2, <1>4, FirstNibble, OneNibble
<1>6. q \in Path /\ StartsWith(q, p) /\ Len(q) = Len(p) + Len(sh)
  BY <1>1, <1>2, ConcatPath, ConcatPrefix
<1>7. z \in Path /\ p \o pk = z \o t
  <2>0. p \in Path /\ sh \in Path /\ left \in Path
    BY <1>1, <1>2
  <2>1. q \o left = p \o (sh \o left)
    BY <2>0, ConcatAssoc
  <2> HIDE DEF q, t, x
  <2>2. z \o t = q \o (<<x>> \o t)
    BY <1>5, <1>6, ConcatAssoc, SMTT(30)
  <2> QED BY <1>2, <1>5, <1>6, <2>1, <2>2, ConcatPath
<1>8. Placed(m, p, sh, q, b, fresh)
  <2> HIDE DEF b
  <2> QED BY <1>1, <1>2, PlaceFootprint
<1>9. IsNode(b) /\ b.kind = "Branch" /\ b.children[x] = Boxed
  <2>1. /\ IsNode(b) /\ b.kind = "Branch" /\ LinkAt(b, <<x>>) = Boxed
    BY <1>5, NewBranchNode, LinkTypes, SetChild
  <2> HIDE DEF b
  <2> QED BY <2>1, BranchParts, <1>5
<1> HIDE DEF q, z, b, c, fresh, t, x
<1>10. ASSUME NEW y \in DOMAIN m, StartsWith(y, p), y # p PROVE Len(y) > Len(q) + 1
  <2>1. Len(y) >= Len(p) + Len(pk)
    BY <1>10, BelowExtension DEF pk
  <2>2. Len(pk) = Len(sh) + Len(left)
    BY <1>2, ConcatPath
  <2> QED BY <1>1, <1>2, <1>3, <1>4, <1>6, <2>1, <2>2, LongerThanCut DEF Owned
<1>11. ASSUME NEW i \in Nibble
       PROVE  /\ q \o <<i>> \in Path /\ q \o <<i>> \notin DOMAIN m /\ q \o <<i>> # q
              /\ \A j \in Nibble : q \o <<i>> = q \o <<j>> => i = j
  <2>1. /\ q \o <<i>> \in Path /\ Len(q \o <<i>>) = Len(q) + 1
        /\ q \o <<i>> # q /\ StartsWith(q \o <<i>>, q)
        /\ \A j \in Nibble : q \o <<i>> = q \o <<j>> => i = j
    BY <1>6, NextDiffers
  <2>2. StartsWith(q \o <<i>>, p) /\ q \o <<i>> # p
    BY <1>1, <1>6, <2>1, PrefixTrans, PathLen DEF StartsWith
  <2>3. Len(q) \in Nat
    BY <1>6, PathLen
  <2>4. q \o <<i>> \notin DOMAIN m
    <3> DEFINE y == q \o <<i>>
    <3>1. y \in DOMAIN m => Len(y) > Len(q) + 1
      BY <1>10, <2>2
    <3>2. Len(y) = Len(q) + 1
      BY <2>1
    <3> HIDE DEF y
    <3>3. y \notin DOMAIN m
      BY <2>3, <3>1, <3>2
    <3> QED BY <3>3 DEF y
  <2> QED BY <2>1, <2>4
<1>12. q \in DOMAIN m => q = p
  <2>1. Len(q) \in Nat
    BY <1>6, PathLen
  <2> QED BY <1>6, <1>10, <2>1
<1>13. z # q /\ z \notin DOMAIN m /\ z = q \o <<x>>
  BY <1>5, <1>11 DEF z
<1>14. /\ DOMAIN one = DOMAIN m \cup {q, z} /\ one[q] = b /\ one[z] = c
       /\ \A y \in DOMAIN m : y # p => one[y] = m[y]
       /\ sh # <<>> => one[p] = Extension(sh, Boxed)
  BY <1>8, <1>12, <1>13 DEF Placed, With
<1> HIDE DEF one
<1>15. BranchFootprint(one, q, r2, two)
  <2>1. r2 # <<>> => q \o <<r2[1]>> \notin DOMAIN one
    BY <1>2, <1>4, <1>5, <1>11, <1>13, <1>14
  <2>2. two = BranchInsert(one, q, r2, v) /\ q \in DOMAIN one /\ one[q].kind = "Branch" /\ IsNode(one[q])
    BY <1>9, <1>14
  <2> HIDE DEF two
  <2> QED BY <1>2, <1>6, <2>1, <2>2, BranchInsertFootprint
<1> HIDE DEF two
<1>16. two[q].kind = "Branch" /\ TwoEntries(two[q])
  <2>1. Used(one[q], left)
    BY <1>4, <1>9, <1>14, LinkTypes DEF Used, x
  <2>2. Used(two[q], left) /\ Used(two[q], r2)
    BY <1>2, <1>15, <2>1 DEF BranchFootprint
  <2>3. left # <<>> /\ r2 # <<>> => left[1] # r2[1]
    BY <1>2 DEF x
  <2> QED BY <1>2, <1>4, <1>15, <2>2, <2>3, PartingEntries DEF BranchFootprint
<1>17. /\ \A y \in DOMAIN m : y # p => two[y] = m[y]
       /\ sh # <<>> => two[p] = Extension(sh, Boxed)
       /\ two[z] = c
  <2>1. \A y \in DOMAIN one : y # q => two[y] = one[y]
    BY <1>15 DEF BranchFootprint
  <2>2. sh # <<>> => p # q
    BY <1>8 DEF Placed
  <2> QED BY <1>12, <1>13, <1>14, <2>1, <2>2
<1>18. Fine(two[z], z, two, d)
  <2>1. two[z].kind = "Extension" /\ two[z].partial_key = t /\ two[z].branch = m[p].branch
    BY <1>17 DEF c, Extension
  <2>2. LeadsToBranch(m[p].branch, p \o pk, m, d)
    BY DEF AllFine, Fine, pk
  <2>3. m[p].branch = Boxed => p \o pk \in DOMAIN m /\ p \o pk # p
    <3>1. Len(p \o pk) = Len(p) + Len(pk) /\ Len(p) \in Nat /\ Len(pk) \in Nat \ {0}
      BY <1>1, ConcatPath, PathLen, EmptyPath
    <3>2. p \o pk # p
      BY <3>1
    <3> QED BY <1>1, <3>2 DEF Owned, Tree
  <2>4. LeadsToBranch(m[p].branch, p \o pk, two, d)
    BY <1>17, <2>2, <2>3 DEF LeadsToBranch
  <2> QED BY <1>7, <2>1, <2>4 DEF Fine
<1>19. \A y \in DOMAIN two : y \in DOMAIN m \/ y = q \/ Fine(two[y], y, two, d)
  <2>1. ASSUME NEW y \in DOMAIN two, two[y].kind = "Node" PROVE Fine(two[y], y, two, d)
    BY <2>1 DEF Fine
  <2> QED BY <1>14, <1>15, <1>18, <2>1 DEF BranchFootprint
<1>20. AllFine(two, d)
  <2>1. Splits(m, p, sh, q, two, d)
    BY <1>16, <1>17, <1>19 DEF q, Splits
  <2> QED BY <1>2, <2>1, SplitFine
<1> QED BY <1>0, <1>20

\* What Move does to the tree below an extension at p: what is at or below
\* `from' is found at the same place below `to', the rest stays.
Shifted(m, p, from, to, r) ==
  /\ \A y \in DOMAIN m : ~StartsWith(y, p) => y \in DOMAIN r /\ r[y] = m[y]
  /\ \A y \in DOMAIN r : \/ y \in DOMAIN m /\ ~StartsWith(y, p)
                         \/ y = p
                         \/ \E u \in Path : y = to \o u
  /\ \A u \in Path : from \o u \in DOMAIN m => to \o u \in DOMAIN r
  /\ \A u \in Path : to \o u \in DOMAIN r => from \o u \in DOMAIN m /\ r[to \o u] = m[from \o u]

\* That is what it does.
LEMMA MoveFootprint ==
  ASSUME NEW m, NEW D, Owned(m, D), NEW p \in DOMAIN m, m[p].kind = "Extension",
         NEW s \in Path, s # <<>>,
         NEW from, from = p \o m[p].partial_key, NEW to, to = p \o s,
         NEW r, r = Move(m, from, to)
  PROVE  Shifted(m, p, from, to, r)
<1> DEFINE below == {q \in DOMAIN m : StartsWith(q, from)}
           moved == {to \o Drop(q, Len(from)) : q \in below}
<1>0. /\ p \in Path /\ from \in Path /\ to \in Path /\ Len(p) \in Nat
      /\ StartsWith(from, p) /\ StartsWith(to, p)
      /\ Len(from) > Len(p) /\ Len(to) > Len(p)
  <2>1. p \in Path /\ m[p].partial_key \in Path /\ m[p].partial_key # <<>>
    BY ExtensionParts DEF Owned, IsStore
  <2>2. ASSUME NEW t \in Path, t # <<>>
        PROVE  p \o t \in Path /\ Len(p) \in Nat /\ StartsWith(p \o t, p) /\ Len(p \o t) > Len(p)
    <3>1. Len(p \o t) = Len(p) + Len(t) /\ Len(p) \in Nat /\ Len(t) \in Nat \ {0}
      BY <2>1, <2>2, ConcatPath, PathLen, EmptyPath
    <3> QED BY <2>1, <2>2, <3>1, ConcatPath, ConcatPrefix
  <2> QED BY <2>1, <2>2
<1>1. ASSUME NEW q \in DOMAIN m, StartsWith(q, p), q # p PROVE q \in below
  BY <1>1, BelowExtension
<1>2. ASSUME NEW q \in below
      PROVE  Drop(q, Len(from)) \in Path /\ q = from \o Drop(q, Len(from))
  <2>1. q \in Path /\ StartsWith(q, from)
    BY <1>2 DEF Owned
  <2> QED BY <1>0, <2>1, PrefixDrop
<1>3. ASSUME NEW u \in Path
      PROVE  /\ to \o u \in Path /\ from \o u \in Path
             /\ Drop(to \o u, Len(to)) = u /\ Drop(from \o u, Len(from)) = u
             /\ StartsWith(from \o u, from) /\ StartsWith(to \o u, p) /\ to \o u # p
  <2>1. /\ to \o u \in Path /\ from \o u \in Path /\ Len(to \o u) = Len(to) + Len(u)
        /\ Len(u) \in Nat /\ Len(to) \in Nat
    BY <1>0, <1>3, ConcatPath, PathLen
  <2>2. /\ Drop(to \o u, Len(to)) = u /\ Drop(from \o u, Len(from)) = u
        /\ StartsWith(to \o u, to) /\ StartsWith(from \o u, from)
    BY <1>0, <1>3, ConcatPrefix
  <2>3. StartsWith(to \o u, p)
    BY <1>0, <2>1, <2>2, PrefixTrans
  <2>4. to \o u # p
    BY <1>0, <2>1
  <2> QED BY <2>1, <2>2, <2>3, <2>4
<1>4. ASSUME NEW u \in Path PROVE to \o u \in moved <=> from \o u \in DOMAIN m
  <2>1. ASSUME to \o u \in moved PROVE from \o u \in DOMAIN m
    <3>1. PICK q \in below : to \o u = to \o Drop(q, Len(from))
      BY <2>1
    <3> DEFINE w == Drop(q, Len(from))
    <3>2. w \in Path /\ q = from \o w /\ to \o u = to \o w
      BY <1>2, <3>1
    <3> HIDE DEF w
    <3>3. u = w
      BY <1>0, <1>4, <3>2, ConcatCancel
    <3> QED BY <3>2, <3>3
  <2>2. ASSUME from \o u \in DOMAIN m PROVE to \o u \in moved
    <3>1. from \o u \in below /\ Drop(from \o u, Len(from)) = u
      BY <1>3, <1>4, <2>2
    <3> QED BY <3>1
  <2> QED BY <2>1, <2>2
<1>5. ASSUME NEW y \in moved PROVE \E u \in Path : y = to \o u
  BY <1>2
<1>6. /\ DOMAIN r = (DOMAIN m \ below) \cup moved
      /\ \A q \in DOMAIN r : r[q] = IF q \in moved THEN m[from \o Drop(q, Len(to))] ELSE m[q]
  BY DEF Move
<1>7. ASSUME NEW y \in DOMAIN m, ~StartsWith(y, p) PROVE y \notin below /\ y \notin moved
  <2>1. y \notin below
    BY <1>0, <1>7, PrefixTrans DEF Owned
  <2>2. y \notin moved
    BY <1>3, <1>5, <1>7
  <2> QED BY <2>1, <2>2
<1> HIDE DEF below, moved
<1>8. \A u \in Path : to \o u \in DOMAIN r => to \o u \in moved
  <2>1. ASSUME NEW u \in Path, to \o u \in DOMAIN r, to \o u \notin moved PROVE FALSE
    <3>1. to \o u \in DOMAIN m /\ to \o u \notin below
      BY <1>6, <2>1
    <3> QED BY <1>1, <1>3, <3>1
  <2> QED BY <2>1
<1>9. \A u \in Path : to \o u \in DOMAIN r => from \o u \in DOMAIN m /\ r[to \o u] = m[from \o u]
  BY <1>3, <1>4, <1>6, <1>8
<1>10. \A u \in Path : from \o u \in DOMAIN m => to \o u \in DOMAIN r
  BY <1>4, <1>6
<1>11. \A y \in DOMAIN m : ~StartsWith(y, p) => y \in DOMAIN r /\ r[y] = m[y]
  BY <1>6, <1>7
<1>12. ASSUME NEW y \in DOMAIN r
       PROVE  \/ y \in DOMAIN m /\ ~StartsWith(y, p)
              \/ y = p
              \/ \E u \in Path : y = to \o u
  BY <1>1, <1>5, <1>6, <1>12
<1> QED BY <1>9, <1>10, <1>11, <1>12 DEF Shifted

\* What was shifted out of the place of an extension at p stays fine, and so
\* does the rest: no extension leads to p, which is not a branch.
LEMMA ShiftedFine ==
  ASSUME NEW m, NEW D, Owned(m, D), NEW d, AllFine(m, d),
         NEW p \in DOMAIN m, m[p].kind = "Extension",
         NEW from \in Path, NEW to \in Path, NEW l, Shifted(m, p, from, to, l),
         \A u \in Path : to \o u # p,
         NEW r, \A y \in DOMAIN l : y # p => r[y] = l[y],
         NEW y \in DOMAIN l, y # p
  PROVE  Fine(r[y], y, r, d)
<1> USE DEF Shifted
<1>0. p \in Path /\ DOMAIN m \subseteq Path
  BY DEF Owned
<1>1. ASSUME NEW x \in DOMAIN m, m[x].kind = "Extension"
      PROVE  /\ m[x].partial_key \in Path
             /\ LeadsToBranch(m[x].branch, x \o m[x].partial_key, m, d)
             /\ m[x].branch = Boxed => x \o m[x].partial_key \in DOMAIN m
  <2>1. m[x].partial_key \in Path /\ Slots(m[x]) = {m[x].partial_key} /\ LinkAt(m[x], m[x].partial_key) = m[x].branch
    BY <1>1, ExtensionParts DEF Owned, IsStore
  <2> QED BY <1>1, <2>1 DEF Owned, Tree, AllFine, Fine
<1>2. CASE y \in DOMAIN m /\ ~StartsWith(y, p)
  <2>1. r[y] = m[y]
    BY <1>2
  <2>2. CASE m[y].kind = "Extension" /\ m[y].branch = Boxed
    <3> DEFINE t == y \o m[y].partial_key
    <3>1. t \in DOMAIN m /\ m[t].kind = "Branch" /\ t # p
      BY <1>1, <1>2, <2>2, LinkTypes DEF LeadsToBranch
    <3>2. ~StartsWith(t, p)
      <4> SUFFICES ASSUME StartsWith(t, p) PROVE FALSE
        OBVIOUS
      <4>1. StartsWith(t, y) /\ t \in Path /\ y \in Path
        BY <1>0, <1>1, <1>2, <2>2, <3>1, ConcatPrefix
      <4> HIDE DEF t
      <4>2. Len(y) \in Nat /\ Len(p) \in Nat
        BY <1>0, <4>1, PathLen
      <4>3. StartsWith(p, y) /\ p # y
        <5>1. Len(y) <= Len(p)
          BY <1>0, <1>2, <4>1, <4>2, PrefixLinear
        <5> QED BY <1>0, <1>2, <4>1, <5>1, PrefixLinear, PrefixRefl
      <4>4. StartsWith(p, t)
        <5>1. Slots(m[y]) = {m[y].partial_key}
          BY <1>2, <2>2, ExtensionParts DEF Owned, IsStore
        <5> QED BY <1>2, <4>3, <5>1 DEF Owned, Tree, t
      <4> QED BY <1>0, <3>1, <4>1, <4>4, PrefixAntisym DEF StartsWith
    <3>3. r[t] = m[t]
      BY <3>1, <3>2
    <3> QED BY <2>1, <2>2, <3>1, <3>3 DEF Fine, LeadsToBranch
  <2>3. CASE m[y].kind # "Extension" \/ m[y].branch # Boxed
    BY <1>2, <2>1, <2>3 DEF AllFine, Fine, LeadsToBranch
  <2> QED BY <2>2, <2>3
<1>3. CASE \E u \in Path : y = to \o u
  <2>1. PICK u \in Path : y = to \o u
    BY <1>3
  <2> DEFINE x == from \o u
  <2>2. x \in DOMAIN m /\ r[y] = m[x]
    BY <2>1
  <2>3. CASE m[x].kind = "Extension" /\ m[x].branch = Boxed
    <3> DEFINE k == m[x].partial_key
    <3>1. k \in Path /\ x \o k \in DOMAIN m /\ m[x \o k].kind = "Branch"
      BY <1>1, <2>2, <2>3, LinkTypes DEF LeadsToBranch
    <3> HIDE DEF k
    <3>2. u \o k \in Path
      BY <3>1, ConcatPath
    <3>3. ASSUME NEW z \in Path PROVE (z \o u) \o k = z \o (u \o k)
      <4>1. u \in Path /\ k \in Path
        BY <2>1, <3>1
      <4> QED BY <4>1, ConcatAssoc
    <3>4. r[y \o k] = m[x \o k]
      <4>1. x \o k = from \o (u \o k) /\ y \o k = to \o (u \o k)
        BY <2>1, <3>3
      <4>2. to \o (u \o k) \in DOMAIN l /\ l[to \o (u \o k)] = m[from \o (u \o k)]
        BY <3>1, <3>2, <4>1
      <4>3. to \o (u \o k) # p
        BY <3>2
      <4> QED BY <4>1, <4>2, <4>3
    <3> QED BY <2>2, <2>3, <3>1, <3>4 DEF Fine, LeadsToBranch, k
  <2>4. CASE m[x].kind # "Extension" \/ m[x].branch # Boxed
    BY <2>2, <2>4 DEF AllFine, Fine, LeadsToBranch
  <2> QED BY <2>3, <2>4
<1> QED BY <1>2, <1>3

\* The arm `1' of Extension::insert: the branch takes the place of the
\* extension, and what was below it moves up.
LEMMA SplitLastNibbleFine ==
  ASSUME NEW m, NEW D, Owned(m, D), NEW d, AllFine(m, d),
         NEW p \in DOMAIN m, m[p].kind = "Extension",
         NEW rest \in Path, NEW v \in Value,
         Len(parse_nibble_slices_shared_portion(m[p].partial_key, rest).rest1) = 1,
         NEW r, r = SplitLastNibble(m, p, rest, v)
  PROVE  AllFine(r, d)
<1> DEFINE pk    == m[p].partial_key
           parts == parse_nibble_slices_shared_portion(pk, rest)
           left  == parts.rest1
           r2    == parts.rest2
           x     == left[1]
           link  == m[p].branch
           from  == p \o pk
           to    == p \o <<x>>
           b     == [NewBranch EXCEPT !.children[x] = link]
           moved == Move(m, from, to)
           one   == With(moved, p, b)
           two   == BranchInsert(one, p, r2, v)
<1>0. r = two
  BY DEF SplitLastNibble
<1>1. pk \in Path /\ p \in Path /\ IsLink(link)
  BY ExtensionParts DEF Owned, IsStore
<1>2. /\ left \in Path /\ r2 \in Path
      /\ left # <<>> /\ r2 # <<>> => x # r2[1]
  BY <1>1, SharedPortion
<1>3. Len(left) = 1
  OBVIOUS
<1>4. link # Empty
  BY LinkTypes DEF AllFine, Fine, LeadsToBranch
<1> HIDE DEF parts, left, r2
<1>5. left # <<>>
  <2>1. left \in Path /\ Len(left) # 0
    BY <1>2, <1>3
  <2> QED BY <2>1, EmptyPath
<1>6. x \in Nibble /\ <<x>> \in Path /\ <<x>> # <<>> /\ <<x>>[1] = x /\ (r2 # <<>> => r2[1] \in Nibble)
  BY <1>2, <1>5, FirstNibble, OneNibble, EmptyPath
<1>7. Shifted(m, p, from, to, moved)
  <2> HIDE DEF x
  <2>1. from = p \o m[p].partial_key /\ to = p \o <<x>> /\ moved = Move(m, from, to)
    OBVIOUS
  <2> HIDE DEF pk, from, to, moved
  <2> QED BY <1>6, <2>1, MoveFootprint
<1>8. IsNode(b) /\ b.kind = "Branch" /\ b.children[x] = link
  <2>1. IsNode(b) /\ b.kind = "Branch" /\ LinkAt(b, <<x>>) = link
    BY <1>1, <1>6, NewBranchNode, SetChild
  <2> HIDE DEF b
  <2> QED BY <2>1, BranchParts, <1>6
<1>9. from \in Path /\ to \in Path /\ StartsWith(to, p) /\ Len(to) = Len(p) + 1 /\ Len(p) \in Nat
  BY <1>1, <1>6, ConcatPath, ConcatPrefix, OneNibble, PathLen
<1> HIDE DEF link, b, from, moved, x
<1>10. ASSUME NEW u \in Path
       PROVE  /\ to \o u # p
              /\ \A i \in Nibble : p \o <<i>> = to \o u => i = x
  <2>1. Len(to \o u) = Len(to) + Len(u) /\ Len(u) \in Nat
    BY <1>9, <1>10, ConcatPath, PathLen
  <2>2. ASSUME NEW i \in Nibble, p \o <<i>> = to \o u PROVE i = x
    <3>1. to \o u = p \o (<<x>> \o u)
      BY <1>1, <1>6, <1>10, ConcatAssoc
    <3>2. <<i>> \in Path /\ <<x>> \o u \in Path /\ <<i>>[1] = i
      BY <1>6, <1>10, ConcatPath, OneNibble
    <3>3. <<i>> = <<x>> \o u
      BY <1>1, <2>2, <3>1, <3>2, ConcatCancel
    <3>4. (<<x>> \o u)[1] = x
      BY <1>6, OneNibble, ConcatPath, PathLen
    <3> QED BY <3>2, <3>3, <3>4
  <2> QED BY <1>9, <2>1, <2>2
<1> HIDE DEF to
<1>11. /\ DOMAIN one = DOMAIN moved \cup {p} /\ one[p] = b
       /\ \A y \in DOMAIN moved : y # p => one[y] = moved[y]
  BY DEF With
<1> HIDE DEF one
<1>12. r2 # <<>> => p \o <<r2[1]>> \notin DOMAIN one
  <2> SUFFICES ASSUME r2 # <<>> PROVE p \o <<r2[1]>> \notin DOMAIN one
    OBVIOUS
  <2>1. r2[1] \in Nibble /\ r2[1] # x
    BY <1>2, <1>5, <1>6 DEF x
  <2>2. p \o <<r2[1]>> # p /\ StartsWith(p \o <<r2[1]>>, p)
    BY <1>1, <2>1, NextDiffers
  <2>3. \A u \in Path : p \o <<r2[1]>> # to \o u
    BY <1>10, <2>1
  <2> QED BY <1>7, <1>11, <2>2, <2>3 DEF Shifted
<1>13. BranchFootprint(one, p, r2, two)
  <2>1. two = BranchInsert(one, p, r2, v) /\ p \in DOMAIN one /\ one[p].kind = "Branch" /\ IsNode(one[p])
    BY <1>8, <1>11
  <2> HIDE DEF two
  <2> QED BY <1>1, <1>2, <1>12, <2>1, BranchInsertFootprint
<1> HIDE DEF two
<1>14. Fine(two[p], p, two, d)
  <2>1. Used(one[p], left)
    BY <1>4, <1>5, <1>8, <1>11 DEF Used, x
  <2>2. Used(two[p], left) /\ Used(two[p], r2) /\ two[p].kind = "Branch"
    BY <1>2, <1>13, <2>1 DEF BranchFootprint
  <2>3. left # <<>> /\ r2 # <<>> => left[1] # r2[1]
    BY <1>2 DEF x
  <2>4. TwoEntries(two[p])
    BY <1>2, <1>5, <2>2, <2>3, PartingEntries
  <2> QED BY <2>2, <2>4 DEF Fine
<1>15. ASSUME NEW y \in DOMAIN moved, y # p PROVE Fine(two[y], y, two, d)
  <2>1. \A z \in DOMAIN moved : z # p => two[z] = moved[z]
    BY <1>11, <1>13 DEF BranchFootprint
  <2> QED BY <1>7, <1>9, <1>10, <1>15, <2>1, ShiftedFine
<1>16. ASSUME NEW y \in DOMAIN two, two[y].kind = "Node" PROVE Fine(two[y], y, two, d)
  BY <1>16 DEF Fine
<1>17. AllFine(two, d)
  BY <1>11, <1>13, <1>14, <1>15, <1>16 DEF BranchFootprint, AllFine
<1> QED BY <1>0, <1>17

-----------------------------------------------------------------------------
(* The steps that change the tree.                                         *)

\* TrieNode::insert at a node that does not hand the key on.
LEMMA InsertAtFine ==
  ASSUME NEW m, NEW D, Owned(m, D), NEW d, AllFine(m, d), NEW p \in DOMAIN m,
         NEW rest \in Path, ~Descends(m[p], rest), NEW v \in Value,
         NEW r, r = InsertAt(m, p, rest, v)
  PROVE  AllFine(r, d)
<1>0. IsNode(m[p]) /\ p \in Path
  BY DEF Owned, IsStore
<1>1. CASE m[p].kind = "Node" /\ m[p].rest_of_key = rest
  <2> DEFINE n == Node(rest, v)
  <2>1. r = With(m, p, n) /\ n.kind = "Node"
    BY <1>1 DEF InsertAt, Node
  <2> HIDE DEF n
  <2>2. DOMAIN r = DOMAIN m /\ r[p] = n /\ \A y \in DOMAIN m : y # p => r[y] = m[y]
    BY <2>1 DEF With
  <2>3. \A y \in DOMAIN m : m[y].kind = "Branch" => r[y].kind = "Branch"
    BY <1>1, <2>2
  <2>4. ASSUME NEW y \in DOMAIN r, y # p PROVE Fine(r[y], y, r, d)
    BY <2>2, <2>3, <2>4, KeptFine
  <2>5. Fine(r[p], p, r, d)
    BY <2>1, <2>2 DEF Fine
  <2> QED BY <2>4, <2>5 DEF AllFine
<1>2. CASE m[p].kind = "Node" /\ m[p].rest_of_key # rest
  <2>1. r = SplitNode(m, p, rest, v)
    BY <1>2 DEF InsertAt
  <2> QED BY <1>2, <2>1, SplitNodeFine
<1>3. CASE m[p].kind = "Extension"
  <2>1. r = SplitExtension(m, p, rest, v)
    BY <1>3 DEF InsertAt
  <2>2. CASE Len(parse_nibble_slices_shared_portion(m[p].partial_key, rest).rest1) = 1
    <3>1. r = SplitLastNibble(m, p, rest, v)
      BY <2>1, <2>2 DEF SplitExtension
    <3> QED BY <1>3, <2>2, <3>1, SplitLastNibbleFine
  <2>3. CASE Len(parse_nibble_slices_shared_portion(m[p].partial_key, rest).rest1) # 1
    <3>1. r = SplitLonger(m, p, rest, v)
      BY <2>1, <2>3 DEF SplitExtension
    <3> QED BY <1>3, <2>3, <3>1, SplitLongerFine
  <2> QED BY <2>2, <2>3
<1>4. CASE m[p].kind = "Branch"
  <2>1. r = BranchInsert(m, p, rest, v)
    BY <1>4 DEF InsertAt
  <2>2. rest = <<>>
    BY <1>4 DEF Descends
  <2>3. BranchFootprint(m, p, rest, r)
    BY <1>0, <1>4, <2>1, <2>2, BranchInsertFootprint
  <2> USE DEF BranchFootprint
  <2>4. DOMAIN r = DOMAIN m
    BY <2>2, <2>3
  <2>5. \A y \in DOMAIN m : m[y].kind = "Branch" => r[y].kind = "Branch"
    BY <2>3
  <2>6. ASSUME NEW y \in DOMAIN r, y # p PROVE Fine(r[y], y, r, d)
    BY <2>3, <2>4, <2>5, <2>6, KeptFine
  <2>7. TwoEntries(m[p])
    BY <1>4 DEF AllFine, Fine
  <2>8. Fine(r[p], p, r, d)
    BY <2>3, <2>7, TwoEntriesKept DEF Fine
  <2> QED BY <2>6, <2>8 DEF AllFine
<1> QED BY <1>0, <1>1, <1>2, <1>3, <1>4, NodeKinds

\* What Relink leaves of the nodes.
Relinked(m, at, link, r) ==
  /\ DOMAIN r = DOMAIN m
  /\ \A y \in DOMAIN m : r[y].kind = m[y].kind
  /\ \A y \in DOMAIN m : m[y].kind = "Extension" =>
       /\ r[y].partial_key = m[y].partial_key
       /\ r[y].branch = IF y \o m[y].partial_key = at THEN link ELSE m[y].branch
  /\ \A y \in DOMAIN m : m[y].kind = "Branch" => \A t \in Path : Used(m[y], t) => Used(r[y], t)

\* That is what it leaves.
LEMMA RelinkFootprint ==
  ASSUME NEW m, IsStore(m), DOMAIN m \subseteq Path,
         NEW at \in Path, NEW link, IsLink(link), link # Empty,
         NEW r, r = Relink(m, at, link)
  PROVE  Relinked(m, at, link, r)
<1>1. /\ IsStore(r) /\ DOMAIN r = DOMAIN m
      /\ \A y \in DOMAIN m :
           /\ Slots(r[y]) = Slots(m[y])
           /\ \A s \in Slots(m[y]) :
                LinkAt(r[y], s) = IF y \o s = at THEN link ELSE LinkAt(m[y], s)
  BY RelinkProperties
<1>2. ASSUME NEW y \in DOMAIN m
      PROVE  r[y] = m[y] \/ \E s \in Path : r[y] = SetLink(m[y], s, link)
  <2>1. r[y] = IF StartsWith(at, y) THEN SetLink(m[y], Drop(at, Len(y)), link) ELSE m[y]
    BY DEF Relink
  <2>2. y \in Path
    OBVIOUS
  <2>3. StartsWith(at, y) => Drop(at, Len(y)) \in Path
    BY <2>2, PrefixDrop
  <2> QED BY <2>1, <2>3
<1>3. ASSUME NEW y \in DOMAIN m PROVE r[y].kind = m[y].kind
  BY <1>2, <1>3, SetLinkProperties DEF IsStore
<1>4. ASSUME NEW y \in DOMAIN m, m[y].kind = "Extension"
      PROVE  /\ r[y].partial_key = m[y].partial_key
             /\ r[y].branch = IF y \o m[y].partial_key = at THEN link ELSE m[y].branch
  <2>1. /\ Slots(m[y]) = {m[y].partial_key} /\ LinkAt(m[y], m[y].partial_key) = m[y].branch
        /\ Slots(r[y]) = {r[y].partial_key} /\ LinkAt(r[y], r[y].partial_key) = r[y].branch
    BY <1>1, <1>3, <1>4, ExtensionParts DEF IsStore
  <2> QED BY <1>1, <2>1
<1>5. ASSUME NEW y \in DOMAIN m, m[y].kind = "Branch", NEW t \in Path, Used(m[y], t)
      PROVE  Used(r[y], t)
  <2>1. CASE t = <<>>
    <3>1. r[y].value = m[y].value
      <4>1. ASSUME NEW s, r[y] = SetLink(m[y], s, link) PROVE r[y].value = m[y].value
        <5>1. m[y] = Branch(m[y].children, m[y].value)
          BY <1>5, BranchParts DEF IsStore
        <5>2. r[y] = m[y] \/ r[y] = [m[y] EXCEPT !.children[s[1]] = link]
          BY <1>5, <4>1 DEF SetLink
        <5> QED BY <5>1, <5>2 DEF Branch
      <4> QED BY <1>2, <4>1
    <3> QED BY <1>5, <2>1, <3>1 DEF Used
  <2>2. CASE t # <<>>
    <3>1. t[1] \in Nibble /\ m[y].children[t[1]] # Empty
      BY <1>5, <2>2, FirstNibble DEF Used
    <3>2. /\ <<t[1]>> \in Slots(m[y]) /\ LinkAt(m[y], <<t[1]>>) = m[y].children[t[1]]
          /\ LinkAt(r[y], <<t[1]>>) = r[y].children[t[1]]
      <4>1. IsNode(m[y]) /\ IsNode(r[y]) /\ m[y].kind = "Branch" /\ r[y].kind = "Branch"
        BY <1>1, <1>3, <1>5 DEF IsStore
      <4>2. /\ <<t[1]>> \in Slots(m[y]) /\ LinkAt(m[y], <<t[1]>>) = m[y].children[t[1]]
        BY <3>1, <4>1, BranchParts
      <4>3. LinkAt(r[y], <<t[1]>>) = r[y].children[t[1]]
        BY <3>1, <4>1, BranchParts
      <4> QED BY <4>2, <4>3
    <3>3. r[y].children[t[1]] # Empty
      BY <1>1, <3>1, <3>2
    <3> QED BY <2>2, <3>3 DEF Used
  <2> QED BY <2>1, <2>2
<1> QED BY <1>1, <1>3, <1>4, <1>5 DEF Relinked

\* A link of the tree belongs to one node.
LEMMA LinkAbove ==
  ASSUME NEW m, NEW D, Owned(m, D), NEW p \in DOMAIN m, NEW q \in DOMAIN m,
         NEW s \in Slots(m[p]), NEW t \in Slots(m[q]), p \o s = q \o t
  PROVE  ~(Len(p) < Len(q))
<1> SUFFICES ASSUME Len(p) < Len(q) PROVE FALSE
  OBVIOUS
<1> DEFINE at == p \o s
<1>1. /\ p \in Path /\ q \in Path /\ s \in Path /\ t \in Path /\ at \in Path
      /\ Len(at) = Len(p) + Len(s) /\ Len(at) > Len(q)
      /\ StartsWith(at, p) /\ StartsWith(at, q)
      /\ Len(p) \in Nat /\ Len(q) \in Nat /\ Len(s) \in Nat
  <2>1. p \in Path /\ q \in Path /\ s \in Path /\ t \in Path /\ Len(t) > 0
    BY NodeSlots DEF Owned, IsStore
  <2>2. /\ p \o s \in Path /\ Len(p \o s) = Len(p) + Len(s)
        /\ Len(q \o t) = Len(q) + Len(t)
        /\ StartsWith(p \o s, p) /\ StartsWith(q \o t, q)
        /\ Len(p) \in Nat /\ Len(q) \in Nat /\ Len(s) \in Nat /\ Len(t) \in Nat
    BY <2>1, ConcatPath, ConcatPrefix, PathLen
  <2> QED BY <2>1, <2>2
<1> HIDE DEF at
<1>2. StartsWith(q, p) /\ q # p
  BY <1>1, PrefixLinear
<1>3. PICK u \in Slots(m[p]) : LinkAt(m[p], u) = Boxed /\ StartsWith(q, p \o u)
  BY <1>2 DEF Owned, Tree
<1>4. u \in Path /\ Len(u) = Len(s)
  BY NodeSlots DEF Owned, IsStore
<1>5. Len(p \o u) = Len(p) + Len(u)
  BY <1>1, <1>4, ConcatPath
<1>6. Len(p \o u) <= Len(q)
  BY <1>3 DEF StartsWith
<1> QED BY <1>1, <1>4, <1>5, <1>6

\* Each link belongs to one node.
LEMMA OneLink ==
  ASSUME NEW m, NEW D, Owned(m, D), NEW p \in DOMAIN m, NEW q \in DOMAIN m,
         NEW s \in Slots(m[p]), NEW t \in Slots(m[q]), p \o s = q \o t
  PROVE  p = q /\ s = t
<1>1. p \in Path /\ q \in Path /\ s \in Path /\ t \in Path
  BY NodeSlots DEF Owned, IsStore
<1>2. Len(p) \in Nat /\ Len(q) \in Nat
  BY <1>1, PathLen
<1>3. ~(Len(p) < Len(q)) /\ ~(Len(q) < Len(p))
  BY LinkAbove
<1>4. p \o s \in Path /\ StartsWith(p \o s, p) /\ StartsWith(p \o s, q)
  BY <1>1, ConcatPath, ConcatPrefix
<1>5. Len(q) <= Len(p) /\ Len(p) <= Len(q)
  BY <1>2, <1>3
<1>6. StartsWith(q, p)
  BY <1>1, <1>4, <1>5, PrefixLinear
<1>7. p = q
  BY <1>1, <1>5, <1>6, PrefixAntisym
<1> QED BY <1>1, <1>7, ConcatCancel

\* A node that took the place of a hash of such a node, or of nothing.
LEMMA AttachFine ==
  ASSUME NEW m, NEW D, Owned(m, D), NEW d, AllFine(m, d),
         NEW top, NEW at \in Path, at \notin DOMAIN m,
         NEW link, link # Boxed, LinkOf(m, top, at, link),
         NEW n, FineAlone(n, d), IsHash(link) => n.kind = d[link.hash].kind,
         NEW r, r = With(Relink(m, at, Boxed), at, n)
  PROVE  AllFine(r, d)
<1> DEFINE l == Relink(m, at, Boxed)
<1>1. Relinked(m, at, Boxed, l)
  BY RelinkFootprint, LinkTypes DEF Owned
<1> HIDE DEF l
<1>2. /\ DOMAIN r = DOMAIN m \cup {at} /\ r[at] = n
      /\ \A y \in DOMAIN m : r[y] = l[y]
  BY <1>1 DEF With, l, Relinked
<1> USE DEF Relinked
<1>3. ASSUME NEW y \in DOMAIN m, m[y].kind = "Extension" PROVE Fine(r[y], y, r, d)
  <2> DEFINE pk == m[y].partial_key
             t  == y \o pk
  <2>1. /\ Slots(m[y]) = {pk} /\ LinkAt(m[y], pk) = m[y].branch
        /\ LeadsToBranch(m[y].branch, t, m, d)
    BY <1>3, ExtensionParts DEF AllFine, Fine, Owned, IsStore
  <2>2. m[y].branch = Boxed => t \in DOMAIN m
    BY <2>1 DEF Owned, Tree
  <2>3. r[y].kind = "Extension" /\ r[y].partial_key = pk /\ r[y].branch = IF t = at THEN Boxed ELSE m[y].branch
    BY <1>1, <1>2, <1>3
  <2>4. y \o r[y].partial_key = t
    BY <2>3
  <2>5. CASE t = at
    <3>1. m[y].branch = link
      <4>1. CASE at = <<>>
        <5>1. y \in Path /\ pk \in Path /\ pk # <<>>
          BY <1>3, ExtensionParts DEF Owned, IsStore
        <5>2. Len(t) = Len(y) + Len(pk) /\ Len(y) \in Nat /\ Len(pk) \in Nat \ {0}
          BY <5>1, ConcatPath, PathLen, EmptyPath
        <5>3. Len(at) = 0
          BY <4>1, EmptyPath
        <5> QED BY <2>5, <5>2, <5>3
      <4>2. CASE at # <<>>
        <5>1. PICK q \in DOMAIN m : \E s \in Slots(m[q]) : at = q \o s /\ link = LinkAt(m[q], s)
          BY <4>2 DEF LinkOf
        <5>2. PICK s \in Slots(m[q]) : at = q \o s /\ link = LinkAt(m[q], s)
          BY <5>1
        <5>3. q = y /\ s = pk
          <6>1. pk \in Slots(m[y]) /\ q \o s = y \o pk
            BY <2>1, <2>5, <5>2
          <6> HIDE DEF pk
          <6> QED BY <6>1, OneLink, SMTT(30)
        <5> QED BY <2>1, <5>2, <5>3
      <4> QED BY <4>1, <4>2
    <3>2. n.kind = "Branch"
      BY <2>1, <3>1 DEF LeadsToBranch
    <3> QED BY <1>2, <2>3, <2>4, <2>5, <3>2 DEF Fine, LeadsToBranch
  <2>6. CASE t # at
    <3>1. m[y].branch = Boxed => r[t].kind = "Branch"
      BY <1>1, <1>2, <2>1, <2>2, LinkTypes DEF LeadsToBranch
    <3>2. LeadsToBranch(m[y].branch, t, r, d)
      BY <2>1, <3>1 DEF LeadsToBranch
    <3> QED BY <2>3, <2>4, <2>6, <3>2 DEF Fine
  <2> QED BY <2>5, <2>6
<1>4. ASSUME NEW y \in DOMAIN m, m[y].kind # "Extension" PROVE Fine(r[y], y, r, d)
  <2>1. r[y].kind = m[y].kind
    BY <1>1, <1>2
  <2>2. m[y].kind = "Branch" => TwoEntries(r[y])
    BY <1>1, <1>2, TwoEntriesKept DEF AllFine, Fine
  <2> QED BY <1>4, <2>1, <2>2 DEF Fine
<1>5. Fine(r[at], at, r, d)
  BY <1>2 DEF Fine, FineAlone, LeadsToBranch
<1> QED BY <1>2, <1>3, <1>4, <1>5 DEF AllFine

\* A database that keeps what it has.
Grows(d, e) == \A h \in DOMAIN d : h \in DOMAIN e /\ e[h] = d[h]

\* A node that gave way to its digest.
LEMMA DetachFine ==
  ASSUME NEW m, NEW d, Owned(m, DOMAIN d), AllFine(m, d),
         NEW p \in DOMAIN m, NEW h,
         NEW e, Grows(d, e), e[h] = m[p],
         NEW r, r = Relink([q \in DOMAIN m \ {p} |-> m[q]], p, HashLink(h))
  PROVE  AllFine(r, e)
<1> DEFINE l == [q \in DOMAIN m \ {p} |-> m[q]]
<1>0. IsStore(l) /\ DOMAIN l = DOMAIN m \ {p} /\ DOMAIN l \subseteq Path /\ p \in Path
      /\ \A q \in DOMAIN l : l[q] = m[q]
  BY DEF Owned, IsStore
<1>1. Relinked(l, p, HashLink(h), r)
  <2> HIDE DEF l
  <2>1. r = Relink(l, p, HashLink(h))
    BY DEF l
  <2> QED BY <1>0, <2>1, RelinkFootprint, LinkTypes
<1> HIDE DEF l
<1> USE DEF Relinked
<1>2. DOMAIN r = DOMAIN m \ {p}
  BY <1>0, <1>1
<1>3. ASSUME NEW y \in DOMAIN r, m[y].kind = "Extension" PROVE Fine(r[y], y, r, e)
  <2> DEFINE pk == m[y].partial_key
             t  == y \o pk
  <2>1. /\ y \in DOMAIN m /\ pk \in Slots(m[y]) /\ LinkAt(m[y], pk) = m[y].branch
        /\ LeadsToBranch(m[y].branch, t, m, d) /\ IsLink(m[y].branch)
    BY <1>2, <1>3, ExtensionParts DEF AllFine, Fine, Owned, IsStore
  <2>2. /\ m[y].branch = Boxed => t \in DOMAIN m
        /\ IsHash(m[y].branch) => m[y].branch.hash \in DOMAIN d
    BY <2>1, OwnedBySlots DEF Tree
  <2>3. r[y].kind = "Extension" /\ r[y].partial_key = pk
        /\ r[y].branch = IF t = p THEN HashLink(h) ELSE m[y].branch
    BY <1>0, <1>1, <1>3
  <2>4. CASE t = p
    <3>1. m[y].branch = Boxed
      BY <1>0, <2>1, <2>4, NothingBelow, PrefixRefl
    <3>2. m[p].kind = "Branch"
      BY <2>1, <2>4, <3>1, LinkTypes DEF LeadsToBranch
    <3> QED BY <2>3, <2>4, <3>2, LinkTypes DEF Fine, LeadsToBranch
  <2>5. CASE t # p
    <3>1. m[y].branch = Boxed => r[t].kind = "Branch"
      <4> SUFFICES ASSUME m[y].branch = Boxed PROVE r[t].kind = "Branch"
        OBVIOUS
      <4>1. t \in DOMAIN l /\ m[t].kind = "Branch"
        BY <1>0, <2>1, <2>2, <2>5, LinkTypes DEF LeadsToBranch
      <4> QED BY <1>0, <1>1, <4>1
    <3>2. IsHash(m[y].branch) => e[m[y].branch.hash] = d[m[y].branch.hash]
      BY <2>2 DEF Grows
    <3>3. LeadsToBranch(m[y].branch, t, r, e)
      BY <2>1, <3>1, <3>2 DEF LeadsToBranch
    <3> QED BY <2>3, <2>5, <3>3 DEF Fine
  <2> QED BY <2>4, <2>5
<1>4. ASSUME NEW y \in DOMAIN r, m[y].kind # "Extension" PROVE Fine(r[y], y, r, e)
  <2>1. y \in DOMAIN m /\ r[y].kind = m[y].kind
    BY <1>0, <1>1, <1>2
  <2>2. m[y].kind = "Branch" => TwoEntries(m[y]) /\ \A t \in Path : Used(m[y], t) => Used(r[y], t)
    BY <1>0, <1>1, <2>1 DEF AllFine, Fine
  <2>3. m[y].kind = "Branch" => TwoEntries(r[y])
    BY <2>2, TwoEntriesKept
  <2> QED BY <1>4, <2>1, <2>3 DEF Fine
<1> QED BY <1>3, <1>4 DEF AllFine

\* What was fine by itself stays so when the database grows.
LEMMA GrownFine ==
  ASSUME NEW d, NEW n, Childless(n, DOMAIN d), FineAlone(n, d), NEW e, Grows(d, e)
  PROVE  FineAlone(n, e)
<1>1. n.kind = "Extension" => n.branch \in Links(n)
  BY ExtensionParts DEF Links, Childless
<1>2. n.kind = "Extension" => n.branch.hash \in DOMAIN d
  BY <1>1 DEF Childless, FineAlone
<1> QED BY <1>2 DEF FineAlone, Grows

\* A boxed node without boxed children is fine by itself.
LEMMA ChildlessFine ==
  ASSUME NEW m, NEW d, NEW D, NEW p \in DOMAIN m, AllFine(m, d), Childless(m[p], D)
  PROVE  FineAlone(m[p], d)
<1>1. m[p].kind = "Extension" => m[p].branch # Boxed
  BY ExtensionParts DEF Links, Childless
<1> QED BY <1>1 DEF AllFine, Fine, FineAlone, LeadsToBranch

-----------------------------------------------------------------------------
(* The invariant.                                                          *)

\* A trie without nodes.
LEMMA InitShape ==
  ASSUME Init
  PROVE  ShapeInv
BY EmptyStore DEF Init, ShapeInv, AllFine, StoreFine

\* A step that leaves the boxed nodes and the database alone, or drops the
\* boxed nodes.
LEMMA SameShape ==
  ASSUME ShapeInv, mem' = mem \/ mem' = NoNodes, UNCHANGED db
  PROVE  ShapeInv'
<1>1. StoreFine(db')
  BY DEF ShapeInv
<1>2. AllFine(mem', db')
  <2>1. CASE mem' = mem
    BY <2>1 DEF ShapeInv
  <2>2. CASE mem' = NoNodes
    BY <2>2, EmptyStore DEF AllFine
  <2> QED BY <2>1, <2>2
<1> QED BY <1>1, <1>2 DEF ShapeInv

\* A step of insert that ends at a link without a boxed node.
LEMMA AttachStep ==
  ASSUME IndInv, ShapeInv, call.op = "insert", call.link # Boxed,
         NEW n, FineAlone(n, db), IsHash(call.link) => n.kind = db[call.link.hash].kind,
         mem' = With(Relink(mem, call.at, Boxed), call.at, n), UNCHANGED db
  PROVE  ShapeInv'
<1>1. /\ Owned(mem, DOMAIN db) /\ call.at \in Path
      /\ LinkOf(mem, call.top, call.at, call.link)
      /\ call.top # Boxed => DOMAIN mem = {}
  BY Inserting
<1>2. call.at \notin DOMAIN mem
  <2>1. CASE call.at = <<>> /\ call.link = call.top
    BY <1>1, <2>1
  <2>2. CASE ~(call.at = <<>> /\ call.link = call.top)
    <3>1. PICK p \in DOMAIN mem : \E s \in Slots(mem[p]) :
                 call.at = p \o s /\ call.link = LinkAt(mem[p], s)
      BY <1>1, <2>2 DEF LinkOf
    <3>2. PICK s \in Slots(mem[p]) : call.at = p \o s /\ call.link = LinkAt(mem[p], s)
      BY <3>1
    <3> QED BY <1>1, <3>2, NothingBelow, PrefixRefl
  <2> QED BY <2>1, <2>2
<1>3. AllFine(mem', db)
  BY <1>1, <1>2, AttachFine DEF ShapeInv
<1> QED BY <1>3 DEF ShapeInv

\* collapse writes a node that is fine by itself, and keeps what was written.
LEMMA CollapseShape ==
  ASSUME IndInv, ShapeInv, CollapseNode
  PROVE  ShapeInv'
<1>1. PICK p \in Collapsible(mem) :
        /\ db' = With(db, Hash(mem[p]), mem[p])
        /\ mem' = Relink([q \in DOMAIN mem \ {p} |-> mem[q]], p, HashLink(Hash(mem[p])))
  BY DEF CollapseNode, Written
<1> DEFINE n == mem[p]
           h == Hash(n)
<1>2. Owned(mem, DOMAIN db) /\ p \in DOMAIN mem /\ Childless(n, DOMAIN db)
  BY DEF CollapseNode, Collapsible, IndInv, TreeInv, Owned, IsStore, Childless
<1>3. Grows(db, db') /\ db'[h] = n /\ DOMAIN db' = DOMAIN db \cup {h}
  <2>1. ASSUME NEW g \in DOMAIN db, g = h PROVE db[g] = n
    <3>1. g = Hash(db[g])
      BY DEF IndInv, StoreInv, StoreClosed
    <3>2. g.blake2 = db[g] /\ h.blake2 = n
      BY <3>1 DEF Hash
    <3> QED BY <2>1, <3>2
  <2> QED BY <1>1, <2>1 DEF With, Grows
<1>4. AllFine(mem', db')
  <2> HIDE DEF h
  <2>1. mem' = Relink([q \in DOMAIN mem \ {p} |-> mem[q]], p, HashLink(h))
    BY <1>1 DEF h
  <2> QED BY <1>2, <1>3, <2>1, DetachFine DEF ShapeInv
<1>5. ASSUME NEW g \in DOMAIN db' PROVE FineAlone(db'[g], db')
  <2>1. CASE g = h
    <3>1. FineAlone(n, db)
      BY <1>2, ChildlessFine DEF ShapeInv
    <3> HIDE DEF h, n
    <3> QED BY <1>2, <1>3, <2>1, <3>1, GrownFine
  <2>2. CASE g # h
    <3> HIDE DEF h
    <3>1. g \in DOMAIN db /\ db'[g] = db[g]
      BY <1>3, <2>2 DEF Grows
    <3>2. Childless(db[g], DOMAIN db)
      BY <3>1, StoredChildless DEF IndInv
    <3>3. FineAlone(db[g], db)
      BY <3>1 DEF ShapeInv, StoreFine
    <3> QED BY <1>3, <3>1, <3>2, <3>3, GrownFine
  <2> QED BY <2>1, <2>2
<1> QED BY <1>4, <1>5 DEF ShapeInv, StoreFine

\* Every step keeps the shape of the nodes.
LEMMA ShapeInductive ==
  ASSUME IndInv, ShapeInv, [Next]_vars
  PROVE  ShapeInv'
<1>1. CASE InsertIntoEmpty
  <2> DEFINE n == Node(Rest, call.value)
  <2>1. /\ call.op = "insert" /\ call.link = Empty
        /\ mem' = With(Relink(mem, call.at, Boxed), call.at, n) /\ UNCHANGED db
    BY <1>1 DEF InsertIntoEmpty, FinishInsert
  <2>2. FineAlone(n, db)
    BY DEF Node, FineAlone
  <2> HIDE DEF n
  <2> QED BY <2>1, <2>2, LinkTypes, AttachStep
<1>2. CASE InsertLoad
  <2> DEFINE n == db[call.link.hash]
  <2>1. /\ call.op = "insert" /\ IsHash(call.link) /\ call.link.hash \in DOMAIN db
        /\ mem' = With(Relink(mem, call.at, Boxed), call.at, n) /\ UNCHANGED db
    BY <1>2 DEF InsertLoad
  <2>2. FineAlone(n, db) /\ n.kind = db[call.link.hash].kind
    BY <2>1 DEF ShapeInv, StoreFine
  <2> HIDE DEF n
  <2> QED BY <2>1, <2>2, LinkTypes, AttachStep
<1>3. CASE InsertHere
  <2> DEFINE r == InsertAt(mem, call.at, Rest, call.value)
  <2>1. /\ call.op = "insert" /\ call.link = Boxed /\ ~Descends(mem[call.at], Rest)
        /\ mem' = r /\ UNCHANGED db
    BY <1>3 DEF InsertHere, FinishInsert
  <2>2. /\ call.at \in DOMAIN mem /\ Rest \in Path /\ call.value \in Value
        /\ Owned(mem, DOMAIN db)
    BY <2>1, Inserting
  <2>3. AllFine(r, db)
    BY <2>1, <2>2, InsertAtFine DEF ShapeInv
  <2> HIDE DEF r
  <2> QED BY <2>1, <2>3 DEF ShapeInv
<1>4. CASE CollapseNode
  BY <1>4, CollapseShape
<1>5. ASSUME NEW k, NEW v, Insert(k, v) PROVE ShapeInv'
  BY <1>5, SameShape DEF Insert
<1>6. ASSUME NEW k, GetValue(k) PROVE ShapeInv'
  BY <1>6, SameShape DEF GetValue
<1>7. ASSUME NEW h, NEW k, GetProof(h, k) PROVE ShapeInv'
  BY <1>7, SameShape DEF GetProof, StartCommit
<1>8. ASSUME NEW h, Revert(h) PROVE ShapeInv'
  BY <1>8, SameShape DEF Revert
<1>9. CASE Commit \/ VerifyProof \/ Restart \/ InsertUnserializable
  BY <1>9, SameShape DEF Commit, StartCommit, VerifyProof, Restart, InsertUnserializable
<1>10. CASE InsertDescend \/ InsertFails \/ FinishCommit \/ CommitFails \/ Resume
  BY <1>10, SameShape DEF InsertDescend, InsertFails, FinishCommit, CommitFails, Resume
<1>11. CASE ReadDescend \/ ReadHere \/ ReadEmpty \/ ReadNoRoot \/ ReadFails
  BY <1>11, SameShape DEF ReadDescend, ReadHere, ReadEmpty, ReadNoRoot, ReadFails, Return
<1>12. CASE UNCHANGED vars
  BY <1>12, SameShape DEF vars
<1> QED BY <1>1, <1>2, <1>3, <1>4, <1>5, <1>6, <1>7, <1>8, <1>9, <1>10, <1>11, <1>12 DEF Next, Step

\* The invariant is what the runs check.
LEMMA ShapeInvImplies ==
  ASSUME IndInv, ShapeInv
  PROVE  NodesWellShaped
<1>1. ASSUME NEW n, IsNode(n), NEW at,
             n.kind = "Extension" => ToBranch(n.branch, at \o n.partial_key),
             n.kind = "Branch" => TwoEntries(n)
      PROVE  WellShaped(n, at)
  <2>1. CASE n.kind = "Node"
    BY <2>1 DEF WellShaped
  <2>2. CASE n.kind = "Extension"
    BY <1>1, <2>2 DEF WellShaped
  <2>3. CASE n.kind = "Branch"
    BY <1>1, <2>3, TwoEntriesIs DEF WellShaped
  <2> QED BY <1>1, <2>1, <2>2, <2>3, NodeKinds
<1>2. ASSUME NEW p \in DOMAIN mem PROVE WellShaped(mem[p], p)
  <2>1. IsNode(mem[p])
    BY DEF IndInv, TreeInv, Owned, IsStore
  <2>2. /\ mem[p].kind = "Extension" => ToBranch(mem[p].branch, p \o mem[p].partial_key)
        /\ mem[p].kind = "Branch" => TwoEntries(mem[p])
    BY DEF ShapeInv, AllFine, Fine, LeadsToBranch, ToBranch
  <2> QED BY <1>1, <2>1, <2>2
<1>3. ASSUME NEW h \in DOMAIN db PROVE WellShaped(db[h], <<>>)
  <2>1. IsNode(db[h])
    BY DEF IndInv, StoreInv, IsStore
  <2>2. /\ db[h].kind = "Extension" => ToBranch(db[h].branch, <<>> \o db[h].partial_key)
        /\ db[h].kind = "Branch" => TwoEntries(db[h])
    BY DEF ShapeInv, StoreFine, FineAlone, ToBranch
  <2> QED BY <1>1, <2>1, <2>2
<1> QED BY <1>2, <1>3 DEF NodesWellShaped

\* The shape holds in every state.
LEMMA ShapeInvHolds == Spec => []ShapeInv
<1>1. Init => ShapeInv
  BY InitShape
<1>2. IndInv /\ ShapeInv /\ [Next]_vars => ShapeInv'
  BY ShapeInductive
<1> QED BY <1>1, <1>2, IndInvHolds, PTL DEF Spec

\* However keys part and rejoin, and whatever fails between two writes, no
\* extension ever leads to a leaf, to another extension or nowhere, and no
\* branch is left with a single entry, boxed or stored.
THEOREM NodesAlwaysWellShaped == Spec => []NodesWellShaped
<1>1. IndInv /\ ShapeInv => NodesWellShaped
  BY ShapeInvImplies
<1> QED BY <1>1, IndInvHolds, ShapeInvHolds, PTL
=============================================================================
