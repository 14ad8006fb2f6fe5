---------------------------- MODULE PromiseProofs ----------------------------
(***************************************************************************)
(* The trie implements VersionedMap, as long as no insertion splits an     *)
(* extension below a shared prefix with one nibble left of it: loads and   *)
(* writes of collapse change no contents, an insertion changes those of    *)
(* its key only, and a commit publishes what the trie held.  And a map has *)
(* one root hash: two stored nodes that hold the same are one node.        *)
(***************************************************************************)
EXTENDS ContentsProofs, ShapeProofs

-----------------------------------------------------------------------------
(* What an insertion leaves.                                               *)

\* A path does not start with a longer one, nor with another slot.
LEMMA NotBelow ==
  ASSUME NEW p \in Path, NEW s \in Path, s # <<>>
  PROVE  ~StartsWith(p, p \o s) /\ p # p \o s
<1>1. Len(p) \in Nat /\ Len(s) \in Nat /\ Len(s) # 0 /\ Len(p \o s) = Len(p) + Len(s)
  BY PathLen, ConcatPath, EmptyPath
<1>2. ~(Len(p \o s) <= Len(p))
  <2>1. PICK a, b, c : a = Len(p) /\ b = Len(s) /\ c = Len(p \o s)
    OBVIOUS
  <2> QED BY <1>1, <2>1
<1> QED BY <1>2, PrefixRefl, PathLen DEF StartsWith

\* A path through one nibble is not below another.
LEMMA SlotsApart ==
  ASSUME NEW q \in Path, NEW x \in Nibble, NEW y \in Nibble, x # y
  PROVE  ~StartsWith(q \o <<x>>, q \o <<y>>)
<1>1. <<x>> \in Path /\ <<y>> \in Path /\ Len(<<y>>) = 1 /\ <<x>>[1] = x /\ <<y>>[1] = y
  BY OneNibble
<1>2. ~StartsWith(<<x>>, <<y>>)
  BY <1>1 DEF StartsWith
<1> QED BY <1>1, <1>2, PrefixConcat

\* Only the node that is stored differs.
LEMMA WithSame ==
  ASSUME NEW m, NEW p, NEW n, NEW q, p # q
  PROVE  SameAt(m, With(m, p, n), q)
BY DEF SameAt, With

\* What two stores share with a third at q they share.
LEMMA SameTrans ==
  ASSUME NEW m, NEW f, NEW r, NEW q, SameAt(m, f, q), SameAt(f, r, q)
  PROVE  SameAt(m, r, q)
BY DEF SameAt

\* What the branch at q holds when the child a key selects is empty and the
\* key is inserted: its value for that key, and nothing else new.
LEMMA BranchInsertHolds ==
  ASSUME NEW m, IsStore(m), NEW q \in DOMAIN m, q \in Path, m[q].kind = "Branch",
         NEW rest \in Path, NEW v \in Value, rest # <<>> => m[q].children[rest[1]] = Empty,
         NEW r, r = BranchInsert(m, q, rest, v), NEW d, IsStore(d)
  PROVE  /\ IsStore(r)
         /\ \A t \in Path : ~StartsWith(t, q) => SameAt(m, r, t)
         /\ q \in DOMAIN r /\ r[q].kind = "Branch"
         /\ \A i \in Nibble : (rest # <<>> => i # rest[1]) => r[q].children[i] = m[q].children[i]
         /\ \A y \in Path : Under(Boxed, q, r, d, y) = IF y = rest THEN v ELSE Under(Boxed, q, m, d, y)
<1> DEFINE n == m[q]
<1>1. /\ IsNode(n) /\ n.kind = "Branch" /\ n = Branch(n.children, n.value)
      /\ n.children = [i \in Nibble |-> n.children[i]]
      /\ \A i \in Nibble : IsLink(n.children[i])
  BY BranchParts DEF IsStore
<1>2. Resolves(Boxed, q, m, d) /\ n = Resolve(Boxed, q, m, d)
  BY DEF Resolves, Resolve
<1> HIDE DEF n
<1>3. /\ Under(Boxed, q, m, d, <<>>) = n.value
      /\ \A i \in Nibble : \A z \in Path :
           Under(Boxed, q, m, d, <<i>> \o z) = Under(n.children[i], q \o <<i>>, m, d, z)
  BY <1>1, <1>2, UnderBranch
<1>4. CASE rest = <<>>
  <2> DEFINE b == [n EXCEPT !.value = v]
  <2>1. b = Branch(n.children, v)
    BY <1>1 DEF Branch
  <2>2. IsNode(b) /\ b.kind = "Branch" /\ b.children = n.children /\ b.value = v
    BY <1>1, <2>1, BranchNode
  <2>3. r = With(m, q, b)
    BY <1>4 DEF BranchInsert, n
  <2> HIDE DEF b
  <2>4. IsStore(r) /\ q \in DOMAIN r /\ r[q] = b
    <3>1. IsStore(With(m, q, b))
      BY <2>2, WithType
    <3> QED BY <2>3, <3>1 DEF With
  <2>5. \A t \in Path : t # q => SameAt(m, r, t)
    BY <2>3, WithSame
  <2>6. Resolves(Boxed, q, r, d) /\ b = Resolve(Boxed, q, r, d)
    BY <2>4 DEF Resolves, Resolve
  <2>7. /\ Under(Boxed, q, r, d, <<>>) = b.value
        /\ \A i \in Nibble : \A z \in Path :
             Under(Boxed, q, r, d, <<i>> \o z) = Under(b.children[i], q \o <<i>>, r, d, z)
    BY <2>2, <2>6, UnderBranch
  <2>8. ASSUME NEW i \in Nibble, NEW z \in Path
        PROVE  Under(Boxed, q, r, d, <<i>> \o z) = Under(Boxed, q, m, d, <<i>> \o z)
    <3>1. <<i>> \in Path /\ <<i>> # <<>> /\ q \o <<i>> \in Path
      BY OneNibble, EmptyPath, ConcatPath
    <3>2. ASSUME NEW t \in Path, StartsWith(t, q \o <<i>>) PROVE SameAt(m, r, t)
      BY <2>5, <3>1, <3>2, NotBelow
    <3>3. Under(n.children[i], q \o <<i>>, r, d, z) = Under(n.children[i], q \o <<i>>, m, d, z)
      BY <2>4, <3>1, <3>2, SameUnder
    <3> QED BY <1>3, <2>2, <2>7, <3>3
  <2>9. ASSUME NEW y \in Path
        PROVE  Under(Boxed, q, r, d, y) = IF y = rest THEN v ELSE Under(Boxed, q, m, d, y)
    <3>1. CASE y = <<>>
      BY <1>4, <2>2, <2>7, <3>1
    <3>2. ASSUME y # <<>>, NEW i \in Nibble, NEW z \in Path, y = <<i>> \o z
          PROVE  Under(Boxed, q, r, d, y) = Under(Boxed, q, m, d, y)
      BY <2>8, <3>2
    <3> QED BY <1>4, <3>1, <3>2, PathCases
  <2>10. \A t \in Path : ~StartsWith(t, q) => SameAt(m, r, t)
    BY <2>5, PrefixRefl
  <2> QED BY <2>2, <2>4, <2>9, <2>10 DEF n
<1>5. CASE rest # <<>>
  <2>1. PICK x \in Nibble, left \in Path :
          x = rest[1] /\ left = Drop(rest, 1) /\ rest = <<x>> \o left
    BY <1>5, FirstNibble
  <2> DEFINE b == [n EXCEPT !.children[x] = Boxed]
             leaf == Node(left, v)
             c == q \o <<x>>
  <2>2. /\ IsNode(b) /\ b.kind = "Branch"
        /\ <<x>> \in Slots(b) /\ LinkAt(b, <<x>>) = Boxed
        /\ \A i \in Nibble : i # x => b.children[i] = n.children[i]
    BY <1>1, LinkTypes, SetChild
  <2>3. b.value = n.value /\ b.children[x] = Boxed
    BY <1>1
  <2>4. IsNode(leaf) /\ leaf.kind = "Node" /\ leaf.rest_of_key = left /\ leaf.value = v
    BY LeafNode DEF Node
  <2>5. r = With(With(m, q, b), c, leaf)
    BY <1>5, <2>1 DEF BranchInsert, n
  <2>6. <<x>> \in Path /\ <<x>> # <<>> /\ c \in Path /\ q # c /\ StartsWith(c, q)
    BY OneNibble, EmptyPath, ConcatPath, NotBelow, ConcatPrefix
  <2> HIDE DEF b, leaf, c
  <2>7. /\ IsStore(r) /\ q \in DOMAIN r /\ r[q] = b /\ c \in DOMAIN r /\ r[c] = leaf
    <3>1. IsStore(With(m, q, b))
      BY <2>2, WithType
    <3>2. IsStore(r)
      BY <2>4, <2>5, <3>1, WithType
    <3> QED BY <2>5, <2>6, <3>2 DEF With
  <2>8. ASSUME NEW t \in Path, t # q, t # c PROVE SameAt(m, r, t)
    <3>1. SameAt(m, With(m, q, b), t) /\ SameAt(With(m, q, b), r, t)
      BY <2>5, <2>8, WithSame
    <3> QED BY <3>1, SameTrans
  <2>9. /\ Resolves(Boxed, q, r, d) /\ b = Resolve(Boxed, q, r, d)
        /\ Resolves(Boxed, c, r, d) /\ leaf = Resolve(Boxed, c, r, d)
    BY <2>7 DEF Resolves, Resolve
  <2>10. /\ Under(Boxed, q, r, d, <<>>) = b.value
         /\ \A i \in Nibble : \A z \in Path :
              Under(Boxed, q, r, d, <<i>> \o z) = Under(b.children[i], q \o <<i>>, r, d, z)
    BY <2>2, <2>9, UnderBranch
  <2>11. ASSUME NEW i \in Nibble, i # x, NEW z \in Path
         PROVE  Under(Boxed, q, r, d, <<i>> \o z) = Under(Boxed, q, m, d, <<i>> \o z)
    <3>1. <<i>> \in Path /\ <<i>> # <<>> /\ q \o <<i>> \in Path
      BY OneNibble, EmptyPath, ConcatPath
    <3>2. ASSUME NEW t \in Path, StartsWith(t, q \o <<i>>) PROVE SameAt(m, r, t)
      <4>1. t # q
        BY <3>1, <3>2, NotBelow
      <4>2. t # c
        BY <2>11, <3>2, SlotsApart DEF c
      <4> QED BY <2>8, <4>1, <4>2
    <3>3. Under(n.children[i], q \o <<i>>, r, d, z) = Under(n.children[i], q \o <<i>>, m, d, z)
      BY <2>7, <3>1, <3>2, SameUnder
    <3> QED BY <1>3, <2>2, <2>10, <2>11, <3>3
  <2>12. ASSUME NEW z \in Path
         PROVE  Under(Boxed, q, r, d, <<x>> \o z)
                  = IF z = left THEN v ELSE Under(Boxed, q, m, d, <<x>> \o z)
    <3>1. Under(Boxed, c, r, d, z) = IF z = left THEN v ELSE None
      BY <2>4, <2>6, <2>9, UnderLeaf
    <3>2. Under(Boxed, q, r, d, <<x>> \o z) = Under(Boxed, c, r, d, z)
      BY <2>3, <2>10 DEF c
    <3>3. n.children[x] = Empty
      BY <1>5, <2>1 DEF n
    <3>4. Under(Empty, c, m, d, z) = None
      BY <2>6, UnderHere
    <3>5. Under(Boxed, q, m, d, <<x>> \o z) = None
      BY <1>3, <3>3, <3>4 DEF c
    <3> QED BY <3>1, <3>2, <3>5
  <2>13. \A i \in Nibble : \A z \in Path : <<i>> \o z = rest <=> i = x /\ z = left
    <3>1. ASSUME NEW i \in Nibble, NEW z \in Path, <<i>> \o z = rest PROVE i = x /\ z = left
      <4>1. /\ <<i>> \in Path /\ Len(<<i>>) = 1 /\ <<i>>[1] = i
            /\ <<x>> \in Path /\ Len(<<x>>) = 1 /\ <<x>>[1] = x
        BY OneNibble
      <4>2. (<<i>> \o z)[1] = i
        BY <4>1, ConcatPath, PathLen
      <4>3. i = x /\ <<x>> \o z = <<x>> \o left
        BY <2>1, <3>1, <4>2
      <4> QED BY <2>1, <3>1, <4>1, <4>3, ConcatCancel
    <3> QED BY <2>1, <3>1
  <2>14. ASSUME NEW y \in Path
         PROVE  Under(Boxed, q, r, d, y) = IF y = rest THEN v ELSE Under(Boxed, q, m, d, y)
    <3>1. CASE y = <<>>
      BY <1>3, <1>5, <2>3, <2>10, <3>1
    <3>2. ASSUME NEW i \in Nibble, NEW z \in Path, y = <<i>> \o z
          PROVE  Under(Boxed, q, r, d, y) = IF y = rest THEN v ELSE Under(Boxed, q, m, d, y)
      BY <2>11, <2>12, <2>13, <3>2
    <3> QED BY <3>1, <3>2, PathCases
  <2>15. \A t \in Path : ~StartsWith(t, q) => SameAt(m, r, t)
    BY <2>6, <2>8, PrefixRefl
  <2>16. \A i \in Nibble : i # rest[1] => r[q].children[i] = n.children[i]
    BY <2>1, <2>2, <2>7
  <2> QED BY <1>5, <2>2, <2>7, <2>14, <2>15, <2>16 DEF n
<1> QED BY <1>4, <1>5

\* What PlaceBranch leaves: b at p \o s, below an extension for s.
HasBranch(m, p, s, b, r) ==
  /\ IsStore(r) /\ p \o s \in DOMAIN r /\ r[p \o s] = b
  /\ s # <<>> => p \in DOMAIN r /\ r[p] = Extension(s, Boxed)
  /\ \A t \in Path : t # p /\ t # p \o s => SameAt(m, r, t)

\* PlaceBranch does so.
LEMMA PlaceNode ==
  ASSUME NEW m, IsStore(m), NEW p \in Path, NEW s \in Path, NEW b, IsNode(b),
         NEW r, r = PlaceBranch(m, p, s, b)
  PROVE  HasBranch(m, p, s, b, r)
<1>0. PICK q : q = p \o s
  OBVIOUS
<1>1. q \in Path /\ StartsWith(q, p)
  BY <1>0, ConcatPath, ConcatPrefix
<1>2. CASE s = <<>>
  <2>1. r = With(m, q, b)
    BY <1>0, <1>2, ConcatEmpty DEF PlaceBranch
  <2>2. IsStore(r)
    BY <2>1, WithType
  <2>3. \A t \in Path : t # q => SameAt(m, r, t)
    BY <2>1, WithSame
  <2>4. q \in DOMAIN r /\ r[q] = b
    BY <2>1 DEF With
  <2> QED BY <1>0, <1>1, <1>2, <2>2, <2>3, <2>4 DEF HasBranch
<1>3. CASE s # <<>>
  <2> DEFINE x == Extension(s, Boxed)
             f == With(m, p, x)
  <2>1. r = With(f, q, b)
    BY <1>0, <1>3 DEF PlaceBranch
  <2>2. IsNode(x)
    BY <1>3, ExtensionNode, LinkTypes
  <2>3. IsStore(f)
    BY <2>2, WithType
  <2>4. IsStore(r)
    BY <2>1, <2>3, WithType
  <2>5. p # q
    BY <1>0, <1>3, NotBelow
  <2>6. ASSUME NEW t \in Path, t # p, t # q PROVE SameAt(m, r, t)
    <3>1. SameAt(m, f, t) /\ SameAt(f, r, t)
      BY <2>1, <2>6, WithSame
    <3> QED BY <3>1, SameTrans
  <2>7. q \in DOMAIN r /\ r[q] = b /\ p \in DOMAIN r /\ r[p] = x
    BY <2>1, <2>5 DEF With
  <2> QED BY <1>0, <2>4, <2>6, <2>7 DEF HasBranch
<1> QED BY <1>2, <1>3

\* A branch below an extension for s holds what it holds for keys that start
\* with s, and nothing for the others.
LEMMA PlaceHolds ==
  ASSUME NEW p \in Path, NEW s \in Path, NEW r, NEW d,
         s # <<>> => p \in DOMAIN r /\ r[p] = Extension(s, Boxed)
  PROVE  Carries(Boxed, p, r, s, Boxed, p \o s, r, d)
<1>1. CASE s = <<>>
  <2>1. p \o s = p /\ \A z \in Path : s \o z = z /\ StartsWith(z, s)
    BY <1>1, ConcatEmpty, PrefixRefl
  <2> QED BY <2>1 DEF Carries
<1>2. CASE s # <<>>
  <2>1. PICK n : n = Extension(s, Boxed)
    OBVIOUS
  <2>2. IsNode(n) /\ n.kind = "Extension" /\ n.partial_key = s /\ n.branch = Boxed
    BY <1>2, <2>1, ExtensionNode, LinkTypes
  <2>3. LeadsTo(Boxed, p, r, d, n)
    BY <1>2, <2>1 DEF Resolves, Resolve, LeadsTo
  <2>4. Carries(Boxed, p, r, n.partial_key, n.branch, p \o n.partial_key, r, d)
    BY <2>2, <2>3, UnderExtension
  <2> QED BY <2>2, <2>4
<1> QED BY <1>1, <1>2

\* What is at p in r is what is there in m, but v for `rest'.
Gets(p, m, rest, v, r, d) ==
  \A y \in Path : Under(Boxed, p, r, d, y) = IF y = rest THEN v ELSE Under(Boxed, p, m, d, y)

\* What the place at q gets for b, the one at p gets for s and b.
LEMMA SplitHolds ==
  ASSUME NEW p \in Path, NEW s \in Path, NEW q, NEW b \in Path, NEW v, NEW m, NEW f, NEW r, NEW d,
         Carries(Boxed, p, r, s, Boxed, q, r, d), Carries(Boxed, p, m, s, Boxed, q, f, d),
         Gets(q, f, b, v, r, d)
  PROVE  Gets(p, m, s \o b, v, r, d)
<1> SUFFICES ASSUME NEW y \in Path
             PROVE  Under(Boxed, p, r, d, y) = IF y = s \o b THEN v ELSE Under(Boxed, p, m, d, y)
  BY DEF Gets
<1>1. ASSUME NEW z \in Path, y = s \o z
      PROVE  Under(Boxed, p, r, d, y) = IF y = s \o b THEN v ELSE Under(Boxed, p, m, d, y)
  <2>1. /\ Under(Boxed, p, r, d, y) = Under(Boxed, q, r, d, z)
        /\ Under(Boxed, p, m, d, y) = Under(Boxed, q, f, d, z)
    BY <1>1 DEF Carries
  <2>2. y = s \o b <=> z = b
    BY <1>1, ConcatCancel
  <2>3. Under(Boxed, q, r, d, z) = IF z = b THEN v ELSE Under(Boxed, q, f, d, z)
    BY DEF Gets
  <2> QED BY <2>1, <2>2, <2>3
<1>2. ASSUME ~StartsWith(y, s)
      PROVE  Under(Boxed, p, r, d, y) = IF y = s \o b THEN v ELSE Under(Boxed, p, m, d, y)
  <2>1. Under(Boxed, p, r, d, y) = None /\ Under(Boxed, p, m, d, y) = None
    BY <1>2 DEF Carries
  <2>2. y # s \o b
    <3>1. StartsWith(s \o b, s)
      BY ConcatPrefix
    <3> QED BY <1>2, <3>1
  <2> QED BY <2>1, <2>2
<1>3. StartsWith(y, s) => \E z \in Path : y = s \o z
  BY PrefixDrop
<1> QED BY <1>1, <1>2, <1>3

\* The insertion is done at p: nothing elsewhere, the value for the rest of its
\* key, and what was held for every other.
Inserted(m, p, rest, v, r, d) ==
  /\ IsStore(r) /\ p \in DOMAIN r
  /\ \A t \in Path : ~StartsWith(t, p) => SameAt(m, r, t)
  /\ Gets(p, m, rest, v, r, d)

\* f has a branch at p \o s, below an extension for s, that holds what m does
\* at p, and the child that b selects is empty.
Split(m, p, s, b, f, d) ==
  /\ IsStore(f) /\ p \o s \in DOMAIN f /\ f[p \o s].kind = "Branch"
  /\ s # <<>> => p \in DOMAIN f /\ f[p] = Extension(s, Boxed)
  /\ \A t \in Path : ~StartsWith(t, p) => SameAt(m, f, t)
  /\ b # <<>> => f[p \o s].children[b[1]] = Empty
  /\ Carries(Boxed, p, m, s, Boxed, p \o s, f, d)

\* The last step of a split: the branch gets the inserted key.
LEMMA SplitEnds ==
  ASSUME NEW m, NEW p \in Path, NEW s \in Path, NEW b \in Path, NEW f, NEW d, IsStore(d),
         Split(m, p, s, b, f, d), NEW v \in Value, NEW r, r = BranchInsert(f, p \o s, b, v)
  PROVE  Inserted(m, p, s \o b, v, r, d)
<1>0. PICK q \in Path : q = p \o s
  BY ConcatPath
<1>1. /\ IsStore(r)
      /\ \A t \in Path : ~StartsWith(t, q) => SameAt(f, r, t)
      /\ q \in DOMAIN r
      /\ Gets(q, f, b, v, r, d)
  BY <1>0, BranchInsertHolds DEF Split, Gets
<1>2. s # <<>> => p \in DOMAIN r /\ r[p] = Extension(s, Boxed)
  <2>1. s # <<>> => ~StartsWith(p, q)
    BY <1>0, NotBelow
  <2> QED BY <1>1, <2>1 DEF SameAt, Split
<1>3. p \in DOMAIN r
  <2>1. s = <<>> => q = p
    BY <1>0, ConcatEmpty
  <2> QED BY <1>1, <1>2, <2>1
<1>4. ASSUME NEW t \in Path, ~StartsWith(t, p) PROVE SameAt(m, r, t)
  <2>1. StartsWith(q, p)
    BY <1>0, ConcatPrefix
  <2>2. ~StartsWith(t, q)
    BY <1>4, <2>1, PrefixTrans
  <2>3. SameAt(m, f, t) /\ SameAt(f, r, t)
    BY <1>1, <1>4, <2>2 DEF Split
  <2> QED BY <2>3, SameTrans
<1>5. Gets(p, m, s \o b, v, r, d)
  <2>1. Carries(Boxed, p, r, s, Boxed, p \o s, r, d)
    BY <1>2, PlaceHolds
  <2>2. Carries(Boxed, p, m, s, Boxed, q, f, d)
    BY <1>0 DEF Split
  <2> QED BY <1>0, <1>1, <2>1, <2>2, SplitHolds
<1> QED BY <1>1, <1>3, <1>4, <1>5 DEF Inserted

-----------------------------------------------------------------------------
(* The arms of an insertion.                                               *)

\* What lies below two prefixes, one after the other.
LEMMA CarriesOn ==
  ASSUME NEW d, NEW s1 \in Path, NEW s2 \in Path,
         NEW l1, NEW p1, NEW m1, NEW l2, NEW p2, NEW m2, NEW l3, NEW p3, NEW m3,
         Carries(l1, p1, m1, s1, l2, p2, m2, d), Carries(l2, p2, m2, s2, l3, p3, m3, d)
  PROVE  Carries(l1, p1, m1, s1 \o s2, l3, p3, m3, d)
<1>1. ASSUME NEW z \in Path PROVE Under(l1, p1, m1, d, (s1 \o s2) \o z) = Under(l3, p3, m3, d, z)
  <2>1. s2 \o z \in Path /\ (s1 \o s2) \o z = s1 \o (s2 \o z)
    BY ConcatPath, ConcatAssoc, ZenonT(30)
  <2>2. Under(l1, p1, m1, d, s1 \o (s2 \o z)) = Under(l2, p2, m2, d, s2 \o z)
    BY <2>1 DEF Carries
  <2>3. Under(l2, p2, m2, d, s2 \o z) = Under(l3, p3, m3, d, z)
    BY DEF Carries
  <2> QED BY <2>1, <2>2, <2>3
<1>2. ASSUME NEW y \in Path, ~StartsWith(y, s1 \o s2) PROVE Under(l1, p1, m1, d, y) = None
  <2>1. CASE ~StartsWith(y, s1)
    BY <2>1 DEF Carries
  <2>2. CASE StartsWith(y, s1)
    <3>1. PICK z \in Path : y = s1 \o z
      BY <2>2, PrefixDrop
    <3>2. ~StartsWith(z, s2)
      BY <1>2, <3>1, PrefixConcat
    <3>3. Under(l1, p1, m1, d, s1 \o z) = Under(l2, p2, m2, d, z)
      BY DEF Carries
    <3>4. Under(l2, p2, m2, d, z) = None
      BY <3>2 DEF Carries
    <3> QED BY <3>1, <3>3, <3>4
  <2> QED BY <2>1, <2>2
<1> QED BY <1>1, <1>2 DEF Carries

\* What two places share below what one of them has more.
LEMMA CarriesCut ==
  ASSUME NEW d, NEW s1 \in Path, NEW s2 \in Path,
         NEW l1, NEW p1, NEW m1, NEW l2, NEW p2, NEW m2, NEW l3, NEW p3, NEW m3,
         Carries(l1, p1, m1, s1 \o s2, l3, p3, m3, d), Carries(l2, p2, m2, s2, l3, p3, m3, d)
  PROVE  Carries(l1, p1, m1, s1, l2, p2, m2, d)
<1>1. ASSUME NEW z \in Path PROVE Under(l1, p1, m1, d, s1 \o z) = Under(l2, p2, m2, d, z)
  <2>1. CASE StartsWith(z, s2)
    <3>1. PICK w \in Path : z = s2 \o w
      BY <2>1, PrefixDrop
    <3>2. (s1 \o s2) \o w = s1 \o z
      BY <3>1, ConcatAssoc
    <3>3. Under(l1, p1, m1, d, (s1 \o s2) \o w) = Under(l3, p3, m3, d, w)
      BY DEF Carries
    <3>4. Under(l2, p2, m2, d, s2 \o w) = Under(l3, p3, m3, d, w)
      BY DEF Carries
    <3> QED BY <3>1, <3>2, <3>3, <3>4
  <2>2. CASE ~StartsWith(z, s2)
    <3>1. ~StartsWith(s1 \o z, s1 \o s2) /\ s1 \o z \in Path
      BY <2>2, PrefixConcat, ConcatPath
    <3>2. Under(l1, p1, m1, d, s1 \o z) = None
      BY <3>1 DEF Carries
    <3>3. Under(l2, p2, m2, d, z) = None
      BY <2>2 DEF Carries
    <3> QED BY <3>2, <3>3
  <2> QED BY <2>1, <2>2
<1>2. ASSUME NEW y \in Path, ~StartsWith(y, s1) PROVE Under(l1, p1, m1, d, y) = None
  <2>1. ~StartsWith(y, s1 \o s2)
    <3>1. s1 \o s2 \in Path /\ StartsWith(s1 \o s2, s1)
      BY ConcatPath, ConcatPrefix
    <3> QED BY <1>2, <3>1, PrefixTrans
  <2> QED BY <2>1 DEF Carries
<1> QED BY <1>1, <1>2 DEF Carries

\* A branch that has the link under x and nothing else.
OnlyUnder(n, x, link) ==
  /\ IsNode(n) /\ n.kind = "Branch" /\ n.value = None /\ n.children[x] = link
  /\ \A i \in Nibble : i # x => n.children[i] = Empty

\* It holds what that child does.
LEMMA OnlyChild ==
  ASSUME NEW q \in Path, NEW f, NEW d, NEW n, NEW x \in Nibble, NEW link, OnlyUnder(n, x, link),
         LeadsTo(Boxed, q, f, d, n)
  PROVE  Carries(Boxed, q, f, <<x>>, link, q \o <<x>>, f, d)
<1>0. /\ IsNode(n) /\ n.kind = "Branch" /\ n.value = None /\ n.children[x] = link
      /\ \A i \in Nibble : i # x => n.children[i] = Empty
  BY DEF OnlyUnder
<1>1. /\ Under(Boxed, q, f, d, <<>>) = None
      /\ \A i \in Nibble : \A z \in Path :
           Under(Boxed, q, f, d, <<i>> \o z) = Under(n.children[i], q \o <<i>>, f, d, z)
  BY <1>0, UnderBranch DEF LeadsTo
<1>2. ASSUME NEW y \in Path, ~StartsWith(y, <<x>>) PROVE Under(Boxed, q, f, d, y) = None
  <2>1. ASSUME NEW i \in Nibble, NEW z \in Path, y = <<i>> \o z
        PROVE  Under(Boxed, q, f, d, y) = None
    <3>1. <<i>> \in Path /\ StartsWith(<<i>> \o z, <<i>>) /\ q \o <<i>> \in Path
      BY OneNibble, ConcatPrefix, ConcatPath
    <3>2. i # x
      BY <1>2, <2>1, <3>1
    <3>3. Under(Empty, q \o <<i>>, f, d, z) = None
      BY <3>1, UnderHere
    <3> QED BY <1>0, <1>1, <2>1, <3>2, <3>3
  <2> QED BY <1>1, <2>1, PathCases
<1> QED BY <1>0, <1>1, <1>2 DEF Carries

\* A new branch holds nothing, and with one child it has no other.
LEMMA NewBranchHolds ==
  ASSUME NEW q \in Path, NEW f, NEW d, LeadsTo(Boxed, q, f, d, NewBranch), NEW z \in Path
  PROVE  Under(Boxed, q, f, d, z) = None
<1>1. PICK n : n = NewBranch
  OBVIOUS
<1>2. IsNode(n) /\ n.kind = "Branch" /\ n.value = None /\ \A i \in Nibble : n.children[i] = Empty
  <2>1. NewBranch.value = None
    BY DEF NewBranch, Branch
  <2> QED BY <1>1, <2>1, NewBranchNode
<1>3. /\ Under(Boxed, q, f, d, <<>>) = None
      /\ \A i \in Nibble : \A w \in Path :
           Under(Boxed, q, f, d, <<i>> \o w) = Under(n.children[i], q \o <<i>>, f, d, w)
  BY <1>1, <1>2, UnderBranch DEF LeadsTo
<1>4. ASSUME NEW i \in Nibble, NEW w \in Path PROVE Under(Boxed, q, f, d, <<i>> \o w) = None
  <2>1. q \o <<i>> \in Path
    BY OneNibble, ConcatPath
  <2>2. Under(Empty, q \o <<i>>, f, d, w) = None
    BY <2>1, UnderHere
  <2> QED BY <1>2, <1>3, <2>2
<1>5. z = <<>> \/ \E i \in Nibble : \E w \in Path : z = <<i>> \o w
  BY PathCases
<1>6. ASSUME NEW i \in Nibble, NEW w \in Path, z = <<i>> \o w PROVE Under(Boxed, q, f, d, z) = None
  BY <1>4, <1>6
<1>7. CASE z = <<>>
  BY <1>3, <1>7
<1> QED BY <1>5, <1>6, <1>7

\* That is what a new branch with one link set is.
LEMMA OneChildBranch ==
  ASSUME NEW x \in Nibble, NEW link, IsLink(link), NEW n, n = [NewBranch EXCEPT !.children[x] = link]
  PROVE  OnlyUnder(n, x, link)
<1>1. IsNode(n) /\ n.kind = "Branch" /\ \A i \in Nibble : i # x => n.children[i] = Empty
  <2>1. OneChild(n, x, link)
    BY BranchOver
  <2> QED BY <2>1 DEF OneChild
<1>2. n.value = None /\ n.children[x] = link
  BY DEF NewBranch, Branch
<1> QED BY <1>1, <1>2 DEF OnlyUnder

\* Insertion overwrites a leaf of the same key.
LEMMA OverwriteHolds ==
  ASSUME NEW m, IsStore(m), NEW p \in DOMAIN m, p \in Path, m[p].kind = "Node",
         NEW v \in Value, NEW d, NEW rest, rest = m[p].rest_of_key,
         NEW r, r = With(m, p, Node(rest, v))
  PROVE  Inserted(m, p, rest, v, r, d)
<1>1. PICK n : n = m[p] /\ IsNode(n) /\ n.kind = "Node" /\ n.rest_of_key = rest /\ rest \in Path
  BY LeafParts DEF IsStore
<1>2. PICK c : c = Node(rest, v) /\ IsNode(c) /\ c.kind = "Node" /\ c.rest_of_key = rest /\ c.value = v
  BY <1>1, LeafNode DEF Node
<1>3. IsStore(r)
  BY <1>2, WithType
<1>4. p \in DOMAIN r /\ r[p] = c
  BY <1>2 DEF With
<1>5. ASSUME NEW t \in Path, ~StartsWith(t, p) PROVE SameAt(m, r, t)
  BY <1>5, PrefixRefl, WithSame
<1>6. ASSUME NEW y \in Path
      PROVE  Under(Boxed, p, r, d, y) = IF y = rest THEN v ELSE Under(Boxed, p, m, d, y)
  <2>1. Resolves(Boxed, p, m, d) /\ n = Resolve(Boxed, p, m, d)
    BY <1>1 DEF Resolves, Resolve
  <2>2. Resolves(Boxed, p, r, d) /\ c = Resolve(Boxed, p, r, d)
    BY <1>4 DEF Resolves, Resolve
  <2>3. Under(Boxed, p, m, d, y) = IF y = rest THEN n.value ELSE None
    BY <1>1, <2>1, UnderLeaf
  <2>4. Under(Boxed, p, r, d, y) = IF y = rest THEN v ELSE None
    BY <1>2, <2>2, UnderLeaf
  <2> QED BY <2>3, <2>4
<1> QED BY <1>3, <1>4, <1>5, <1>6 DEF Inserted, Gets

\* A leaf split from a key: the branch gets the leaf first.
LEMMA LeafSplit ==
  ASSUME NEW m, IsStore(m), NEW p \in DOMAIN m, p \in Path, m[p].kind = "Node",
         NEW s \in Path, NEW a \in Path, m[p].rest_of_key = s \o a,
         NEW b \in Path, a # <<>> /\ b # <<>> => a[1] # b[1], NEW d, IsStore(d),
         NEW q, q = p \o s, NEW fresh, fresh = PlaceBranch(m, p, s, NewBranch),
         NEW one, one = BranchInsert(fresh, q, a, m[p].value)
  PROVE  Split(m, p, s, b, one, d)
<1>1. PICK n : n = m[p] /\ IsNode(n) /\ n.kind = "Node" /\ n.rest_of_key = s \o a /\ n.value \in Value
  BY LeafParts DEF IsStore
<1>2. /\ IsStore(fresh) /\ q \in DOMAIN fresh /\ fresh[q] = NewBranch /\ q \in Path /\ StartsWith(q, p)
      /\ s # <<>> => p \in DOMAIN fresh /\ fresh[p] = Extension(s, Boxed) /\ ~StartsWith(p, q)
      /\ \A t \in Path : t # p /\ t # q => SameAt(m, fresh, t)
  <2>1. HasBranch(m, p, s, NewBranch, fresh)
    BY NewBranchNode, PlaceNode
  <2>2. q \in Path /\ StartsWith(q, p) /\ (s # <<>> => ~StartsWith(p, q))
    BY ConcatPath, ConcatPrefix, NotBelow
  <2> QED BY <2>1, <2>2 DEF HasBranch
<1>3. fresh[q].kind = "Branch" /\ \A i \in Nibble : fresh[q].children[i] = Empty
  BY <1>2, NewBranchNode
<1>4. a # <<>> => fresh[q].children[a[1]] = Empty
  BY <1>3, FirstNibble
<1>5. /\ IsStore(one)
      /\ \A t \in Path : ~StartsWith(t, q) => SameAt(fresh, one, t)
      /\ q \in DOMAIN one /\ one[q].kind = "Branch"
      /\ \A i \in Nibble : (a # <<>> => i # a[1]) => one[q].children[i] = fresh[q].children[i]
      /\ Gets(q, fresh, a, n.value, one, d)
  <2>1. PICK w \in Value : w = n.value /\ one = BranchInsert(fresh, q, a, w)
    BY <1>1
  <2>2. /\ IsStore(one)
        /\ \A t \in Path : ~StartsWith(t, q) => SameAt(fresh, one, t)
        /\ q \in DOMAIN one /\ one[q].kind = "Branch"
        /\ \A i \in Nibble : (a # <<>> => i # a[1]) => one[q].children[i] = fresh[q].children[i]
        /\ \A y \in Path : Under(Boxed, q, one, d, y) = IF y = a THEN w ELSE Under(Boxed, q, fresh, d, y)
    BY <1>2, <1>3, <1>4, <2>1, BranchInsertHolds
  <2> QED BY <2>1, <2>2 DEF Gets
<1>6. s # <<>> => p \in DOMAIN one /\ one[p] = Extension(s, Boxed)
  BY <1>2, <1>5 DEF SameAt
<1>7. ASSUME NEW t \in Path, ~StartsWith(t, p) PROVE SameAt(m, one, t)
  <2>1. ~StartsWith(t, q) /\ t # p /\ t # q
    BY <1>2, <1>7, PrefixRefl, PrefixTrans
  <2>2. SameAt(m, fresh, t) /\ SameAt(fresh, one, t)
    BY <1>2, <1>5, <2>1
  <2> QED BY <2>2, SameTrans
<1>8. b # <<>> => one[q].children[b[1]] = Empty
  <2>1. b # <<>> => b[1] \in Nibble
    BY FirstNibble
  <2> QED BY <1>3, <1>5, <2>1
<1>9. Carries(Boxed, p, m, s, Boxed, q, one, d)
  <2>1. ASSUME NEW y \in Path PROVE Under(Boxed, p, m, d, y) = IF y = s \o a THEN n.value ELSE None
    <3>1. Resolves(Boxed, p, m, d) /\ n = Resolve(Boxed, p, m, d)
      BY <1>1 DEF Resolves, Resolve
    <3>2. Under(Boxed, p, m, d, y) = IF y = n.rest_of_key THEN n.value ELSE None
      BY <1>1, <3>1, UnderLeaf
    <3> QED BY <1>1, <3>2
  <2>2. ASSUME NEW z \in Path PROVE Under(Boxed, p, m, d, s \o z) = Under(Boxed, q, one, d, z)
    <3>1. Under(Boxed, q, fresh, d, z) = None
      <4>1. LeadsTo(Boxed, q, fresh, d, NewBranch)
        BY <1>2 DEF LeadsTo, Resolves, Resolve
      <4> QED BY <1>2, <4>1, NewBranchHolds
    <3>2. Under(Boxed, q, one, d, z) = IF z = a THEN n.value ELSE None
      BY <1>5, <3>1 DEF Gets
    <3>3. s \o z = s \o a <=> z = a
      BY ConcatCancel
    <3>4. s \o z \in Path
      BY ConcatPath
    <3>5. Under(Boxed, p, m, d, s \o z) = IF s \o z = s \o a THEN n.value ELSE None
      BY <2>1, <3>4
    <3> QED BY <3>2, <3>3, <3>5
  <2>3. ASSUME NEW y \in Path, ~StartsWith(y, s) PROVE Under(Boxed, p, m, d, y) = None
    <3>1. y # s \o a
      <4>1. StartsWith(s \o a, s)
        BY ConcatPrefix
      <4> QED BY <2>3, <4>1
    <3> QED BY <2>1, <3>1
  <2> QED BY <2>2, <2>3 DEF Carries
<1> QED BY <1>2, <1>5, <1>6, <1>7, <1>8, <1>9 DEF Split

\* Insertion splits a leaf of another key.
LEMMA SplitNodeHolds ==
  ASSUME NEW m, IsStore(m), NEW p \in DOMAIN m, p \in Path, m[p].kind = "Node",
         NEW rest \in Path, NEW v \in Value, NEW d, IsStore(d),
         NEW r, r = SplitNode(m, p, rest, v)
  PROVE  Inserted(m, p, rest, v, r, d)
<1> DEFINE parts == parse_nibble_slices_shared_portion(m[p].rest_of_key, rest)
<1>1. m[p].rest_of_key \in Path
  BY LeafParts DEF IsStore
<1>2. /\ parts.shared \in Path /\ parts.rest1 \in Path /\ parts.rest2 \in Path
      /\ m[p].rest_of_key = parts.shared \o parts.rest1 /\ rest = parts.shared \o parts.rest2
      /\ parts.rest1 # <<>> /\ parts.rest2 # <<>> => parts.rest1[1] # parts.rest2[1]
  BY <1>1, SharedPortion
<1>3. PICK s, a, b, q, fresh, one :
        /\ s = parts.shared /\ a = parts.rest1 /\ b = parts.rest2 /\ q = p \o s
        /\ fresh = PlaceBranch(m, p, s, NewBranch)
        /\ one = BranchInsert(fresh, q, a, m[p].value)
  OBVIOUS
<1>4. r = BranchInsert(one, p \o s, b, v)
  BY <1>3 DEF SplitNode
<1> HIDE DEF parts
<1>5. s \in Path /\ a \in Path /\ b \in Path
      /\ m[p].rest_of_key = s \o a /\ rest = s \o b
      /\ (a # <<>> /\ b # <<>> => a[1] # b[1])
      /\ q = p \o s /\ fresh = PlaceBranch(m, p, s, NewBranch)
      /\ one = BranchInsert(fresh, q, a, m[p].value)
  BY <1>2, <1>3
<1>6. Split(m, p, s, b, one, d)
  BY <1>5, LeafSplit
<1>7. Inserted(m, p, s \o b, v, r, d)
  BY <1>4, <1>5, <1>6, SplitEnds
<1> QED BY <1>5, <1>7

\* Paths may be put together in any grouping, four of them, and three with a
\* nibble between.
LEMMA ConcatFour ==
  \A p, s, i, t \in Path : ((p \o s) \o i) \o t = p \o (s \o (i \o t))
<1> SUFFICES ASSUME NEW p \in Path, NEW s \in Path, NEW i \in Path, NEW t \in Path
             PROVE  ((p \o s) \o i) \o t = p \o (s \o (i \o t))
  OBVIOUS
<1>1. PICK u \in Path, w \in Path : u = i \o t /\ w = p \o s
  BY ConcatPath
<1>2. (w \o i) \o t = w \o (i \o t)
  BY ConcatAssoc, SMTT(30)
<1>3. (p \o s) \o u = p \o (s \o u)
  BY ConcatAssoc, SMTT(30)
<1> QED BY <1>1, <1>2, <1>3

\* The same with a nibble for the third of them.
LEMMA ConcatSlot ==
  \A p, s, t \in Path : \A x \in Nibble : ((p \o s) \o <<x>>) \o t = p \o (s \o (<<x>> \o t))
<1> SUFFICES ASSUME NEW p \in Path, NEW s \in Path, NEW t \in Path, NEW x \in Nibble
             PROVE  ((p \o s) \o <<x>>) \o t = p \o (s \o (<<x>> \o t))
  OBVIOUS
<1>1. \A a, i, c \in Path : ((p \o a) \o i) \o c = p \o (a \o (i \o c))
  BY ConcatFour
<1>2. \A i, c \in Path : ((p \o s) \o i) \o c = p \o (s \o (i \o c))
  BY <1>1
<1>3. \A i \in Path : ((p \o s) \o i) \o t = p \o (s \o (i \o t))
  BY <1>2
<1> QED BY <1>3, OneNibble

\* The branch put where a partial key parts from the key, with the rest of the
\* partial key below it.
LEMMA LongerSplit ==
  ASSUME NEW m, IsStore(m), NEW p \in DOMAIN m, p \in Path, m[p].kind = "Extension",
         NEW s \in Path, NEW x \in Nibble, NEW t \in Path, t # <<>>,
         m[p].partial_key = s \o (<<x>> \o t),
         NEW b \in Path, b # <<>> => b[1] # x, NEW d, IsStore(d),
         NEW n1, OnlyUnder(n1, x, Boxed), NEW fresh, HasBranch(m, p, s, n1, fresh),
         NEW f, f = With(fresh, (p \o s) \o <<x>>, Extension(t, m[p].branch))
  PROVE  Split(m, p, s, b, f, d)
<1>1. PICK n, link : /\ n = m[p] /\ link = n.branch /\ IsNode(n) /\ n.kind = "Extension"
                     /\ n.partial_key = s \o (<<x>> \o t) /\ IsLink(link)
  BY ExtensionParts DEF IsStore
<1>2. n1.kind = "Branch" /\ \A i \in Nibble : i # x => n1.children[i] = Empty
  BY DEF OnlyUnder
<1>3. PICK e : /\ e = Extension(t, link) /\ IsNode(e) /\ e.kind = "Extension"
               /\ e.partial_key = t /\ e.branch = link
  BY <1>1, ExtensionNode
<1>4. <<x>> \in Path /\ <<x>> # <<>> /\ <<x>> \o t \in Path /\ s \o (<<x>> \o t) \in Path
  BY OneNibble, EmptyPath, ConcatPath
<1>5. PICK q \in Path, c \in Path, g \in Path :
        q = p \o s /\ c = q \o <<x>> /\ g = c \o t /\ g = p \o (s \o (<<x>> \o t))
  <2>1. PICK q \in Path : q = p \o s
    BY ConcatPath
  <2>2. PICK c \in Path : c = q \o <<x>>
    BY <1>4, ConcatPath
  <2>3. PICK g \in Path : g = c \o t
    BY ConcatPath
  <2>4. \A a, w \in Path : \A i \in Nibble : ((p \o a) \o <<i>>) \o w = p \o (a \o (<<i>> \o w))
    BY ConcatSlot
  <2>6. \A w \in Path : \A i \in Nibble : ((p \o s) \o <<i>>) \o w = p \o (s \o (<<i>> \o w))
    BY <2>4
  <2>5. ((p \o s) \o <<x>>) \o t = p \o (s \o (<<x>> \o t))
    BY <2>6
  <2> QED BY <2>1, <2>2, <2>3, <2>5
<1>6. StartsWith(q, p) /\ StartsWith(c, q) /\ StartsWith(g, c) /\ q # c /\ p # c
  <2>1. StartsWith(q, p) /\ StartsWith(c, q) /\ StartsWith(g, c)
    BY <1>4, <1>5, ConcatPrefix
  <2>2. ~StartsWith(q, c)
    BY <1>4, <1>5, NotBelow
  <2> QED BY <2>1, <2>2, PrefixRefl
<1>8. f = With(fresh, c, e)
  BY <1>1, <1>3, <1>5
<1>9. /\ IsStore(f) /\ q \in DOMAIN f /\ f[q] = n1 /\ c \in DOMAIN f /\ f[c] = e
      /\ s # <<>> => p \in DOMAIN f /\ f[p] = Extension(s, Boxed)
  <2>1. IsStore(f)
    BY <1>3, <1>8, WithType DEF HasBranch
  <2>2. /\ q \in DOMAIN f /\ f[q] = n1 /\ c \in DOMAIN f /\ f[c] = e
        /\ s # <<>> => p \in DOMAIN f /\ f[p] = Extension(s, Boxed)
    BY <1>5, <1>6, <1>8 DEF HasBranch, With
  <2> QED BY <2>1, <2>2
<1>10. ASSUME NEW u \in Path, u # p, u # q, u # c PROVE SameAt(m, f, u)
  <2>1. SameAt(m, fresh, u)
    BY <1>5, <1>10 DEF HasBranch
  <2>2. SameAt(fresh, f, u)
    BY <1>8, <1>10, WithSame
  <2> QED BY <2>1, <2>2, SameTrans
<1>11. ASSUME NEW u \in Path, ~StartsWith(u, p) PROVE SameAt(m, f, u)
  <2>1. StartsWith(c, p)
    BY <1>6, PrefixTrans
  <2> QED BY <1>6, <1>10, <1>11, <2>1, PrefixRefl
<1>12. ASSUME NEW u \in Path, StartsWith(u, g) PROVE SameAt(m, f, u)
  <2>1. ~StartsWith(c, g)
    BY <1>5, NotBelow
  <2>2. StartsWith(u, c) /\ StartsWith(u, q) /\ StartsWith(u, p) /\ StartsWith(c, c)
    BY <1>6, <1>12, PrefixTrans, PrefixRefl
  <2>3. u # c
    BY <1>12, <2>1
  <2>4. u # q
    BY <1>12, <2>1, <1>6, PrefixTrans
  <2>5. u # p
    BY <1>12, <2>1, <1>6, PrefixTrans
  <2> QED BY <1>10, <2>3, <2>4, <2>5
<1>13. Carries(Boxed, p, m, s \o (<<x>> \o t), link, g, f, d)
  <2>1. LeadsTo(Boxed, p, m, d, n)
    BY <1>1 DEF LeadsTo, Resolves, Resolve
  <2>2. Carries(Boxed, p, m, n.partial_key, n.branch, p \o n.partial_key, m, d)
    BY <1>1, <2>1, UnderExtension
  <2>3. Carries(Boxed, p, m, n.partial_key, link, g, m, d)
    BY <1>1, <1>5, <2>2
  <2>4. ASSUME NEW z \in Path PROVE Under(link, g, f, d, z) = Under(link, g, m, d, z)
    <3>1. IsStore(f) /\ \A u \in Path : StartsWith(u, g) => SameAt(m, f, u)
      BY <1>9, <1>12
    <3> QED BY <3>1, SameUnder
  <2> QED BY <1>1, <2>3, <2>4 DEF Carries
<1>14. Carries(Boxed, q, f, <<x>> \o t, link, g, f, d)
  <2>1. Carries(Boxed, q, f, <<x>>, Boxed, c, f, d)
    <3>1. LeadsTo(Boxed, q, f, d, n1)
      BY <1>9 DEF LeadsTo, Resolves, Resolve
    <3>2. Carries(Boxed, q, f, <<x>>, Boxed, q \o <<x>>, f, d)
      BY <3>1, OnlyChild
    <3> QED BY <1>5, <3>2
  <2>2. Carries(Boxed, c, f, t, link, g, f, d)
    <3>1. LeadsTo(Boxed, c, f, d, e)
      BY <1>9 DEF LeadsTo, Resolves, Resolve
    <3>2. Carries(Boxed, c, f, e.partial_key, e.branch, c \o e.partial_key, f, d)
      BY <1>3, <3>1, UnderExtension
    <3> QED BY <1>3, <1>5, <3>2
  <2> QED BY <1>4, <2>1, <2>2, CarriesOn
<1>15. Carries(Boxed, p, m, s, Boxed, q, f, d)
  BY <1>4, <1>13, <1>14, CarriesCut
<1>16. b # <<>> => f[q].children[b[1]] = Empty
  <2>1. b # <<>> => b[1] \in Nibble
    BY FirstNibble
  <2> QED BY <1>2, <1>9, <2>1
<1> QED BY <1>2, <1>5, <1>9, <1>11, <1>15, <1>16 DEF Split

\* Insertion splits an extension that more than one nibble of is left.
LEMMA SplitLongerHolds ==
  ASSUME NEW m, IsStore(m), NEW p \in DOMAIN m, p \in Path, m[p].kind = "Extension",
         NEW rest \in Path, ~Descends(m[p], rest), NEW v \in Value, NEW d, IsStore(d),
         Len(parse_nibble_slices_shared_portion(m[p].partial_key, rest).rest1) # 1,
         NEW r, r = SplitLonger(m, p, rest, v)
  PROVE  Inserted(m, p, rest, v, r, d)
<1> DEFINE parts == parse_nibble_slices_shared_portion(m[p].partial_key, rest)
<1>1. m[p].partial_key \in Path
  BY ExtensionParts DEF IsStore
<1>2. /\ parts.shared \in Path /\ parts.rest1 \in Path /\ parts.rest2 \in Path
      /\ m[p].partial_key = parts.shared \o parts.rest1 /\ rest = parts.shared \o parts.rest2
      /\ parts.rest1 # <<>> /\ parts.rest2 # <<>> => parts.rest1[1] # parts.rest2[1]
  BY <1>1, SharedPortion
<1>3. parts.shared # m[p].partial_key
  BY DEF Descends
<1>4. PICK s \in Path, a \in Path, b \in Path :
        /\ s = parts.shared /\ a = parts.rest1 /\ b = parts.rest2
        /\ m[p].partial_key = s \o a /\ rest = s \o b
        /\ a # <<>> /\ b # <<>> => a[1] # b[1]
  BY <1>2
<1>5. a # <<>> /\ Len(a) # 1
  BY <1>3, <1>4, ConcatEmpty
<1>6. PICK x \in Nibble, t \in Path : x = a[1] /\ t = Drop(a, 1) /\ a = <<x>> \o t /\ t # <<>>
  BY <1>5, FirstNibble
<1>7. PICK n1, fresh, f :
        /\ n1 = [NewBranch EXCEPT !.children[x] = Boxed] /\ fresh = PlaceBranch(m, p, s, n1)
        /\ f = With(fresh, (p \o s) \o <<x>>, Extension(t, m[p].branch))
  OBVIOUS
<1>8. r = BranchInsert(f, p \o s, b, v)
  BY <1>4, <1>6, <1>7 DEF SplitLonger
<1> HIDE DEF parts
<1>9. m[p].partial_key = s \o (<<x>> \o t) /\ (b # <<>> => b[1] # x)
  BY <1>4, <1>5, <1>6
<1>10. Split(m, p, s, b, f, d)
  <2>1. OnlyUnder(n1, x, Boxed)
    BY <1>7, LinkTypes, OneChildBranch
  <2>2. HasBranch(m, p, s, n1, fresh)
    BY <1>7, <2>1, PlaceNode DEF OnlyUnder
  <2>3. f = With(fresh, (p \o s) \o <<x>>, Extension(t, m[p].branch))
    BY <1>7
  <2> QED BY <1>6, <1>9, <2>1, <2>2, <2>3, LongerSplit
<1>11. Inserted(m, p, s \o b, v, r, d)
  BY <1>8, <1>10, SplitEnds
<1> QED BY <1>4, <1>11

\* Moving a subtree to where it is changes nothing.
LEMMA MoveNowhere ==
  ASSUME NEW m, IsStore(m), DOMAIN m \subseteq Path, NEW at \in Path
  PROVE  Move(m, at, at) = m
<1> DEFINE below == {q \in DOMAIN m : StartsWith(q, at)}
           moved == {at \o Drop(q, Len(at)) : q \in below}
<1>1. \A q \in below : at \o Drop(q, Len(at)) = q
  BY PrefixDrop
<1>2. moved = below
  BY <1>1
<1>3. Move(m, at, at) = [q \in (DOMAIN m \ below) \cup moved |->
                           IF q \in moved THEN m[at \o Drop(q, Len(at))] ELSE m[q]]
  BY DEF Move
<1>4. (DOMAIN m \ below) \cup moved = DOMAIN m
  BY <1>2
<1>5. \A q \in DOMAIN m : q \in moved => m[at \o Drop(q, Len(at))] = m[q]
  BY <1>1, <1>2
<1>6. m = [q \in DOMAIN m |-> m[q]]
  BY DEF IsStore
<1> HIDE DEF below, moved
<1> QED BY <1>3, <1>4, <1>5, <1>6

\* An extension with one nibble left of it, no prefix shared: the branch takes
\* its place, the link goes to the slot of the nibble.
LEMMA LastSplit ==
  ASSUME NEW m, IsStore(m), NEW p \in DOMAIN m, p \in Path, m[p].kind = "Extension",
         NEW x \in Nibble, m[p].partial_key = <<x>>,
         NEW b \in Path, b # <<>> => b[1] # x, NEW d, IsStore(d),
         NEW n1, OnlyUnder(n1, x, m[p].branch), NEW f, f = With(m, p, n1)
  PROVE  Split(m, p, <<>>, b, f, d)
<1>1. PICK n, link : /\ n = m[p] /\ link = n.branch /\ IsNode(n) /\ n.kind = "Extension"
                     /\ n.partial_key = <<x>>
  BY DEF IsStore
<1>2. IsNode(n1) /\ n1.kind = "Branch" /\ \A i \in Nibble : i # x => n1.children[i] = Empty
  BY DEF OnlyUnder
<1>3. IsStore(f) /\ p \in DOMAIN f /\ f[p] = n1
  <2>1. IsStore(f)
    BY <1>2, WithType
  <2> QED BY <2>1 DEF With
<1>4. \A u \in Path : u # p => SameAt(m, f, u)
  BY WithSame
<1>5. PICK g \in Path : g = p \o <<x>> /\ ~StartsWith(p, g)
  <2>1. <<x>> \in Path /\ <<x>> # <<>>
    BY OneNibble, EmptyPath
  <2> QED BY <2>1, ConcatPath, NotBelow
<1>6. p \o <<>> = p /\ <<>> \o <<x>> = <<x>> /\ <<>> \in Path /\ <<x>> \in Path
  BY OneNibble, EmptyPath, ConcatEmpty
<1>7. Carries(Boxed, p, m, <<x>>, link, g, f, d)
  <2>1. LeadsTo(Boxed, p, m, d, n)
    BY <1>1 DEF LeadsTo, Resolves, Resolve
  <2>2. Carries(Boxed, p, m, n.partial_key, n.branch, p \o n.partial_key, m, d)
    BY <1>1, <2>1, UnderExtension
  <2>3. Carries(Boxed, p, m, <<x>>, link, g, m, d)
    BY <1>1, <1>5, <2>2
  <2>4. ASSUME NEW z \in Path PROVE Under(link, g, f, d, z) = Under(link, g, m, d, z)
    <3>1. \A u \in Path : StartsWith(u, g) => SameAt(m, f, u)
      BY <1>4, <1>5
    <3> QED BY <1>3, <3>1, SameUnder
  <2> QED BY <2>3, <2>4 DEF Carries
<1>8. Carries(Boxed, p, f, <<x>>, link, g, f, d)
  <2>1. LeadsTo(Boxed, p, f, d, n1)
    BY <1>3 DEF LeadsTo, Resolves, Resolve
  <2>2. Carries(Boxed, p, f, <<x>>, link, p \o <<x>>, f, d)
    BY <1>1, <2>1, OnlyChild
  <2> QED BY <1>5, <2>2
<1>9. Carries(Boxed, p, m, <<>>, Boxed, p, f, d)
  <2> DEFINE e == <<>>
             i == <<x>>
  <2>1. e \in Path /\ i \in Path /\ e \o i = i
    BY <1>6
  <2>2. Carries(Boxed, p, m, i, link, g, f, d) /\ Carries(Boxed, p, f, i, link, g, f, d)
    BY <1>7, <1>8
  <2> HIDE DEF e, i
  <2>3. Carries(Boxed, p, m, e \o i, link, g, f, d)
    BY <2>1, <2>2
  <2>4. Carries(Boxed, p, m, e, Boxed, p, f, d)
    BY <2>1, <2>2, <2>3, CarriesCut
  <2> QED BY <2>4 DEF e
<1>10. b # <<>> => f[p].children[b[1]] = Empty
  <2>1. b # <<>> => b[1] \in Nibble
    BY FirstNibble
  <2> QED BY <1>2, <1>3, <2>1
<1>11. ASSUME NEW u \in Path, ~StartsWith(u, p) PROVE SameAt(m, f, u)
  BY <1>4, <1>11, PrefixRefl
<1> QED BY <1>2, <1>3, <1>6, <1>9, <1>10, <1>11 DEF Split

\* The split that loses its shared prefix.
LosesShared(n, rest) ==
  LET parts == parse_nibble_slices_shared_portion(n.partial_key, rest)
  IN  n.kind = "Extension" /\ Len(parts.rest1) = 1 /\ parts.shared # <<>>

\* Every other split of an extension with one nibble left of it.
LEMMA SplitLastNibbleHolds ==
  ASSUME NEW m, IsStore(m), DOMAIN m \subseteq Path, NEW p \in DOMAIN m, m[p].kind = "Extension",
         NEW rest \in Path, ~LosesShared(m[p], rest), NEW v \in Value, NEW d, IsStore(d),
         Len(parse_nibble_slices_shared_portion(m[p].partial_key, rest).rest1) = 1,
         NEW r, r = SplitLastNibble(m, p, rest, v)
  PROVE  Inserted(m, p, rest, v, r, d)
<1> DEFINE parts == parse_nibble_slices_shared_portion(m[p].partial_key, rest)
<1>1. p \in Path /\ m[p].partial_key \in Path /\ IsLink(m[p].branch)
  BY ExtensionParts DEF IsStore
<1>2. /\ parts.shared \in Path /\ parts.rest1 \in Path /\ parts.rest2 \in Path
      /\ m[p].partial_key = parts.shared \o parts.rest1 /\ rest = parts.shared \o parts.rest2
      /\ parts.rest1 # <<>> /\ parts.rest2 # <<>> => parts.rest1[1] # parts.rest2[1]
  BY <1>1, SharedPortion
<1>3. parts.shared = <<>> /\ Len(parts.rest1) = 1
  BY DEF LosesShared
<1>4. PICK a \in Path, b \in Path :
        /\ a = parts.rest1 /\ b = parts.rest2 /\ m[p].partial_key = a /\ rest = b
        /\ a # <<>> /\ b # <<>> => a[1] # b[1]
  BY <1>2, <1>3, ConcatEmpty
<1>5. PICK x \in Nibble : x = a[1] /\ a = <<x>> /\ a # <<>>
  <2>1. Len(a) = 1
    BY <1>3, <1>4
  <2>2. a # <<>>
    <3>1. a = <<>> <=> Len(a) = 0
      BY EmptyPath
    <3> QED BY <2>1, <3>1
  <2> QED BY <2>1, <2>2, FirstNibble
<1>6. PICK n1, moved :
        /\ n1 = [NewBranch EXCEPT !.children[x] = m[p].branch]
        /\ moved = Move(m, p \o m[p].partial_key, p \o <<x>>)
  OBVIOUS
<1>7. r = BranchInsert(With(moved, p, n1), p, b, v)
  BY <1>4, <1>5, <1>6 DEF SplitLastNibble
<1> HIDE DEF parts
<1>8. moved = m
  <2>1. PICK g \in Path : g = p \o a
    BY <1>1, ConcatPath
  <2>2. moved = Move(m, g, g)
    BY <1>4, <1>5, <1>6, <2>1
  <2> QED BY <2>2, MoveNowhere
<1>9. OnlyUnder(n1, x, m[p].branch)
  BY <1>1, <1>6, OneChildBranch
<1>10. PICK f : f = With(m, p, n1) /\ r = BranchInsert(f, p, b, v)
  BY <1>7, <1>8
<1>11. Split(m, p, <<>>, b, f, d)
  <2>1. m[p].partial_key = <<x>> /\ (b # <<>> => b[1] # x)
    BY <1>4, <1>5
  <2> QED BY <1>1, <1>9, <1>10, <2>1, LastSplit
<1>12. Inserted(m, p, <<>> \o b, v, r, d)
  <2>1. <<>> \in Path /\ p \o <<>> = p
    BY <1>1, EmptyPath, ConcatEmpty
  <2>2. r = BranchInsert(f, p \o <<>>, b, v)
    BY <1>10, <2>1
  <2> QED BY <1>1, <1>11, <2>1, <2>2, SplitEnds
<1> QED BY <1>4, <1>12, ConcatEmpty

\* An insertion that does not go on to a child gives its key the value, and
\* leaves every other key what it had, unless it loses a shared prefix.
LEMMA InsertAtHolds ==
  ASSUME NEW m, IsStore(m), DOMAIN m \subseteq Path, NEW p \in DOMAIN m,
         NEW rest \in Path, ~Descends(m[p], rest), ~LosesShared(m[p], rest),
         NEW v \in Value, NEW d, IsStore(d), NEW r, r = InsertAt(m, p, rest, v)
  PROVE  Inserted(m, p, rest, v, r, d)
<1>0. p \in Path /\ IsNode(m[p])
  BY DEF IsStore
<1>1. CASE m[p].kind = "Node" /\ m[p].rest_of_key = rest
  <2>1. r = With(m, p, Node(rest, v))
    BY <1>1 DEF InsertAt
  <2> QED BY <1>0, <1>1, <2>1, OverwriteHolds
<1>2. CASE m[p].kind = "Node" /\ m[p].rest_of_key # rest
  <2>1. r = SplitNode(m, p, rest, v)
    BY <1>2 DEF InsertAt
  <2> QED BY <1>0, <1>2, <2>1, SplitNodeHolds
<1>3. CASE m[p].kind = "Extension"
  <2>1. r = SplitExtension(m, p, rest, v)
    BY <1>3 DEF InsertAt
  <2>2. CASE Len(parse_nibble_slices_shared_portion(m[p].partial_key, rest).rest1) = 1
    <3>1. r = SplitLastNibble(m, p, rest, v)
      BY <2>1, <2>2 DEF SplitExtension
    <3> QED BY <1>3, <2>2, <3>1, SplitLastNibbleHolds
  <2>3. CASE Len(parse_nibble_slices_shared_portion(m[p].partial_key, rest).rest1) # 1
    <3>1. r = SplitLonger(m, p, rest, v)
      BY <2>1, <2>3 DEF SplitExtension
    <3> QED BY <1>0, <1>3, <2>3, <3>1, SplitLongerHolds
  <2> QED BY <2>2, <2>3
<1>4. CASE m[p].kind = "Branch"
  <2>1. rest = <<>> /\ r = BranchInsert(m, p, rest, v)
    BY <1>4 DEF InsertAt, Descends
  <2>2. /\ IsStore(r)
        /\ \A t \in Path : ~StartsWith(t, p) => SameAt(m, r, t)
        /\ p \in DOMAIN r
        /\ \A y \in Path : Under(Boxed, p, r, d, y) = IF y = rest THEN v ELSE Under(Boxed, p, m, d, y)
    BY <1>0, <1>4, <2>1, BranchInsertHolds
  <2> QED BY <2>2 DEF Inserted, Gets
<1> QED BY <1>0, <1>1, <1>2, <1>3, <1>4, NodeKinds

-----------------------------------------------------------------------------
(* What the whole tree holds after a step on one of its nodes.             *)

\* What the trie holds for a path, in one word.
Holds(top, m, d, key) == ContentsFrom(top, <<>>, m, d, key)

\* An insertion at a boxed node gives its key the value, and leaves every
\* other key what it had.
LEMMA InsertHolds ==
  ASSUME NEW m, NEW d, IsStore(d), Owned(m, DOMAIN d), <<>> \in DOMAIN m, NEW p \in DOMAIN m,
         NEW rest \in Path, ~Descends(m[p], rest), ~LosesShared(m[p], rest), NEW v \in Value,
         NEW r, r = InsertAt(m, p, rest, v), NEW key \in Path
  PROVE  Holds(Boxed, r, d, key) = IF key = p \o rest THEN v ELSE Holds(Boxed, m, d, key)
<1>1. IsStore(m) /\ DOMAIN m \subseteq Path /\ p \in Path
  BY DEF Owned
<1>2. Inserted(m, p, rest, v, r, d)
  BY <1>1, InsertAtHolds
<1>3. StaysOwned(m, r, DOMAIN d)
  BY InsertAtOwned
<1>4. Owned(r, DOMAIN d) /\ <<>> \in DOMAIN r /\ p \in DOMAIN r /\ IsStore(r)
  BY <1>2, <1>3 DEF StaysOwned, Inserted
<1>5. CASE StartsWith(key, p)
  <2>1. PICK y \in Path : key = p \o y
    BY <1>1, <1>5, PrefixDrop
  <2>2. ContentsFrom(Boxed, <<>>, r, d, key) = ContentsFrom(Boxed, p, r, d, key)
    BY <1>4, <1>5, ReachesNode
  <2>3. ContentsFrom(Boxed, <<>>, m, d, key) = ContentsFrom(Boxed, p, m, d, key)
    BY <1>5, ReachesNode
  <2>4. key = p \o rest <=> y = rest
    BY <1>1, <2>1, ConcatCancel
  <2>5. Under(Boxed, p, r, d, y) = IF y = rest THEN v ELSE Under(Boxed, p, m, d, y)
    BY <1>2 DEF Inserted, Gets
  <2> QED BY <2>1, <2>2, <2>3, <2>4, <2>5 DEF Under, Holds
<1>6. CASE ~StartsWith(key, p)
  <2>1. ASSUME NEW q \in Path, StartsWith(key, q) PROVE SameAt(m, r, q)
    <3>1. ~StartsWith(q, p)
      BY <1>1, <1>6, <2>1, PrefixTrans
    <3> QED BY <1>2, <3>1 DEF Inserted
  <2>2. SameOnTheWay(m, r, <<>>, key)
    BY <2>1 DEF SameOnTheWay, SameAt, Alike
  <2>3. Extends(d, d) /\ StartsWith(key, <<>>) /\ <<>> \in Path
    BY EmptyPath, PrefixRefl DEF Extends
  <2>4. ContentsFrom(Boxed, <<>>, r, d, key) = ContentsFrom(Boxed, <<>>, m, d, key)
    BY <1>1, <1>4, <2>2, <2>3, SameWay
  <2>5. key # p \o rest
    <3>1. StartsWith(p \o rest, p)
      BY <1>1, ConcatPrefix
    <3> QED BY <1>6, <3>1
  <2> QED BY <2>4, <2>5 DEF Holds
<1> QED BY <1>5, <1>6

\* The links of a tree and of a closed database lead nowhere new when the
\* database grows.
LEMMA LinksKnown ==
  ASSUME NEW m, NEW d, Closed(d), Owned(m, DOMAIN d), NEW top, IsHash(top) => top.hash \in DOMAIN d,
         NEW l \in LinksMet(top, m, d), IsHash(l)
  PROVE  l.hash \in DOMAIN d
<1>1. CASE l = top
  BY <1>1
<1>2. ASSUME NEW p \in DOMAIN m, l \in Links(m[p]) PROVE l.hash \in DOMAIN d
  BY <1>2 DEF Owned
<1>3. ASSUME NEW h \in DOMAIN d, l \in Links(d[h]) PROVE l.hash \in DOMAIN d
  BY <1>3, LinkTypes DEF Closed, Leads
<1> QED BY <1>1, <1>2, <1>3 DEF LinksMet

\* A key that does not go through the link that changes meets the same nodes.
LEMMA RelinkElsewhere ==
  ASSUME NEW m, IsStore(m), DOMAIN m \subseteq Path, NEW r, NEW at \in Path, NEW link, IsLink(link),
         \A q \in Path : q # at => SameAt(Relink(m, at, link), r, q),
         NEW key \in Path, ~StartsWith(key, at)
  PROVE  SameOnTheWay(m, r, <<>>, key)
<1> SUFFICES ASSUME NEW q \in Path, StartsWith(key, q)
             PROVE  /\ q \in DOMAIN m <=> q \in DOMAIN r
                    /\ q \in DOMAIN m => Alike(m[q], r[q], Drop(key, Len(q)))
  BY DEF SameOnTheWay
<1>1. q # at
  OBVIOUS
<1>2. SameAt(Relink(m, at, link), r, q) /\ DOMAIN Relink(m, at, link) = DOMAIN m
  BY <1>1, RelinkProperties
<1>3. q \in DOMAIN m => Alike(m[q], Relink(m, at, link)[q], Drop(key, Len(q)))
  BY RelinkAlike
<1> QED BY <1>2, <1>3 DEF SameAt

\* n is at `at' in r, keys through there find what is there, and the others
\* what they found in m.
AttachedFor(key, m, d, top, at, link, n, r) ==
  /\ at \in DOMAIN r /\ r[at] = n /\ IsStore(r)
  /\ StartsWith(key, at) =>
       /\ Holds(Boxed, r, d, key) = ContentsFrom(Boxed, at, r, d, key)
       /\ Holds(top, m, d, key) = ContentsFrom(link, at, m, d, key)
  /\ ~StartsWith(key, at) => Holds(Boxed, r, d, key) = Holds(top, m, d, key)

\* A link gets a boxed node.
LEMMA AttachHolds ==
  ASSUME NEW m, NEW d, Closed(d), Owned(m, DOMAIN d),
         NEW top, top = Boxed => <<>> \in DOMAIN m, top # Boxed => DOMAIN m = {},
         NEW at \in Path, NEW link, link # Boxed, LinkOf(m, top, at, link),
         NEW n, Childless(n, DOMAIN d),
         NEW r, r = With(Relink(m, at, Boxed), at, n), NEW key \in Path
  PROVE  AttachedFor(key, m, d, top, at, link, n, r)
<1>1. IsStore(m) /\ DOMAIN m \subseteq Path
  BY DEF Owned
<1>2. Attached(m, DOMAIN d, top, at, n, r)
  BY AttachAt
<1>3. Owned(r, DOMAIN d) /\ at \in DOMAIN r /\ <<>> \in DOMAIN r /\ (at # <<>> => top = Boxed)
  BY <1>2 DEF Attached
<1>4. r[at] = n /\ IsStore(r)
  BY <1>3 DEF With, Owned
<1>5. ASSUME StartsWith(key, at)
      PROVE  /\ Holds(Boxed, r, d, key) = ContentsFrom(Boxed, at, r, d, key)
             /\ Holds(top, m, d, key) = ContentsFrom(link, at, m, d, key)
  <2>1. ContentsFrom(Boxed, <<>>, r, d, key) = ContentsFrom(Boxed, at, r, d, key)
    BY <1>3, <1>5, ReachesNode
  <2>2. ContentsFrom(top, <<>>, m, d, key) = ContentsFrom(link, at, m, d, key)
    BY <1>5, ReachesLink
  <2> QED BY <2>1, <2>2 DEF Holds
<1>6. ASSUME ~StartsWith(key, at) PROVE Holds(Boxed, r, d, key) = Holds(top, m, d, key)
  <2>1. at # <<>> /\ StartsWith(key, <<>>) /\ <<>> \in Path
    BY <1>6, PrefixRefl, EmptyPath
  <2>2. top = Boxed
    BY <1>3, <2>1
  <2>3. IsLink(Boxed)
    BY LinkTypes
  <2>4. ASSUME NEW q \in Path, q # at PROVE SameAt(Relink(m, at, Boxed), r, q)
    BY <2>4, WithSame
  <2>5. SameOnTheWay(m, r, <<>>, key)
    BY <1>1, <1>6, <2>3, <2>4, RelinkElsewhere
  <2>6. IsStore(d) /\ Extends(d, d)
    BY DEF Closed, Extends
  <2>7. ContentsFrom(Boxed, <<>>, r, d, key) = ContentsFrom(Boxed, <<>>, m, d, key)
    BY <1>1, <1>4, <2>1, <2>5, <2>6, SameWay
  <2> QED BY <2>2, <2>7 DEF Holds
<1> QED BY <1>3, <1>4, <1>5, <1>6 DEF AttachedFor

\* r holds v for a path, and for every other path what m does under `top'.
GivesIn(top, m, r, d, path, v) ==
  \A key \in Path : Holds(Boxed, r, d, key) = IF key = path THEN v ELSE Holds(top, m, d, key)

\* The empty link at `at' becomes a leaf with v.
FillsEmpty(m, top, at, rest, v, r) ==
  /\ LinkOf(m, top, at, Empty)
  /\ r = With(Relink(m, at, Boxed), at, Node(rest, v))

\* An insertion into an empty link.
LEMMA IntoEmptyHolds ==
  ASSUME NEW m, NEW d, Closed(d), Owned(m, DOMAIN d),
         NEW top, top = Boxed => <<>> \in DOMAIN m, top # Boxed => DOMAIN m = {},
         NEW at \in Path, NEW rest \in Path, NEW v \in Value, NEW r, FillsEmpty(m, top, at, rest, v, r)
  PROVE  GivesIn(top, m, r, d, at \o rest, v)
<1>0. SUFFICES ASSUME NEW key \in Path
               PROVE  Holds(Boxed, r, d, key) = IF key = at \o rest THEN v ELSE Holds(top, m, d, key)
  BY DEF GivesIn
<1>1. PICK n : n = Node(rest, v)
  OBVIOUS
<1>2. /\ IsNode(n) /\ n.kind = "Node" /\ n.rest_of_key = rest /\ n.value = v
      /\ Childless(n, DOMAIN d) /\ Empty # Boxed
  BY <1>1, LeafNode, ChildlessLeaf, LinkTypes DEF Node
<1>3. AttachedFor(key, m, d, top, at, Empty, n, r)
  <2>1. PICK link : link = Empty /\ link # Boxed /\ LinkOf(m, top, at, link)
    BY <1>2 DEF FillsEmpty
  <2>2. r = With(Relink(m, at, Boxed), at, n)
    BY <1>1 DEF FillsEmpty
  <2>3. AttachedFor(key, m, d, top, at, link, n, r)
    BY <1>2, <2>1, <2>2, AttachHolds
  <2> QED BY <2>1, <2>3
<1>4. CASE StartsWith(key, at)
  <2>1. PICK y \in Path : key = at \o y
    BY <1>4, PrefixDrop
  <2>2. Resolves(Boxed, at, r, d) /\ n = Resolve(Boxed, at, r, d)
    BY <1>3 DEF Resolves, Resolve, AttachedFor
  <2>3. Under(Boxed, at, r, d, y) = IF y = rest THEN v ELSE None
    BY <1>2, <2>2, UnderLeaf
  <2>4. Under(Empty, at, m, d, y) = None
    BY UnderHere
  <2>5. key = at \o rest <=> y = rest
    BY <2>1, ConcatCancel
  <2> QED BY <1>3, <1>4, <2>1, <2>3, <2>4, <2>5 DEF Under, AttachedFor
<1>5. CASE ~StartsWith(key, at)
  <2>1. key # at \o rest
    <3>1. StartsWith(at \o rest, at)
      BY ConcatPrefix
    <3> QED BY <1>5, <3>1
  <2> QED BY <1>3, <1>5, <2>1 DEF AttachedFor
<1> QED BY <1>4, <1>5

\* A load changes nothing that is held.
LEMMA LoadHolds ==
  ASSUME NEW m, NEW d, Closed(d), Owned(m, DOMAIN d),
         NEW top, top = Boxed => <<>> \in DOMAIN m, top # Boxed => DOMAIN m = {},
         NEW at \in Path, NEW h \in DOMAIN d, LinkOf(m, top, at, HashLink(h)),
         Childless(d[h], DOMAIN d),
         NEW r, r = With(Relink(m, at, Boxed), at, d[h]), NEW key \in Path
  PROVE  Holds(Boxed, r, d, key) = Holds(top, m, d, key)
<1>1. PICK link, n : link = HashLink(h) /\ n = d[h]
  OBVIOUS
<1>2. link # Boxed /\ IsHash(link) /\ link.hash = h
  BY <1>1, LinkTypes
<1>3. AttachedFor(key, m, d, top, at, link, n, r)
  <2>1. LinkOf(m, top, at, link) /\ Childless(n, DOMAIN d) /\ r = With(Relink(m, at, Boxed), at, n)
    BY <1>1
  <2> QED BY <1>2, <2>1, AttachHolds
<1>4. CASE StartsWith(key, at)
  <2>1. IsNode(n) /\ \A l \in Links(n) : Leads(l, d)
    BY <1>1 DEF Closed, IsStore
  <2>2. LeadsTo(link, at, m, d, n)
    BY <1>1, <1>2 DEF LeadsTo, Resolves, Resolve
  <2>3. LeadsTo(Boxed, at, r, d, n)
    BY <1>3 DEF LeadsTo, Resolves, Resolve, AttachedFor
  <2>4. Extends(d, d)
    BY DEF Extends
  <2>5. ContentsFrom(Boxed, at, r, d, key) = ContentsFrom(link, at, m, d, key)
    BY <1>4, <2>1, <2>2, <2>3, <2>4, SameThere
  <2> QED BY <1>3, <1>4, <2>5 DEF AttachedFor
<1> QED BY <1>3, <1>4 DEF AttachedFor

\* A boxed node other than the root hangs from a boxed slot of another.
LEMMA HasParent ==
  ASSUME NEW m, NEW D, Owned(m, D), <<>> \in DOMAIN m, NEW p \in DOMAIN m, p # <<>>
  PROVE  \E q \in DOMAIN m : \E s \in Slots(m[q]) : p = q \o s /\ q # p
<1> DEFINE Parent == \E q \in DOMAIN m : \E s \in Slots(m[q]) : p = q \o s /\ q # p
           S == {t \in [at : DOMAIN m] : StartsWith(p, t.at) /\ t.at # p}
           Good == {t \in S : Parent}
<1>1. IsStore(m) /\ DOMAIN m \subseteq Path /\ Tree(m) /\ p \in Path
  BY DEF Owned
<1>2. ASSUME NEW t \in S, t \notin Good
      PROVE  \E u \in S : Len(u.at) > Len(t.at) /\ (u \in Good => t \in Good)
  <2>1. PICK q \in DOMAIN m : q = t.at /\ StartsWith(p, q) /\ q # p /\ q \in Path
    BY <1>1, <1>2
  <2>2. PICK s \in Slots(m[q]) : LinkAt(m[q], s) = Boxed /\ StartsWith(p, q \o s)
    BY <1>1, <2>1 DEF Tree
  <2>3. /\ q \o s \in DOMAIN m /\ s \in Path /\ Len(s) > 0 /\ IsNode(m[q])
        /\ Len(q \o s) = Len(q) + Len(s) /\ Len(q) \in Nat /\ Len(s) \in Nat
    BY <1>1, <2>1, <2>2, NodeSlots, ConcatPath, PathLen DEF Tree, IsStore
  <2>4. Len(q \o s) > Len(q)
    <3>1. PICK a \in Nat, b \in Nat : a = Len(q) /\ b = Len(s)
      BY <2>3
    <3> QED BY <2>3, <3>1
  <2>5. q \o s # p
    BY <1>2, <2>1
  <2> DEFINE u == [at |-> q \o s]
  <2>6. u \in S /\ u.at = q \o s
    BY <2>2, <2>3, <2>5
  <2> HIDE DEF u
  <2>7. u \in Good => t \in Good
    BY <1>2
  <2> QED BY <2>1, <2>4, <2>6, <2>7
<1>3. S \subseteq Good
  <2>1. \A t \in S : t.at \in Path /\ StartsWith(p, t.at)
    BY <1>1
  <2> HIDE DEF S, Good
  <2> QED BY <1>1, <1>2, <2>1, Downwards
<1>4. [at |-> <<>>] \in S
  BY <1>1, PrefixRefl
<1>5. [at |-> <<>>] \in Good
  BY <1>3, <1>4
<1> QED BY <1>5

\* r and e are m and d once the node at p is stored under h and is no longer
\* boxed.
Collapses(m, d, p, h, r, e) ==
  /\ h = Hash(m[p])
  /\ e = With(d, h, m[p])
  /\ r = Relink([q \in DOMAIN m \ {p} |-> m[q]], p, HashLink(h))

\* Then p is gone from r, and its link is a hash.
Collapsed(m, p, h, r, e) ==
  /\ Owned(r, DOMAIN e) /\ DOMAIN r = DOMAIN m \ {p} /\ IsStore(r)
  /\ \A q \in Path : q # p => SameAt(Relink(m, p, HashLink(h)), r, q)
  /\ \A q \in DOMAIN m : q # p =>
       Slots(r[q]) = Slots(m[q]) /\ \A s \in Slots(m[q]) : q \o s = p => LinkAt(r[q], s) = HashLink(h)

\* A write of collapse does so.
LEMMA CollapseLinks ==
  ASSUME NEW m, NEW d, Owned(m, DOMAIN d), NEW p \in DOMAIN m,
         \A s \in Slots(m[p]) : LinkAt(m[p], s) # Boxed,
         NEW h, NEW r, NEW e, Collapses(m, d, p, h, r, e)
  PROVE  Collapsed(m, p, h, r, e)
<1>1. IsStore(m) /\ DOMAIN m \subseteq Path /\ p \in Path
  BY DEF Owned
<1> DEFINE rest == [q \in DOMAIN m \ {p} |-> m[q]]
<1>2. r = Relink(rest, p, HashLink(h)) /\ DOMAIN e = DOMAIN d \cup {h}
  BY DEF Collapses, With
<1>3. Owned(Relink(rest, p, HashLink(h)), DOMAIN d \cup {h}) /\ DOMAIN Relink(rest, p, HashLink(h)) = DOMAIN m \ {p}
  BY Detach
<1>4. Owned(r, DOMAIN e) /\ DOMAIN r = DOMAIN m \ {p}
  BY <1>2, <1>3
<1>5. ASSUME NEW q \in DOMAIN m, q # p PROVE r[q] = Relink(m, p, HashLink(h))[q]
  BY <1>2, <1>5 DEF Relink
<1>6. IsLink(HashLink(h))
  BY LinkTypes
<1>7. /\ DOMAIN Relink(m, p, HashLink(h)) = DOMAIN m
      /\ \A q \in DOMAIN m :
           /\ Slots(Relink(m, p, HashLink(h))[q]) = Slots(m[q])
           /\ \A s \in Slots(m[q]) :
                LinkAt(Relink(m, p, HashLink(h))[q], s) = IF q \o s = p THEN HashLink(h) ELSE LinkAt(m[q], s)
  BY <1>1, <1>6, RelinkProperties
<1>8. \A q \in Path : q # p => SameAt(Relink(m, p, HashLink(h)), r, q)
  BY <1>4, <1>5, <1>7 DEF SameAt
<1>9. ASSUME NEW q \in DOMAIN m, q # p
      PROVE  Slots(r[q]) = Slots(m[q]) /\ \A s \in Slots(m[q]) : q \o s = p => LinkAt(r[q], s) = HashLink(h)
  BY <1>5, <1>7, <1>9
<1>10. IsStore(r)
  BY <1>4 DEF Owned
<1> QED BY <1>4, <1>8, <1>9, <1>10 DEF Collapsed

\* A write of collapse changes nothing that is held.
LEMMA CollapseHolds ==
  ASSUME NEW m, NEW d, Closed(d), \A g \in DOMAIN d : g = Hash(d[g]),
         Owned(m, DOMAIN d), <<>> \in DOMAIN m, NEW p \in DOMAIN m,
         \A s \in Slots(m[p]) : LinkAt(m[p], s) # Boxed,
         NEW h, NEW r, NEW e, Collapses(m, d, p, h, r, e), NEW key \in Path
  PROVE  Holds(IF p = <<>> THEN HashLink(h) ELSE Boxed, r, e, key) = Holds(Boxed, m, d, key)
<1>1. IsStore(m) /\ DOMAIN m \subseteq Path /\ p \in Path /\ IsNode(m[p]) /\ IsStore(d)
  BY DEF Owned, IsStore, Closed
<1>2. /\ Owned(r, DOMAIN e) /\ DOMAIN r = DOMAIN m \ {p} /\ IsStore(r)
      /\ \A q \in Path : q # p => SameAt(Relink(m, p, HashLink(h)), r, q)
      /\ \A q \in DOMAIN m : q # p =>
           Slots(r[q]) = Slots(m[q]) /\ \A s \in Slots(m[q]) : q \o s = p => LinkAt(r[q], s) = HashLink(h)
  <2>1. Collapsed(m, p, h, r, e)
    BY CollapseLinks
  <2> QED BY <2>1 DEF Collapsed
<1>3. Extends(e, d)
  <2>1. ASSUME NEW g \in DOMAIN d, g = h PROVE d[g] = m[p]
    BY <2>1 DEF Collapses, Hash
  <2> QED BY <2>1 DEF Extends, Collapses, With
<1>4. h \in DOMAIN e /\ e[h] = m[p]
  BY DEF Collapses, With
<1>5. PICK n : n = m[p] /\ IsNode(n)
  BY <1>1
<1>6. \A l \in Links(n) : Leads(l, d)
  <2>1. ASSUME NEW l \in Links(n) PROVE Leads(l, d)
    <3>1. PICK s \in Slots(n) : l = LinkAt(n, s)
      BY DEF Links
    <3>2. IsLink(l) /\ l # Boxed
      BY <1>5, <3>1, NodeSlots
    <3>3. IsHash(l) => l.hash \in DOMAIN d
      BY <1>5, <2>1 DEF Owned
    <3> QED BY <3>2, <3>3 DEF Leads, IsLink
  <2> QED BY <2>1
<1>7. PICK g : g = HashLink(h) /\ IsHash(g) /\ g # Boxed /\ g.hash = h
  BY LinkTypes
<1>8. ASSUME StartsWith(key, p)
      PROVE  ContentsFrom(g, p, r, e, key) = ContentsFrom(Boxed, p, m, d, key)
  <2>1. LeadsTo(Boxed, p, m, d, n)
    BY <1>5 DEF LeadsTo, Resolves, Resolve
  <2>2. LeadsTo(g, p, r, e, n)
    BY <1>4, <1>5, <1>7 DEF LeadsTo, Resolves, Resolve
  <2> QED BY <1>1, <1>3, <1>5, <1>6, <1>8, <2>1, <2>2, SameThere
<1>9. CASE p = <<>>
  <2>1. StartsWith(key, p)
    BY <1>9, PrefixRefl
  <2> QED BY <1>7, <1>8, <1>9, <2>1 DEF Holds
<1>10. CASE p # <<>> /\ StartsWith(key, p)
  <2>1. PICK q \in DOMAIN m : \E s \in Slots(m[q]) : p = q \o s /\ q # p
    BY <1>10, HasParent
  <2>2. PICK s \in Slots(m[q]) : p = q \o s /\ q # p
    BY <2>1
  <2>3. q \in DOMAIN r /\ s \in Slots(r[q]) /\ LinkAt(r[q], s) = g
    BY <1>2, <1>7, <2>2
  <2>4. LinkOf(r, Boxed, p, g)
    BY <2>2, <2>3 DEF LinkOf
  <2>5. <<>> \in DOMAIN r
    BY <1>2, <1>10
  <2>6. ContentsFrom(Boxed, <<>>, r, e, key) = ContentsFrom(g, p, r, e, key)
    BY <1>1, <1>2, <1>10, <2>4, <2>5, ReachesLink
  <2>7. ContentsFrom(Boxed, <<>>, m, d, key) = ContentsFrom(Boxed, p, m, d, key)
    BY <1>10, ReachesNode
  <2> QED BY <1>8, <1>10, <2>6, <2>7 DEF Holds
<1>11. CASE p # <<>> /\ ~StartsWith(key, p)
  <2>1. IsLink(g)
    BY <1>7, LinkTypes
  <2>2. \A q \in Path : q # p => SameAt(Relink(m, p, g), r, q)
    BY <1>2, <1>7
  <2>3. SameOnTheWay(m, r, <<>>, key)
    BY <1>1, <1>11, <2>1, <2>2, RelinkElsewhere
  <2>4. ~IsHash(Boxed) /\ <<>> \in Path /\ StartsWith(key, <<>>)
    BY LinkTypes, EmptyPath, PrefixRefl
  <2>5. \A l \in LinksMet(Boxed, m, d) : IsHash(l) /\ l.hash \in DOMAIN e => l.hash \in DOMAIN d
    BY <2>4, LinksKnown
  <2>6. ContentsFrom(Boxed, <<>>, r, e, key) = ContentsFrom(Boxed, <<>>, m, d, key)
    BY <1>1, <1>2, <1>3, <2>3, <2>4, <2>5, SameWay
  <2> QED BY <1>11, <2>6 DEF Holds
<1> QED BY <1>9, <1>10, <1>11

-----------------------------------------------------------------------------
(* Keys and their paths.                                                   *)

\* A byte is its two nibbles.
LEMMA ByteOfNibbles ==
  ASSUME NEW x \in Byte
  PROVE  x = Radix * (x \div Radix) + (x % Radix)
<1>1. Radix \in Nat /\ Radix > 0 /\ x \in Nat
  BY RadixAssumption DEF Byte
<1>2. PICK r \in Nat : r = Radix /\ r > 0
  BY <1>1
<1>3. x = r * (x \div r) + (x % r)
  BY <1>1, <1>2
<1> QED BY <1>2, <1>3

\* The nibbles of a byte of a key.
LEMMA NibblesAt ==
  ASSUME NEW k \in Seq(Byte), NEW i \in 1 .. Len(k)
  PROVE  /\ convert_bytes_to_nibbles(k)[2 * i - 1] = k[i] \div Radix
         /\ convert_bytes_to_nibbles(k)[2 * i] = k[i] % Radix
<1>1. Len(k) \in Nat
  BY LenProperties
<1>2. PICK a \in Nat, b \in Nat : a = 2 * i - 1 /\ b = 2 * i
  BY <1>1
<1>3. /\ a \in 1 .. 2 * Len(k) /\ (a + 1) \div 2 = i /\ a % 2 = 1
      /\ b \in 1 .. 2 * Len(k) /\ (b + 1) \div 2 = i /\ b % 2 # 1
  BY <1>1, <1>2
<1>4. convert_bytes_to_nibbles(k)[a] = k[i] \div Radix
  BY <1>3 DEF convert_bytes_to_nibbles
<1>5. convert_bytes_to_nibbles(k)[b] = k[i] % Radix
  BY <1>3 DEF convert_bytes_to_nibbles
<1> QED BY <1>2, <1>4, <1>5

\* Two keys never have the same path.
LEMMA KeysApart ==
  ASSUME NEW k \in Seq(Byte), NEW l \in Seq(Byte),
         convert_bytes_to_nibbles(k) = convert_bytes_to_nibbles(l)
  PROVE  k = l
<1>1. Len(k) \in Nat /\ Len(l) \in Nat
  BY LenProperties
<1>2. Len(k) = Len(l)
  <2>1. 1 .. 2 * Len(k) = 1 .. 2 * Len(l)
    BY DEF convert_bytes_to_nibbles
  <2>2. PICK a \in Nat, b \in Nat : a = Len(k) /\ b = Len(l)
    BY <1>1
  <2>3. 1 .. 2 * a = 1 .. 2 * b
    BY <2>1, <2>2
  <2>4. \A i \in Nat : i \in 1 .. 2 * a <=> i \in 1 .. 2 * b
    BY <2>3
  <2>5. ~(a < b) /\ ~(b < a)
    BY <2>4, SMTT(30)
  <2> QED BY <2>2, <2>5
<1>3. ASSUME NEW i \in 1 .. Len(k) PROVE k[i] = l[i]
  <2>1. i \in 1 .. Len(l)
    BY <1>2
  <2>2. k[i] \in Byte /\ l[i] \in Byte
    BY <2>1, ElementOfSeq
  <2>3. /\ k[i] \div Radix = l[i] \div Radix
        /\ k[i] % Radix = l[i] % Radix
    BY <2>1, NibblesAt
  <2>4. /\ k[i] = Radix * (k[i] \div Radix) + (k[i] % Radix)
        /\ l[i] = Radix * (l[i] \div Radix) + (l[i] % Radix)
    BY <2>2, ByteOfNibbles
  <2> QED BY <2>3, <2>4
<1> QED BY <1>2, <1>3, SeqEqual

-----------------------------------------------------------------------------
(* The key an insertion works for.                                         *)

\* The path of a key of the callers, which starts with where the call is.
KeyInv ==
  call.op = "insert" =>
    /\ StartsWith(call.key, call.at)
    /\ \E k \in Key : call.key = convert_bytes_to_nibbles(k)

\* Insert starts at the root, a descent follows the key.
LEMMA KeyInvInductive ==
  ASSUME IndInv, KeyInv, [Next]_vars
  PROVE  KeyInv'
<1>1. ASSUME NEW k \in Key, NEW v \in Value, Insert(k, v) PROVE KeyInv'
  <2>1. convert_bytes_to_nibbles(k) \in Path
    BY KeyAssumption, NibblesOfKey
  <2>2. call'.key = convert_bytes_to_nibbles(k) /\ call'.at = <<>>
    BY <1>1 DEF Insert, InsertCall
  <2>3. StartsWith(call'.key, call'.at)
    BY <2>1, <2>2, PrefixRefl
  <2> QED BY <2>2, <2>3 DEF KeyInv
<1>2. ASSUME call'.op # "insert" PROVE KeyInv'
  BY <1>2 DEF KeyInv
<1>3. ASSUME call'.op = call.op, call'.key = call.key, call'.at = call.at PROVE KeyInv'
  BY <1>3 DEF KeyInv
<1>4. CASE InsertLoad
  BY <1>3, <1>4 DEF InsertLoad, InsertCall
<1>5. CASE InsertDescend
  <2>1. PICK n, slot : /\ n = mem[call.at] /\ slot = NextSlot(n, Rest) /\ Descends(n, Rest)
                       /\ call' = InsertCall(call.key, call.value, call.top, call.at \o slot, LinkAt(n, slot))
    BY <1>5 DEF InsertDescend
  <2>2. call.op = "insert" /\ call.link = Boxed
    BY <1>5 DEF InsertDescend
  <2>3. call.key \in Path /\ call.at \in Path /\ Rest \in Path /\ Owned(mem, DOMAIN db) /\ call.at \in DOMAIN mem
    BY <2>2, Inserting
  <2>4. IsNode(n)
    BY <2>1, <2>3 DEF Owned, IsStore
  <2>5. slot \in Path /\ StartsWith(Rest, slot)
    BY <2>1, <2>3, <2>4, SlotMet, NodeSlots
  <2>6. call.key = call.at \o Rest
    BY <2>2, <2>3, PrefixDrop DEF KeyInv, Rest
  <2>7. StartsWith(call.at \o Rest, call.at \o slot)
    BY <2>3, <2>5, PrefixConcat
  <2>8. call'.key = call.key /\ call'.at = call.at \o slot
    BY <2>1 DEF InsertCall
  <2> QED BY <2>2, <2>6, <2>7, <2>8 DEF KeyInv
<1>6. CASE InsertIntoEmpty \/ InsertHere \/ InsertFails \/ FinishCommit \/ CollapseNode \/ CommitFails
  <2>1. call'.op # "insert"
    <3>1. CASE InsertIntoEmpty \/ InsertHere \/ InsertFails \/ CommitFails
      BY <3>1 DEF InsertIntoEmpty, InsertHere, FinishInsert, InsertFails, CommitFails, Idle
    <3>2. CASE FinishCommit
      BY <3>2 DEF FinishCommit, ProofCall, ReadCall, Idle
    <3>3. CASE CollapseNode
      BY <3>3 DEF CollapseNode, CommitCall
    <3> QED BY <1>6, <3>1, <3>2, <3>3
  <2> QED BY <1>2, <2>1
<1>7. CASE Restart \/ Resume \/ InsertUnserializable \/ VerifyProof \/ Commit
  <2>1. call'.op # "insert"
    BY <1>7 DEF Restart, Resume, InsertUnserializable, VerifyProof, Commit, StartCommit, CommitCall,
                ReadCall, Idle
  <2> QED BY <1>2, <2>1
<1>8. CASE ReadDescend \/ ReadHere \/ ReadEmpty \/ ReadNoRoot \/ ReadFails
  <2>1. call'.op # "insert"
    <3>1. CASE ReadDescend
      BY <3>1 DEF ReadDescend, Reading, ReadCall
    <3>2. CASE ReadHere \/ ReadEmpty \/ ReadNoRoot \/ ReadFails
      BY <3>2 DEF ReadHere, ReadEmpty, ReadNoRoot, ReadFails, Return, Returned
    <3> QED BY <1>8, <3>1, <3>2
  <2> QED BY <1>2, <2>1
<1>9. ASSUME NEW k \in Key, GetValue(k) PROVE KeyInv'
  BY <1>2, <1>9 DEF GetValue, ReadCall
<1>10. ASSUME NEW h \in KnownHash, Revert(h) PROVE KeyInv'
  BY <1>2, <1>10 DEF Revert, Idle
<1>11. ASSUME NEW h \in KnownHash, NEW k \in Key, GetProof(h, k) PROVE KeyInv'
  BY <1>2, <1>11 DEF GetProof, StartCommit, CommitCall, ProofCall, ReadCall
<1>12. CASE UNCHANGED vars
  BY <1>3, <1>12 DEF vars
<1> QED BY <1>1, <1>4, <1>5, <1>6, <1>7, <1>8, <1>9, <1>10, <1>11, <1>12 DEF Next, Step

\* Every insertion works for a key of the callers.
LEMMA KeyInvHolds == Spec => []KeyInv
<1>1. Init => KeyInv
  BY DEF Init, KeyInv, Idle
<1>2. IndInv /\ KeyInv /\ [Next]_vars => KeyInv'
  BY KeyInvInductive
<1> QED BY <1>1, <1>2, IndInvHolds, PTL DEF Spec

-----------------------------------------------------------------------------
(* The steps of the trie as steps of the map.                              *)

\* What the current map has for a key.
Has(k) == Contents(Top, mem, db, convert_bytes_to_nibbles(k))

\* The current map, by the paths its links spell.
LEMMA HasIs ==
  /\ CurrentMap = [k \in Key |-> Has(k)]
  /\ \A k \in Key : /\ convert_bytes_to_nibbles(k) \in Path
                    /\ Has(k) = Holds(Top, mem, db, convert_bytes_to_nibbles(k))
<1>1. ASSUME NEW k \in Key
      PROVE  /\ convert_bytes_to_nibbles(k) \in Path
             /\ Has(k) = Holds(Top, mem, db, convert_bytes_to_nibbles(k))
  <2>1. convert_bytes_to_nibbles(k) \in Path
    BY KeyAssumption, NibblesOfKey
  <2> QED BY <2>1, ContentsIsFrom DEF Has, Holds
<1> QED BY <1>1 DEF CurrentMap, Has

\* The tree holds what it held, for every path.
MapKept == \A key \in Path : Holds(Top, mem, db, key)' = Holds(Top, mem, db, key)

\* A step after which every path holds what it held leaves the map as it is.
LEMMA SameMap ==
  ASSUME MapKept
  PROVE  CurrentMap' = CurrentMap
<1>1. ASSUME NEW k \in Key PROVE Has(k)' = Has(k)
  <2>1. convert_bytes_to_nibbles(k) \in Path /\ Has(k) = Holds(Top, mem, db, convert_bytes_to_nibbles(k))
    BY HasIs
  <2>2. Has(k)' = Holds(Top', mem', db', convert_bytes_to_nibbles(k))
    BY <2>1, ContentsIsFrom DEF Has, Holds
  <2> QED BY <2>1, <2>2 DEF MapKept
<1> QED BY <1>1 DEF CurrentMap, Has

\* The map of a step that touches neither the root nor a node.
LEMMA SameTree ==
  ASSUME Top' = Top, UNCHANGED <<mem, db>>
  PROVE  MapKept
BY DEF MapKept, Holds

\* Without a root the map is empty.
LEMMA NoRoot ==
  ASSUME Top' = Empty
  PROVE  CurrentMap' = Promise!EmptyMap
<1>1. ASSUME NEW k \in Key PROVE Has(k)' = None
  <2>1. convert_bytes_to_nibbles(k) \in Path
    BY HasIs
  <2>2. Has(k)' = ContentsFrom(Empty, <<>>, mem', db', convert_bytes_to_nibbles(k))
    BY <2>1, ContentsIsFrom DEF Has
  <2>3. ContentsFrom(Empty, <<>>, mem', db', convert_bytes_to_nibbles(k)) = None
    BY <2>1, EmptyPath, PrefixRefl, ContentsRecursion
  <2> QED BY <2>2, <2>3
<1> QED BY <1>1 DEF CurrentMap, Has, Promise!EmptyMap

\* A path has a value after a step, and every other path what it had before.
Gives(path, v) ==
  \A key \in Path : Holds(Top, mem, db, key)' = IF key = path THEN v ELSE Holds(Top, mem, db, key)

\* A path that gets a value is a Put of its key, and of no other key.
LEMMA PutOne ==
  ASSUME NEW k \in Key, NEW v \in Value, Gives(convert_bytes_to_nibbles(k), v),
         Holds(Top, mem, db, convert_bytes_to_nibbles(k)) # Unreadable
  PROVE  CurrentMap # Promise!UnreadableMap /\ CurrentMap' = [CurrentMap EXCEPT ![k] = v]
<1>1. \A l \in Key : convert_bytes_to_nibbles(l) = convert_bytes_to_nibbles(k) <=> l = k
  BY KeyAssumption, KeysApart
<1>2. ASSUME NEW l \in Key PROVE Has(l)' = IF l = k THEN v ELSE Has(l)
  <2>1. convert_bytes_to_nibbles(l) \in Path /\ Has(l) = Holds(Top, mem, db, convert_bytes_to_nibbles(l))
    BY HasIs
  <2>2. Has(l)' = Holds(Top', mem', db', convert_bytes_to_nibbles(l))
    BY <2>1, ContentsIsFrom DEF Has, Holds
  <2>3. Has(l)' = IF convert_bytes_to_nibbles(l) = convert_bytes_to_nibbles(k) THEN v ELSE Has(l)
    BY <2>1, <2>2 DEF Gives
  <2> QED BY <1>1, <2>3
<1>3. Has(k) # Unreadable
  BY HasIs
<1>4. CurrentMap = [l \in Key |-> Has(l)]
  BY HasIs
<1>5. CurrentMap' = [l \in Key |-> Has(l)']
  BY DEF CurrentMap, Has
<1>6. CurrentMap' = [CurrentMap EXCEPT ![k] = v]
  BY <1>2, <1>4, <1>5
<1>7. CurrentMap # Promise!UnreadableMap
  BY <1>3, <1>4 DEF Promise!UnreadableMap
<1> QED BY <1>6, <1>7

\* The versions, and what each is.
Versions == [h \in roots |-> VersionMap(h)]

\* The rest of the key of an insertion.
LEMMA InsertsKey ==
  ASSUME IndInv, KeyInv, call.op = "insert"
  PROVE  /\ call.key = call.at \o Rest /\ StartsWith(call.key, call.at)
         /\ Closed(db) /\ IsStore(db)
         /\ \E k \in Key : call.key = convert_bytes_to_nibbles(k)
<1>1. call.key \in Path /\ call.at \in Path
  BY Inserting
<1>2. StartsWith(call.key, call.at) /\ \E k \in Key : call.key = convert_bytes_to_nibbles(k)
  BY DEF KeyInv
<1>3. call.key = call.at \o Rest
  BY <1>1, <1>2, PrefixDrop DEF Rest
<1>4. Closed(db)
  BY StoreClosedIs DEF IndInv
<1> QED BY <1>2, <1>3, <1>4 DEF Closed

\* One key gets one value, in a map that could be read.
PutStep == /\ CurrentMap # Promise!UnreadableMap
           /\ \E k \in Key, v \in Value : CurrentMap' = [CurrentMap EXCEPT ![k] = v]

\* After the last step of an insertion its key has the value, every other path
\* what it had, and it was no unreadable map the key was put in.
KeyGiven == Gives(call.key, call.value) /\ Holds(Top, mem, db, call.key) # Unreadable

\* That makes it a Put.
LEMMA InsertPuts ==
  ASSUME IndInv, KeyInv, call.op = "insert", KeyGiven
  PROVE  PutStep
<1>1. PICK k \in Key : call.key = convert_bytes_to_nibbles(k)
  BY InsertsKey
<1>2. PICK v \in Value : v = call.value
  BY Inserting
<1>3. Gives(convert_bytes_to_nibbles(k), v) /\ Holds(Top, mem, db, convert_bytes_to_nibbles(k)) # Unreadable
  BY <1>1, <1>2 DEF KeyGiven
<1>4. CurrentMap # Promise!UnreadableMap /\ CurrentMap' = [CurrentMap EXCEPT ![k] = v]
  BY <1>3, PutOne
<1> QED BY <1>4 DEF PutStep

\* An insertion into an empty link.
LEMMA InsertIntoEmptyGives ==
  ASSUME IndInv, KeyInv, InsertIntoEmpty
  PROVE  KeyGiven
<1>1. call.op = "insert" /\ call.link = Empty
  BY DEF InsertIntoEmpty
<1>2. /\ call.key \in Path /\ call.at \in Path /\ call.value \in Value /\ Rest \in Path
      /\ Top = call.top /\ LinkOf(mem, call.top, call.at, Empty) /\ Owned(mem, DOMAIN db)
      /\ call.top = Boxed => <<>> \in DOMAIN mem
      /\ call.top # Boxed => DOMAIN mem = {}
  BY <1>1, Inserting
<1>3. call.key = call.at \o Rest /\ StartsWith(call.key, call.at) /\ Closed(db)
  BY <1>1, InsertsKey
<1>4. /\ mem' = With(Relink(mem, call.at, Boxed), call.at, Node(Rest, call.value))
      /\ db' = db /\ Top' = Boxed
  BY DEF InsertIntoEmpty, FinishInsert, Top, Idle
<1>5. ASSUME NEW key \in Path
      PROVE  Holds(Top, mem, db, key)' = IF key = call.key THEN call.value ELSE Holds(Top, mem, db, key)
  <2>1. PICK at \in Path, rest \in Path, v \in Value :
          at = call.at /\ rest = Rest /\ v = call.value
    BY <1>2
  <2>2. LinkOf(mem, call.top, at, Empty) /\ mem' = With(Relink(mem, at, Boxed), at, Node(rest, v))
    BY <1>2, <1>4, <2>1
  <2>3. Holds(Boxed, mem', db, key) = IF key = at \o rest THEN v ELSE Holds(call.top, mem, db, key)
    <3>1. PICK top, r : top = call.top /\ r = mem'
      OBVIOUS
    <3>2. /\ Owned(mem, DOMAIN db) /\ Closed(db)
          /\ top = Boxed => <<>> \in DOMAIN mem
          /\ top # Boxed => DOMAIN mem = {}
          /\ FillsEmpty(mem, top, at, rest, v, r)
      BY <1>2, <1>3, <2>2, <3>1 DEF FillsEmpty
    <3>3. GivesIn(top, mem, r, db, at \o rest, v)
      BY <3>2, IntoEmptyHolds
    <3> QED BY <3>1, <3>3 DEF GivesIn
  <2> QED BY <1>2, <1>3, <1>4, <2>1, <2>3 DEF Holds
<1>6. Holds(Top, mem, db, call.key) # Unreadable
  <2>1. ContentsFrom(call.top, <<>>, mem, db, call.key) = ContentsFrom(Empty, call.at, mem, db, call.key)
    BY <1>2, <1>3, ReachesLink
  <2>2. ContentsFrom(Empty, call.at, mem, db, call.key) = None
    BY <1>2, <1>3, ContentsRecursion
  <2> QED BY <1>2, <2>1, <2>2, UnreadableAssumption DEF Holds
<1>7. Gives(call.key, call.value)
  BY <1>5 DEF Gives
<1> QED BY <1>6, <1>7 DEF KeyGiven

\* A lookup of the key, of which `rest' is left at n, ends there.
EndsAt(n, key, at, rest) == rest = Drop(key, Len(at)) /\ ~Descends(n, rest)

\* Then it gets what n holds.
LEMMA EndsThere ==
  ASSUME NEW key \in Path, NEW at \in Path, StartsWith(key, at), NEW m, NEW d,
         NEW n, IsNode(n), NEW link, LeadsTo(link, at, m, d, n), NEW rest, EndsAt(n, key, at, rest)
  PROVE  ContentsFrom(link, at, m, d, key) = ValueAt(n, rest)
BY ContentsRecursion DEF LeadsTo, EndsAt

\* An insertion loses what a split makes of a shared prefix.
LosesPrefix == InsertHere /\ LosesShared(mem[call.at], Rest)

\* Every other insertion at a boxed node.
LEMMA InsertHereGives ==
  ASSUME IndInv, KeyInv, InsertHere, ~LosesPrefix
  PROVE  KeyGiven
<1>1. call.op = "insert" /\ call.link = Boxed /\ ~Descends(mem[call.at], Rest) /\ ~LosesShared(mem[call.at], Rest)
  BY DEF InsertHere, LosesPrefix
<1>2. /\ call.key \in Path /\ call.at \in Path /\ call.value \in Value /\ Rest \in Path
      /\ Top = call.top /\ LinkOf(mem, call.top, call.at, Boxed) /\ Owned(mem, DOMAIN db)
      /\ call.top = Boxed => <<>> \in DOMAIN mem
      /\ call.top # Boxed => DOMAIN mem = {}
      /\ call.at \in DOMAIN mem
  BY <1>1, Inserting
<1>3. call.key = call.at \o Rest /\ StartsWith(call.key, call.at) /\ IsStore(db)
  BY <1>1, InsertsKey
<1>4. /\ mem' = InsertAt(mem, call.at, Rest, call.value)
      /\ db' = db /\ Top' = Boxed
  BY DEF InsertHere, FinishInsert, Top, Idle
<1>5. call.top = Boxed /\ <<>> \in DOMAIN mem
  BY <1>2
<1>6. ASSUME NEW key \in Path
      PROVE  Holds(Top, mem, db, key)' = IF key = call.key THEN call.value ELSE Holds(Top, mem, db, key)
  <2>1. PICK p \in DOMAIN mem, rest \in Path, v \in Value :
          p = call.at /\ rest = Rest /\ v = call.value
    BY <1>2
  <2>2. ~Descends(mem[p], rest) /\ ~LosesShared(mem[p], rest) /\ mem' = InsertAt(mem, p, rest, v)
    BY <1>1, <1>4, <2>1
  <2>3. Holds(Boxed, mem', db, key) = IF key = p \o rest THEN v ELSE Holds(Boxed, mem, db, key)
    BY <1>2, <1>3, <1>5, <2>2, InsertHolds, SMTT(30)
  <2> QED BY <1>2, <1>3, <1>4, <1>5, <2>1, <2>3 DEF Holds
<1>7. Holds(Top, mem, db, call.key) # Unreadable
  <2>1. PICK n : n = mem[call.at] /\ IsNode(n)
    BY <1>2 DEF Owned, IsStore
  <2>2. ContentsFrom(Boxed, <<>>, mem, db, call.key) = ContentsFrom(Boxed, call.at, mem, db, call.key)
    BY <1>2, <1>3, <1>5, ReachesNode
  <2>3. LeadsTo(Boxed, call.at, mem, db, n)
    BY <1>2, <2>1 DEF LeadsTo, Resolves, Resolve
  <2>4. ContentsFrom(Boxed, call.at, mem, db, call.key) = ValueAt(n, Rest)
    <3>1. PICK key \in Path, at \in Path, rest \in Path :
            key = call.key /\ at = call.at /\ StartsWith(key, at) /\ rest = Drop(key, Len(at)) /\ rest = Rest
      BY <1>2, <1>3 DEF Rest
    <3>2. LeadsTo(Boxed, at, mem, db, n) /\ EndsAt(n, key, at, rest)
      BY <1>1, <2>1, <2>3, <3>1 DEF EndsAt
    <3>3. ContentsFrom(Boxed, at, mem, db, key) = ValueAt(n, rest)
      BY <2>1, <3>1, <3>2, EndsThere
    <3> QED BY <3>1, <3>3
  <2>5. ValueAt(n, Rest) \in Value \cup {None}
    BY <2>1, LeafParts, BranchParts DEF ValueAt
  <2> QED BY <1>2, <1>5, <2>2, <2>4, <2>5, UnreadableAssumption DEF Holds
<1>8. Gives(call.key, call.value)
  BY <1>6 DEF Gives
<1> QED BY <1>7, <1>8 DEF KeyGiven

\* A load leaves the map as it is.
LEMMA LoadKeepsMap ==
  ASSUME IndInv, KeyInv, InsertLoad
  PROVE  MapKept
<1>1. call.op = "insert" /\ IsHash(call.link) /\ call.link.hash \in DOMAIN db
  BY DEF InsertLoad
<1>2. /\ call.at \in Path /\ IsLink(call.link)
      /\ Top = call.top /\ LinkOf(mem, call.top, call.at, call.link) /\ Owned(mem, DOMAIN db)
      /\ call.top = Boxed => <<>> \in DOMAIN mem
      /\ call.top # Boxed => DOMAIN mem = {}
  BY <1>1, Inserting
<1>3. PICK h \in DOMAIN db : call.link = HashLink(h) /\ call.link.hash = h
  BY <1>1, <1>2, LinkTypes DEF IsLink
<1>4. Closed(db) /\ Childless(db[h], DOMAIN db)
  BY <1>1, InsertsKey, StoredChildless DEF IndInv
<1>5. /\ mem' = With(Relink(mem, call.at, Boxed), call.at, db[h]) /\ db' = db
      /\ Top' = IF call.at = <<>> THEN Boxed ELSE call.top
  BY <1>3 DEF InsertLoad, InsertCall, Top
<1>6. Top' = Boxed
  <2>1. Attached(mem, DOMAIN db, call.top, call.at, db[h], mem')
    BY <1>1, <1>2, <1>4, <1>5, LinkTypes, AttachAt
  <2> QED BY <1>5, <2>1 DEF Attached
<1>7. ASSUME NEW key \in Path PROVE Holds(Top, mem, db, key)' = Holds(Top, mem, db, key)
  <2>1. LinkOf(mem, call.top, call.at, HashLink(h))
    BY <1>2, <1>3
  <2>2. Holds(Boxed, mem', db, key) = Holds(call.top, mem, db, key)
    BY <1>2, <1>4, <1>5, <2>1, LoadHolds
  <2> QED BY <1>2, <1>5, <1>6, <2>2 DEF Holds
<1> QED BY <1>7 DEF MapKept

\* A write of collapse leaves the map as it is.
LEMMA CollapseKeepsMap ==
  ASSUME IndInv, CollapseNode
  PROVE  MapKept
<1>1. call.op = "commit"
  BY DEF CollapseNode
<1>2. /\ Top = call.top /\ Owned(mem, DOMAIN db)
      /\ call.top = Boxed => <<>> \in DOMAIN mem
      /\ call.top # Boxed => DOMAIN mem = {}
  BY <1>1, Committing
<1>3. PICK p \in Collapsible(mem) :
        LET link == HashLink(Hash(mem[p]))
            rest == [q \in DOMAIN mem \ {p} |-> mem[q]]
        IN  /\ db' = Written(mem[p])
            /\ mem' = Relink(rest, p, link)
            /\ call' = CommitCall(IF p = <<>> THEN link ELSE call.top, call.then)
  BY DEF CollapseNode
<1>4. p \in DOMAIN mem /\ \A link \in Links(mem[p]) : link # Boxed
  BY DEF Collapsible
<1>5. \A s \in Slots(mem[p]) : LinkAt(mem[p], s) # Boxed
  BY <1>4 DEF Links
<1>6. call.top = Boxed /\ <<>> \in DOMAIN mem
  BY <1>2, <1>4
<1>7. PICK h : h = Hash(mem[p]) /\ Collapses(mem, db, p, h, mem', db')
  BY <1>3 DEF Collapses, Written
<1>8. Top' = IF p = <<>> THEN HashLink(h) ELSE Boxed
  BY <1>3, <1>6, <1>7 DEF Top, CommitCall
<1>9. Closed(db) /\ \A g \in DOMAIN db : g = Hash(db[g])
  BY StoreClosedIs DEF IndInv, StoreInv, StoreClosed
<1>10. ASSUME NEW key \in Path PROVE Holds(Top, mem, db, key)' = Holds(Top, mem, db, key)
  <2>1. Holds(IF p = <<>> THEN HashLink(h) ELSE Boxed, mem', db', key) = Holds(Boxed, mem, db, key)
    BY <1>2, <1>4, <1>5, <1>6, <1>7, <1>9, CollapseHolds
  <2> QED BY <1>2, <1>6, <1>8, <2>1 DEF Holds
<1> QED BY <1>10 DEF MapKept

\* The root a commit ends with names the current map.
LEMMA CommittedMap ==
  ASSUME IndInv, FinishCommit, IsHash(call.top)
  PROVE  VersionMap(call.top.hash) = CurrentMap
<1>1. call.op = "commit" /\ call.top # Boxed
  BY DEF FinishCommit
<1>2. Top = call.top /\ IsLink(call.top) /\ DOMAIN mem = {} /\ IsStore(mem)
  BY <1>1, Committing DEF Owned
<1>3. call.top = HashLink(call.top.hash)
  BY <1>2, LinkTypes DEF IsLink
<1>4. mem = NoNodes
  BY <1>2 DEF IsStore, NoNodes
<1> QED BY <1>2, <1>3, <1>4 DEF VersionMap, CurrentMap

\* A digest that is not stored names a map that cannot be read.
LEMMA NothingStored ==
  ASSUME NEW h, h \notin DOMAIN db, NEW m, NEW k \in Key
  PROVE  Contents(HashLink(h), m, db, convert_bytes_to_nibbles(k)) = Unreadable
<1>1. PICK link : link = HashLink(h) /\ link # Empty /\ link # Boxed /\ link.hash = h
  BY LinkTypes
<1>2. convert_bytes_to_nibbles(k) \in Path
  BY HasIs
<1>3. ~Resolves(link, <<>>, m, db)
  BY <1>1 DEF Resolves
<1>4. ContentsFrom(link, <<>>, m, db, convert_bytes_to_nibbles(k)) = Unreadable
  BY <1>1, <1>2, <1>3, EmptyPath, PrefixRefl, ContentsRecursion
<1> QED BY <1>1, <1>2, <1>4, ContentsIsFrom

\* Revert makes a version, or the unreadable map, the current one.
LEMMA RevertReverts ==
  ASSUME NoNodeIsForeign, IndInv, NEW h \in KnownHash, Revert(h)
  PROVE  CurrentMap' \in {Versions[g] : g \in roots} \cup {Promise!UnreadableMap}
<1>1. Top' = HashLink(h) /\ mem' = NoNodes /\ db' = db
  BY DEF Revert, Top, Idle
<1>2. CurrentMap' = VersionMap(h)
  BY <1>1 DEF CurrentMap, VersionMap
<1>3. CASE h \in roots
  BY <1>2, <1>3 DEF Versions
<1>4. CASE h \notin roots
  <2>1. h \in ForeignHash
    BY <1>4 DEF KnownHash
  <2>2. h \notin DOMAIN db
    BY <2>1 DEF NoNodeIsForeign, IndInv, StoreInv, StoreClosed
  <2>3. \A k \in Key : Contents(HashLink(h), NoNodes, db, convert_bytes_to_nibbles(k)) = Unreadable
    BY <2>2, NothingStored
  <2>4. VersionMap(h) = Promise!UnreadableMap
    BY <2>3 DEF VersionMap, Promise!UnreadableMap
  <2> QED BY <1>2, <2>4
<1> QED BY <1>3, <1>4

\* An insertion that cannot read a node although the database never fails
\* works in a map that cannot be read.
LEMMA LostOnlyUnreadable ==
  ASSUME IndInv, call.op = "insert", IsHash(call.link), call.link.hash \notin DOMAIN db
  PROVE  CurrentMap = Promise!UnreadableMap
<1>1. /\ Top = call.top /\ LinkOf(mem, call.top, call.at, call.link) /\ Owned(mem, DOMAIN db)
      /\ IsLink(call.link)
  BY Inserting
<1>2. call.link = call.top
  <2>1. ASSUME NEW p \in DOMAIN mem, NEW slot \in Slots(mem[p]), call.link = LinkAt(mem[p], slot)
        PROVE  FALSE
    BY <1>1, <2>1 DEF Owned, Links
  <2> QED BY <1>1, <2>1 DEF LinkOf
<1>3. PICK h : Top = HashLink(h) /\ h \notin DOMAIN db
  BY <1>1, <1>2, LinkTypes DEF IsLink
<1>4. \A k \in Key : Contents(Top, mem, db, convert_bytes_to_nibbles(k)) = Unreadable
  BY <1>3, NothingStored
<1> QED BY <1>4 DEF CurrentMap, Promise!UnreadableMap

-----------------------------------------------------------------------------
(* The refinement.                                                         *)

\* The state of the map, and its steps.
LEMMA PromiseIs ==
  /\ Promise!vars = <<CurrentMap, Versions>>
  /\ Promise!Put <=> PutStep /\ UNCHANGED Versions
  /\ Promise!Publish <=>
       /\ \E h \in DOMAIN Versions' :
            /\ h \in DOMAIN Versions => Versions[h] = CurrentMap
            /\ Versions' = [g \in DOMAIN Versions \cup {h} |-> IF g = h THEN CurrentMap ELSE Versions[g]]
       /\ UNCHANGED CurrentMap
  /\ Promise!Revert <=>
       /\ CurrentMap' \in {Versions[h] : h \in DOMAIN Versions} \cup {Promise!UnreadableMap}
       /\ UNCHANGED Versions
  /\ Promise!Lose <=>
       /\ Faults \/ CurrentMap = Promise!UnreadableMap
       /\ CurrentMap' = Promise!EmptyMap
       /\ UNCHANGED Versions
BY DEF Promise!vars, Promise!Put, Promise!Publish, Promise!Revert, Promise!Lose, PutStep, Versions

\* A step of the map, or none.
Allowed == [Promise!Next]_(Promise!vars)

\* What a step of the trie may be, for the map.
LEMMA AllowedSteps ==
  /\ CurrentMap' = CurrentMap /\ UNCHANGED Versions => Allowed
  /\ PutStep /\ UNCHANGED Versions => Allowed
  /\ /\ Faults \/ CurrentMap = Promise!UnreadableMap
     /\ CurrentMap' = Promise!EmptyMap
     /\ UNCHANGED Versions
     => Allowed
<1>1. ASSUME CurrentMap' = CurrentMap, UNCHANGED Versions PROVE Allowed
  <2>1. UNCHANGED Promise!vars
    BY <1>1 DEF Promise!vars, Versions
  <2> QED BY <2>1 DEF Allowed
<1>2. ASSUME PutStep, UNCHANGED Versions PROVE Allowed
  <2>1. Promise!Put
    BY <1>2, PromiseIs
  <2> QED BY <2>1 DEF Allowed, Promise!Next
<1>3. ASSUME Faults \/ CurrentMap = Promise!UnreadableMap, CurrentMap' = Promise!EmptyMap, UNCHANGED Versions
      PROVE  Allowed
  <2>1. Promise!Lose
    BY <1>3, PromiseIs
  <2> QED BY <2>1 DEF Allowed, Promise!Next
<1> QED BY <1>1, <1>2, <1>3

\* A commit that returns a root publishes the current map.
LEMMA CommitPublishes ==
  ASSUME IndInv, FinishCommit, \A h \in roots : VersionMap(h)' = VersionMap(h)
  PROVE  Allowed
<1>1. UNCHANGED <<mem, db>> /\ Top' = Top
  BY DEF FinishCommit, Top, Idle, ProofCall, ReadCall
<1>2. CurrentMap' = CurrentMap
  BY <1>1, SameTree, SameMap
<1>3. CASE roots' = roots
  <2>1. UNCHANGED Versions
    BY <1>3 DEF Versions
  <2> QED BY <1>2, <2>1, AllowedSteps
<1>4. CASE roots' # roots
  <2>1. PICK h : IsHash(call.top) /\ h = call.top.hash /\ roots' = roots \cup {h}
    BY <1>4 DEF FinishCommit
  <2>2. VersionMap(h) = CurrentMap
    BY <2>1, CommittedMap
  <2>3. VersionMap(h)' = VersionMap(h)
    BY <1>1 DEF VersionMap
  <2>4. ASSUME NEW g \in roots' PROVE Versions'[g] = IF g = h THEN CurrentMap ELSE Versions[g]
    BY <2>1, <2>2, <2>3, <2>4 DEF Versions
  <2>5. DOMAIN Versions = roots /\ DOMAIN Versions' = roots'
    BY DEF Versions
  <2>6. Versions' = [g \in DOMAIN Versions \cup {h} |-> IF g = h THEN CurrentMap ELSE Versions[g]]
    <3>1. Versions' = [g \in roots' |-> Versions'[g]]
      BY DEF Versions
    <3> QED BY <2>1, <2>4, <2>5, <3>1
  <2>7. h \in DOMAIN Versions' /\ (h \in DOMAIN Versions => Versions[h] = CurrentMap)
    BY <2>1, <2>2, <2>5 DEF Versions
  <2>8. Promise!Publish
    BY <1>2, <2>6, <2>7, PromiseIs
  <2> QED BY <2>8 DEF Allowed, Promise!Next
<1> QED BY <1>3, <1>4

\* What a step that loses no prefix does to what the tree holds: nothing, one
\* key put, everything lost, or a version put in its place.
LEMMA MapSteps ==
  ASSUME IndInv, KeyInv, [Next]_vars, ~LosesPrefix
  PROVE  \/ MapKept
         \/ call.op = "insert" /\ KeyGiven
         \/ Top' = Empty /\ (Faults \/ CurrentMap = Promise!UnreadableMap)
         \/ \E h \in KnownHash : Revert(h)
<1>1. ASSUME Top' = Top, UNCHANGED <<mem, db>> PROVE MapKept
  BY <1>1, SameTree
<1>2. ASSUME NEW k \in Key, NEW v \in Value, Insert(k, v) PROVE MapKept
  <2>1. Top' = Top
    BY <1>2 DEF Insert, InsertCall, Top, Idle
  <2> QED BY <1>1, <1>2, <2>1 DEF Insert
<1>3. ASSUME NEW then, call = Idle, StartCommit(then) PROVE MapKept
  <2>1. Top' = Top
    BY <1>3 DEF StartCommit, CommitCall, Top, Idle
  <2> QED BY <1>1, <1>3, <2>1 DEF StartCommit
<1>4. ASSUME UNCHANGED <<root, mem, db>>, call.op \notin {"insert", "commit"},
             call'.op \notin {"insert", "commit"}
      PROVE  MapKept
  <2>1. Top' = Top
    BY <1>4 DEF Top
  <2> QED BY <1>1, <1>4, <2>1
<1>5. ASSUME NEW k \in Key, GetValue(k) PROVE MapKept
  BY <1>4, <1>5 DEF GetValue, ReadCall, Idle
<1>6. ASSUME NEW h \in KnownHash, NEW k \in Key, GetProof(h, k) PROVE MapKept
  BY <1>3, <1>4, <1>6 DEF GetProof, ProofCall, ReadCall, Idle
<1>7. CASE Commit
  BY <1>3, <1>7 DEF Commit
<1>8. CASE InsertIntoEmpty \/ InsertHere
  BY <1>8, InsertIntoEmptyGives, InsertHereGives DEF InsertIntoEmpty, InsertHere
<1>9. CASE InsertLoad \/ CollapseNode
  BY <1>9, LoadKeepsMap, CollapseKeepsMap
<1>10. CASE InsertDescend
  <2>1. Top' = Top
    BY <1>10 DEF InsertDescend, InsertCall, Top
  <2> QED BY <1>1, <1>10, <2>1 DEF InsertDescend
<1>11. CASE InsertFails
  <2>1. call.op = "insert" /\ call' = Idle /\ UNCHANGED root
    BY <1>11 DEF InsertFails
  <2>2. Top' = Empty
    BY <2>1, RootGone
  <2>3. Faults \/ CurrentMap = Promise!UnreadableMap
    BY <1>11, LostOnlyUnreadable DEF InsertFails
  <2> QED BY <2>2, <2>3
<1>12. CASE CommitFails
  <2>1. call.op = "commit" /\ call' = Idle /\ UNCHANGED root /\ Faults
    BY <1>12 DEF CommitFails
  <2>2. Top' = Empty
    BY <2>1, RootGone
  <2> QED BY <2>1, <2>2
<1>13. CASE FinishCommit
  <2>1. UNCHANGED <<mem, db>> /\ Top' = Top
    BY <1>13 DEF FinishCommit, Top, Idle, ProofCall, ReadCall
  <2> QED BY <1>1, <2>1
<1>14. CASE ReadDescend \/ ReadHere \/ ReadEmpty \/ ReadNoRoot \/ ReadFails \/ Resume \/ VerifyProof
  <2>1. /\ UNCHANGED <<root, mem, db>> /\ call.op \notin {"insert", "commit"}
        /\ call'.op \notin {"insert", "commit"}
    <3>1. CASE ReadDescend
      BY <3>1 DEF ReadDescend, Reading, ReadCall
    <3>2. CASE ReadHere \/ ReadEmpty \/ ReadNoRoot \/ ReadFails
      BY <3>2 DEF ReadHere, ReadEmpty, ReadNoRoot, ReadFails, Reading, Return, Returned
    <3>3. CASE Resume \/ VerifyProof
      BY <3>3 DEF Resume, VerifyProof, ReadCall, Idle
    <3> QED BY <1>14, <3>1, <3>2, <3>3
  <2> QED BY <1>4, <2>1
<1>15. CASE Restart \/ InsertUnserializable
  <2>1. Top' = Empty /\ Faults
    BY <1>15 DEF Restart, InsertUnserializable, Top, Idle
  <2> QED BY <2>1
<1>16. CASE UNCHANGED vars
  <2>1. UNCHANGED <<mem, db>> /\ Top' = Top
    BY <1>16 DEF vars, Top
  <2> QED BY <1>1, <2>1
<1> QED BY <1>2, <1>5, <1>6, <1>7, <1>8, <1>9, <1>10, <1>11, <1>12, <1>13, <1>14, <1>15, <1>16
        DEF Next, Step

\* A commit that returns its root is the only step that adds a version.
LEMMA OnlyCommitAdds ==
  ASSUME [Next]_vars
  PROVE  UNCHANGED roots \/ FinishCommit
BY DEF Next, Step, vars, Insert, InsertUnserializable, GetValue, Commit, StartCommit, Revert, GetProof,
       VerifyProof, InsertIntoEmpty, FinishInsert, InsertLoad, InsertDescend, InsertHere, InsertFails,
       CollapseNode, CommitFails, ReadDescend, ReadHere, ReadEmpty, ReadNoRoot, ReadFails, Return, Resume,
       Restart

\* Every step of the trie that loses no prefix is a step of the map, or none.
LEMMA StepImplements ==
  ASSUME NoNodeIsForeign, IndInv, IndInv', RootsInv, KeyInv, [Next]_vars, ~LosesPrefix
  PROVE  Allowed
<1>1. \A h \in roots : VersionMap(h)' = VersionMap(h)
  BY StoreKept, VersionsKept
<1>2. CASE FinishCommit
  BY <1>1, <1>2, CommitPublishes
<1>3. CASE UNCHANGED roots
  <2>1. UNCHANGED Versions /\ DOMAIN Versions = roots
    BY <1>1, <1>3 DEF Versions
  <2>2. CASE MapKept
    BY <2>1, <2>2, SameMap, AllowedSteps
  <2>3. CASE call.op = "insert" /\ KeyGiven
    BY <2>1, <2>3, InsertPuts, AllowedSteps
  <2>4. CASE Top' = Empty /\ (Faults \/ CurrentMap = Promise!UnreadableMap)
    BY <2>1, <2>4, NoRoot, AllowedSteps
  <2>5. ASSUME NEW h \in KnownHash, Revert(h) PROVE Allowed
    <3>1. CurrentMap' \in {Versions[g] : g \in roots} \cup {Promise!UnreadableMap}
      BY <2>5, RevertReverts
    <3>2. Promise!Revert
      BY <2>1, <3>1, PromiseIs
    <3> QED BY <3>2 DEF Allowed, Promise!Next
  <2> QED BY <2>2, <2>3, <2>4, <2>5, MapSteps
<1> QED BY <1>2, <1>3, OnlyCommitAdds

\* The trie is a versioned map, whichever of its nodes are boxed and whichever
\* are stored: insertions put one key, commits publish the current map, collapses
\* and loads change nothing - as long as no insertion splits an extension below
\* a shared prefix with one nibble of it left, which is where the code loses the
\* prefix, and no digest the caller makes up is that of a node.
THEOREM TrieImplementsVersionedMap ==
  ASSUME NoNodeIsForeign
  PROVE  Spec /\ [][~LosesPrefix]_vars => ImplementsVersionedMap
<1>1. Init => Promise!Init
  <2>1. ASSUME Init PROVE CurrentMap = Promise!EmptyMap /\ [h \in roots |-> VersionMap(h)] = [h \in {} |-> Promise!EmptyMap]
    <3>1. Top = Empty /\ roots = {}
      BY <2>1 DEF Init, Top, Idle
    <3>2. ASSUME NEW k \in Key PROVE Has(k) = None
      <4>1. convert_bytes_to_nibbles(k) \in Path /\ Has(k) = ContentsFrom(Empty, <<>>, mem, db, convert_bytes_to_nibbles(k))
        BY <3>1, HasIs DEF Holds
      <4>2. ContentsFrom(Empty, <<>>, mem, db, convert_bytes_to_nibbles(k)) = None
        BY <4>1, EmptyPath, PrefixRefl, ContentsRecursion
      <4> QED BY <4>1, <4>2
    <3>3. CurrentMap = Promise!EmptyMap
      BY <3>2, HasIs DEF Promise!EmptyMap
    <3> QED BY <3>1, <3>3
  <2> QED BY <2>1 DEF Promise!Init
<1>2. IndInv /\ IndInv' /\ RootsInv /\ KeyInv /\ [Next]_vars /\ [~LosesPrefix]_vars => Allowed
  <2>1. ASSUME IndInv, IndInv', RootsInv, KeyInv, [Next]_vars, ~LosesPrefix PROVE Allowed
    BY <2>1, StepImplements
  <2>2. ASSUME UNCHANGED vars PROVE Allowed
    <3>1. UNCHANGED <<CurrentMap, Versions>>
      BY <2>2 DEF vars, CurrentMap, Versions, VersionMap, Top
    <3> QED BY <3>1, AllowedSteps
  <2> QED BY <2>1, <2>2
<1> QED BY <1>1, <1>2, IndInvHolds, RootsInvHolds, KeyInvHolds, PTL
        DEF Spec, ImplementsVersionedMap, Promise!Spec, Allowed

\* What an insertion reports as done can be read: the trie it leaves has the
\* value under the key, again unless a split loses a prefix.
THEOREM WritesRead == Spec /\ [][~LosesPrefix]_vars => ReadYourWrites
<1>1. ASSUME IndInv, KeyInv, [Next]_vars, ~LosesPrefix, call.op = "insert", call' = Idle, root' = Boxed
      PROVE  Contents(Boxed, mem', db', call.key) = call.value
  <2>1. InsertIntoEmpty \/ InsertHere
    <3>1. root = Empty /\ Empty # Boxed
      BY <1>1, Inserting, LinkTypes
    <3>2. call # Idle
      BY <1>1 DEF Idle
    <3>3. ~InsertLoad /\ ~InsertDescend /\ ~InsertFails
      BY <1>1, <3>1 DEF InsertLoad, InsertDescend, InsertFails, InsertCall, Idle
    <3>4. ~CollapseNode /\ ~FinishCommit /\ ~CommitFails /\ ~Resume /\ ~VerifyProof
      BY <1>1 DEF CollapseNode, FinishCommit, CommitFails, Resume, VerifyProof
    <3>5. ~ReadDescend /\ ~ReadHere /\ ~ReadEmpty /\ ~ReadNoRoot /\ ~ReadFails
      BY <1>1 DEF ReadDescend, ReadHere, ReadEmpty, ReadNoRoot, ReadFails, Reading
    <3>6. ~Restart /\ ~InsertUnserializable /\ ~Commit /\ ~(UNCHANGED vars)
      BY <1>1, <3>1, <3>2, LinkTypes DEF Restart, InsertUnserializable, Commit, vars
    <3>7. \A k \in Key, v \in Value : ~Insert(k, v)
      BY <3>2 DEF Insert
    <3>8. /\ \A k \in Key : ~GetValue(k)
          /\ \A h \in KnownHash : ~Revert(h)
          /\ \A h \in KnownHash, k \in Key : ~GetProof(h, k)
      BY <3>2 DEF GetValue, Revert, GetProof
    <3> QED BY <1>1, <3>3, <3>4, <3>5, <3>6, <3>7, <3>8 DEF Next, Step
  <2>2. KeyGiven
    BY <1>1, <2>1, InsertIntoEmptyGives, InsertHereGives
  <2>3. call.key \in Path /\ Top' = Boxed
    BY <1>1, Inserting DEF Top, Idle
  <2>4. Holds(Boxed, mem', db', call.key) = call.value
    BY <2>2, <2>3 DEF KeyGiven, Gives
  <2> QED BY <2>3, <2>4, ContentsIsFrom DEF Holds
<1>2. /\ IndInv /\ KeyInv /\ [Next]_vars /\ [~LosesPrefix]_vars
      => [call.op = "insert" /\ call' = Idle /\ root' = Boxed
            => Contents(Boxed, mem', db', call.key) = call.value]_vars
  BY <1>1
<1> QED BY <1>2, IndInvHolds, KeyInvHolds, PTL DEF Spec, ReadYourWrites

-----------------------------------------------------------------------------
(* A stored node and what it holds determine each other.                   *)

\* Of a key `rest' is left at n, and `slot' is where it goes on.
Meets(key, at, n, rest, slot) == rest = Drop(key, Len(at)) /\ slot = NextSlot(n, rest)

\* The recursion of Contents in these words.
LEMMA NodeGives ==
  ASSUME NEW key \in Path, NEW at \in Path, StartsWith(key, at), NEW m, NEW d,
         NEW n, IsNode(n), NEW link, LeadsTo(link, at, m, d, n),
         NEW rest, NEW slot, Meets(key, at, n, rest, slot)
  PROVE  /\ ~Descends(n, rest) => ContentsFrom(link, at, m, d, key) = ValueAt(n, rest)
         /\ Descends(n, rest) =>
              /\ slot \in Slots(n) /\ at \o slot \in Path /\ StartsWith(key, at \o slot)
              /\ ContentsFrom(link, at, m, d, key) = ContentsFrom(LinkAt(n, slot), at \o slot, m, d, key)
<1>2. ~Descends(n, rest) => ContentsFrom(link, at, m, d, key) = ValueAt(n, rest)
  BY ContentsRecursion DEF LeadsTo, Meets
<1>3. Descends(n, rest) =>
        /\ slot \in Slots(n) /\ at \o slot \in Path /\ StartsWith(key, at \o slot)
        /\ ContentsFrom(link, at, m, d, key) = ContentsFrom(LinkAt(n, slot), at \o slot, m, d, key)
  BY FromSlot DEF LeadsTo, Meets
<1> QED BY <1>2, <1>3

\* Link l holds below p what it holds without.
Shifts(p, l, q, m, d, key) ==
  ContentsFrom(l, p \o q, m, d, p \o key) = ContentsFrom(l, q, m, d, key)

\* What a stored link holds does not depend on where it hangs.
LEMMA Anywhere ==
  ASSUME NEW d, Closed(d), NEW m, NEW p \in Path, NEW key \in Path,
         NEW at \in Path, StartsWith(key, at), NEW link, Leads(link, d)
  PROVE  Shifts(p, link, at, m, d, key)
<1> DEFINE AllLinks == {link, Empty} \cup {HashLink(h) : h \in DOMAIN d}
           S == {t \in [at : Path, link : AllLinks] : StartsWith(key, t.at) /\ Leads(t.link, d)}
           Good == {t \in S : Shifts(p, t.link, t.at, m, d, key)}
<1>1. ASSUME NEW t \in S, t \notin Good
      PROVE  \E u \in S : Len(u.at) > Len(t.at) /\ (u \in Good => t \in Good)
  <2> DEFINE q == t.at
             l == t.link
  <2>1. q \in Path /\ StartsWith(key, q) /\ Leads(l, d)
    OBVIOUS
  <2>21. ~Shifts(p, l, q, m, d, key)
    BY <1>1
  <2>2. t.at = q /\ t.link = l
    OBVIOUS
  <2> HIDE DEF q, l
  <2>3. /\ p \o q \in Path /\ p \o key \in Path /\ StartsWith(p \o key, p \o q)
        /\ Drop(key, Len(q)) \in Path
    BY <2>1, ConcatPath, PrefixConcat, PathParts
  <2>4. Drop(p \o key, Len(p \o q)) = Drop(key, Len(q))
    <3>1. PICK y \in Path : y = Drop(key, Len(q)) /\ key = q \o y
      BY <2>1, PrefixDrop
    <3>2. (p \o q) \o y = p \o (q \o y)
      BY <2>1, ConcatAssoc, SMTT(30)
    <3>3. Drop((p \o q) \o y, Len(p \o q)) = y
      BY <2>3, ConcatPrefix
    <3> QED BY <3>1, <3>2, <3>3
  <2>5. l # Empty
    BY <2>1, <2>21, <2>3, ContentsRecursion DEF Shifts
  <2>6. PICK h \in DOMAIN d : h = l.hash /\ IsHash(l) /\ l # Boxed
    BY <2>1, <2>5, LinkTypes DEF Leads
  <2>7. PICK n : n = d[h] /\ IsNode(n)
    BY DEF Closed, IsStore
  <2>8. LeadsTo(l, q, m, d, n) /\ LeadsTo(l, p \o q, m, d, n)
    BY <2>6, <2>7 DEF LeadsTo, Resolves, Resolve
  <2>9. PICK rest, slot : rest = Drop(key, Len(q)) /\ slot = NextSlot(n, rest)
    OBVIOUS
  <2>10. Meets(key, q, n, rest, slot) /\ Meets(p \o key, p \o q, n, rest, slot)
    BY <2>4, <2>9 DEF Meets
  <2>11. /\ ~Descends(n, rest) => ContentsFrom(l, q, m, d, key) = ValueAt(n, rest)
         /\ Descends(n, rest) =>
              /\ slot \in Slots(n) /\ q \o slot \in Path /\ StartsWith(key, q \o slot)
              /\ ContentsFrom(l, q, m, d, key) = ContentsFrom(LinkAt(n, slot), q \o slot, m, d, key)
    BY <2>1, <2>7, <2>8, <2>10, NodeGives
  <2>12. /\ ~Descends(n, rest) => ContentsFrom(l, p \o q, m, d, p \o key) = ValueAt(n, rest)
         /\ Descends(n, rest) =>
              ContentsFrom(l, p \o q, m, d, p \o key)
                = ContentsFrom(LinkAt(n, slot), (p \o q) \o slot, m, d, p \o key)
    BY <2>3, <2>7, <2>8, <2>10, NodeGives
  <2>13. Descends(n, rest)
    BY <2>21, <2>11, <2>12 DEF Shifts
  <2>14. /\ slot \in Slots(n) /\ slot \in Path /\ Len(slot) > 0
         /\ (p \o q) \o slot = p \o (q \o slot)
         /\ Len(q \o slot) = Len(q) + Len(slot) /\ Len(q) \in Nat /\ Len(slot) \in Nat
    <3>1. slot \in Slots(n) /\ slot \in Path /\ Len(slot) > 0
      BY <2>7, <2>11, <2>13, NodeSlots
    <3>2. (p \o q) \o slot = p \o (q \o slot)
      BY <2>1, <3>1, ConcatAssoc, SMTT(30)
    <3>3. Len(q \o slot) = Len(q) + Len(slot) /\ Len(q) \in Nat /\ Len(slot) \in Nat
      BY <2>1, <3>1, ConcatPath, PathLen
    <3> QED BY <3>1, <3>2, <3>3
  <2>15. Len(q \o slot) > Len(q)
    <3>1. PICK a \in Nat, b \in Nat : a = Len(q) /\ b = Len(slot)
      BY <2>14
    <3> QED BY <2>14, <3>1
  <2>16. PICK next : next = LinkAt(n, slot)
    OBVIOUS
  <2>17. Leads(next, d) /\ next \in AllLinks
    <3>1. Leads(next, d) /\ IsLink(next)
      BY <2>7, <2>14, <2>16, NodeSlots DEF Closed, Links
    <3> QED BY <3>1, LinkTypes DEF Leads, IsLink
  <2> DEFINE u == [at |-> q \o slot, link |-> next]
  <2>18. u \in S /\ u.at = q \o slot /\ u.link = next
    BY <2>11, <2>13, <2>17
  <2> HIDE DEF u
  <2>19. Shifts(p, next, q \o slot, m, d, key) => Shifts(p, l, q, m, d, key)
    BY <2>11, <2>12, <2>13, <2>14, <2>16 DEF Shifts
  <2>20. u \in Good => t \in Good
    BY <2>21, <2>18, <2>19
  <2> QED BY <2>2, <2>15, <2>18, <2>20
<1>2. S \subseteq Good
  <2>1. \A t \in S : t.at \in Path /\ StartsWith(key, t.at)
    OBVIOUS
  <2> HIDE DEF S, Good
  <2> QED BY <1>1, <2>1, Downwards
<1>3. [at |-> at, link |-> link] \in S
  OBVIOUS
<1>4. [at |-> at, link |-> link] \in Good
  BY <1>2, <1>3
<1> QED BY <1>4

-----------------------------------------------------------------------------
(* What the stored nodes of each kind hold.                                *)

\* What a stored link, and the node stored under a digest, hold for a path.
Says(link, d, y) == ContentsFrom(link, <<>>, NoNodes, d, y)
Tells(h, d, y)   == Says(HashLink(h), d, y)

\* A stored link holds below any path what it holds from the root.
LEMMA Floats ==
  ASSUME NEW d, Closed(d), NEW at \in Path, NEW y \in Path, NEW link, Leads(link, d)
  PROVE  Under(link, at, NoNodes, d, y) = Says(link, d, y)
<1>1. <<>> \in Path /\ StartsWith(y, <<>>)
  BY PrefixRefl, EmptyPath
<1>2. Shifts(at, link, <<>>, NoNodes, d, y)
  BY <1>1, Anywhere
<1>3. at \o <<>> = at
  BY ConcatEmpty
<1> QED BY <1>2, <1>3 DEF Shifts, Under, Says

\* n is the node stored under h.
Stored(h, d, n) == Closed(d) /\ h \in DOMAIN d /\ n = d[h]

\* The link to a stored node leads to it, and its own links to stored nodes.
LEMMA StoredNode ==
  ASSUME NEW d, NEW h, NEW n, Stored(h, d, n)
  PROVE  /\ IsNode(n) /\ \A link \in Links(n) : Leads(link, d)
         /\ Leads(HashLink(h), d)
         /\ LeadsTo(HashLink(h), <<>>, NoNodes, d, n)
         /\ \A y \in Path : Tells(h, d, y) = Under(HashLink(h), <<>>, NoNodes, d, y)
<1>1. IsNode(n) /\ \A link \in Links(n) : Leads(link, d)
  BY DEF Stored, Closed, IsStore
<1>2. HashLink(h) # Boxed /\ IsHash(HashLink(h)) /\ HashLink(h).hash = h
  BY LinkTypes
<1>3. Leads(HashLink(h), d) /\ LeadsTo(HashLink(h), <<>>, NoNodes, d, n)
  BY <1>2 DEF Stored, Leads, LeadsTo, Resolves, Resolve
<1>4. \A y \in Path : <<>> \o y = y
  BY ConcatEmpty
<1> QED BY <1>1, <1>3, <1>4 DEF Tells, Says, Under

\* A leaf holds its value under the rest of its key, and nothing else.
LEMMA LeafSays ==
  ASSUME NEW d, NEW h, NEW n, Stored(h, d, n), n.kind = "Node", NEW y \in Path
  PROVE  Tells(h, d, y) = IF y = n.rest_of_key THEN n.value ELSE None
<1>1. <<>> \in Path
  BY EmptyPath
<1> QED BY <1>1, StoredNode, UnderLeaf DEF LeadsTo

\* An extension holds under its partial key what its branch holds, and nothing else.
LEMMA ExtensionSays ==
  ASSUME NEW d, NEW h, NEW n, Stored(h, d, n), n.kind = "Extension"
  PROVE  /\ \A z \in Path : Tells(h, d, n.partial_key \o z) = Says(n.branch, d, z)
         /\ \A y \in Path : ~StartsWith(y, n.partial_key) => Tells(h, d, y) = None
<1>1. <<>> \in Path /\ n.partial_key \in Path /\ Leads(n.branch, d)
  BY StoredNode, ExtensionParts, EmptyPath DEF Links
<1>2. <<>> \o n.partial_key = n.partial_key
  BY <1>1, ConcatEmpty
<1>3. Carries(HashLink(h), <<>>, NoNodes, n.partial_key, n.branch, n.partial_key, NoNodes, d)
  BY <1>1, <1>2, StoredNode, UnderExtension
<1>4. \A z \in Path : n.partial_key \o z \in Path
  BY <1>1, ConcatPath
<1>5. ASSUME NEW z \in Path
      PROVE  Tells(h, d, n.partial_key \o z) = Says(n.branch, d, z)
  <2>1. Tells(h, d, n.partial_key \o z) = Under(n.branch, n.partial_key, NoNodes, d, z)
    BY <1>3, <1>4, StoredNode DEF Carries
  <2> QED BY <1>1, <2>1, Floats DEF Stored
<1>6. ASSUME NEW y \in Path, ~StartsWith(y, n.partial_key)
      PROVE  Tells(h, d, y) = None
  BY <1>3, <1>6, StoredNode DEF Carries
<1> QED BY <1>5, <1>6

\* A branch holds its value, and under each nibble what that child holds.
LEMMA BranchSays ==
  ASSUME NEW d, NEW h, NEW n, Stored(h, d, n), n.kind = "Branch"
  PROVE  /\ Tells(h, d, <<>>) = n.value
         /\ \A i \in Nibble : \A z \in Path : Tells(h, d, <<i>> \o z) = Says(n.children[i], d, z)
<1>1. <<>> \in Path
  BY EmptyPath
<1>2. Tells(h, d, <<>>) = n.value
  BY <1>1, StoredNode, UnderBranch DEF LeadsTo
<1>3. ASSUME NEW i \in Nibble, NEW z \in Path
      PROVE  Tells(h, d, <<i>> \o z) = Says(n.children[i], d, z)
  <2>1. <<i>> \in Path /\ <<i>> \o z \in Path /\ <<>> \o <<i>> = <<i>>
    BY OneNibble, ConcatPath, ConcatEmpty
  <2>2. Leads(n.children[i], d)
    <3>1. <<i>> \in Slots(n) /\ LinkAt(n, <<i>>) = n.children[i]
      BY StoredNode, BranchParts
    <3> QED BY <3>1, StoredNode DEF Links
  <2>3. Tells(h, d, <<i>> \o z) = Under(n.children[i], <<>> \o <<i>>, NoNodes, d, z)
    <3>1. Under(HashLink(h), <<>>, NoNodes, d, <<i>> \o z)
            = Under(n.children[i], <<>> \o <<i>>, NoNodes, d, z)
      <4>1. Resolves(HashLink(h), <<>>, NoNodes, d) /\ n = Resolve(HashLink(h), <<>>, NoNodes, d) /\ IsNode(n)
        BY StoredNode DEF LeadsTo
      <4>2. <<i>> \in Slots(n) /\ LinkAt(n, <<i>>) = n.children[i]
        BY <4>1, BranchParts
      <4>3. PICK s \in Slots(n) : s = <<i>>
        BY <4>2
      <4>4. PICK at \in Path : at = <<>>
        BY <1>1
      <4>41. PICK l, m : l = HashLink(h) /\ m = NoNodes
        OBVIOUS
      <4>42. Resolves(l, at, m, d) /\ n = Resolve(l, at, m, d) /\ IsNode(n)
        BY <4>1, <4>4, <4>41
      <4>5. Under(l, at, m, d, s \o z) = Under(LinkAt(n, s), at \o s, m, d, z)
        BY <4>42, UnderSlot
      <4> QED BY <4>2, <4>3, <4>4, <4>41, <4>5
    <3> QED BY <2>1, <3>1, StoredNode
  <2> QED BY <2>1, <2>2, <2>3, Floats DEF Stored
<1> QED BY <1>2, <1>3

-----------------------------------------------------------------------------
(* Two stored nodes that hold the same are one node.                       *)

\* Link leads to a node stored under a digest in D, or is empty.
LeadsInto(link, D) == link = Empty \/ \E c \in D : link = HashLink(c)

\* Every node stored under a digest in D holds a value, and no two of them
\* hold the same.
Inhabited(D, d) == \A h \in D : \E y \in Path : Tells(h, d, y) # None
Canonical(D, d) == \A g, h \in D : (\A y \in Path : Tells(g, d, y) = Tells(h, d, y)) => g = h

\* n is stored under its digest h, has the shape a node must have, and its
\* children are in D.
Sound(h, d, n, D) ==
  /\ Stored(h, d, n)
  /\ h = Hash(n)
  /\ FineAlone(n, d)
  /\ \A link \in Links(n) : LeadsInto(link, D)

\* The paths x and y part at their first nibble, at which one of them may end.
Parts(x, y) == x # <<>> /\ (y # <<>> => x[1] # y[1])

\* The node stored under h holds values under paths that part at once.
Diverges(h, d) ==
  \E x, y \in Path : Parts(x, y) /\ Tells(h, d, x) # None /\ Tells(h, d, y) # None

\* An entry of a branch holds something.
LEMMA EntryHolds ==
  ASSUME NEW d, NEW h, NEW n, NEW D, Sound(h, d, n, D), Inhabited(D, d), n.kind = "Branch",
         NEW s \in Path, Used(n, s)
  PROVE  \E y \in Path : /\ Tells(h, d, y) # None
                         /\ s = <<>> <=> y = <<>>
                         /\ s # <<>> => y[1] = s[1]
<1>1. CASE s = <<>>
  BY <1>1, EmptyPath, BranchSays DEF Sound, Used
<1>2. CASE s # <<>>
  <2>1. PICK i \in Nibble : i = s[1]
    BY <1>2, FirstNibble
  <2>2. n.children[i] # Empty /\ <<i>> \in Slots(n) /\ LinkAt(n, <<i>>) = n.children[i]
    BY <1>2, <2>1, StoredNode, BranchParts DEF Used, Sound
  <2>3. PICK c \in D : n.children[i] = HashLink(c)
    BY <2>2 DEF Sound, Links, LeadsInto
  <2>4. PICK z \in Path : Tells(c, d, z) # None
    BY DEF Inhabited
  <2>5. Tells(h, d, <<i>> \o z) # None
    BY <2>3, <2>4, BranchSays DEF Sound, Tells
  <2>6. <<i>> \o z \in Path /\ <<i>> \o z # <<>> /\ (<<i>> \o z)[1] = i
    <3>1. <<i>> \in Path /\ Len(<<i>>) = 1 /\ <<i>>[1] = i
      BY OneNibble
    <3>2. PICK k \in Nat : k = Len(z)
      BY PathLen
    <3>3. <<i>> \o z \in Path /\ Len(<<i>> \o z) = 1 + k /\ (<<i>> \o z)[1] = i
      BY <3>1, <3>2, ConcatPath
    <3> QED BY <3>2, <3>3, EmptyPath
  <2> QED BY <1>2, <2>1, <2>5, <2>6
<1> QED BY <1>1, <1>2

\* A branch has two entries: it diverges.
LEMMA BranchDiverges ==
  ASSUME NEW d, NEW h, NEW n, NEW D, Sound(h, d, n, D), Inhabited(D, d), n.kind = "Branch"
  PROVE  Diverges(h, d)
<1>1. PICK s \in Path, t \in Path : /\ Used(n, s) /\ Used(n, t)
                                    /\ s # <<>> /\ (t # <<>> => s[1] # t[1])
  BY DEF Sound, FineAlone, TwoEntries
<1>2. PICK x \in Path : Tells(h, d, x) # None /\ (s = <<>> <=> x = <<>>) /\ (s # <<>> => x[1] = s[1])
  BY <1>1, EntryHolds
<1>3. PICK y \in Path : Tells(h, d, y) # None /\ (t = <<>> <=> y = <<>>) /\ (t # <<>> => y[1] = t[1])
  BY <1>1, EntryHolds
<1>4. Parts(x, y)
  BY <1>1, <1>2, <1>3 DEF Parts
<1> QED BY <1>2, <1>3, <1>4 DEF Diverges

\* A leaf holds one path and an extension only paths that begin alike.
LEMMA OthersDoNot ==
  ASSUME NEW d, NEW h, NEW n, Stored(h, d, n), n.kind # "Branch"
  PROVE  ~Diverges(h, d)
<1> SUFFICES ASSUME NEW x \in Path, NEW y \in Path, Parts(x, y),
                    Tells(h, d, x) # None, Tells(h, d, y) # None
             PROVE  FALSE
  BY DEF Diverges
<1>1. CASE n.kind = "Node"
  <2>1. x = y
    BY <1>1, LeafSays
  <2> QED BY <2>1 DEF Parts
<1>2. CASE n.kind = "Extension"
  <2>1. StartsWith(x, n.partial_key) /\ StartsWith(y, n.partial_key)
    BY <1>2, ExtensionSays
  <2>2. n.partial_key \in Path /\ n.partial_key # <<>>
    BY <1>2, StoredNode, ExtensionParts
  <2>3. PICK k \in Nat : k = Len(n.partial_key) /\ k > 0
    BY <2>2, PathLen, EmptyPath
  <2>4. x[1] = n.partial_key[1] /\ y[1] = n.partial_key[1] /\ Len(y) >= k
    BY <2>1, <2>3 DEF StartsWith
  <2>5. y # <<>>
    BY <2>3, <2>4, EmptyPath
  <2> QED BY <2>4, <2>5 DEF Parts
<1> QED BY <1>1, <1>2, StoredNode, NodeKinds

\* The branch an extension leads to.
LEMMA ExtensionLeads ==
  ASSUME NEW d, NEW h, NEW n, NEW D, Sound(h, d, n, D), n.kind = "Extension"
  PROVE  \E b \in D : n.branch = HashLink(b) /\ d[b].kind = "Branch"
<1>1. n.branch \in Links(n)
  BY StoredNode, ExtensionParts DEF Sound, Links
<1>2. IsHash(n.branch) /\ d[n.branch.hash].kind = "Branch"
  BY DEF Sound, FineAlone
<1>3. PICK b \in D : n.branch = HashLink(b)
  BY <1>1, <1>2, LinkTypes DEF Sound, LeadsInto
<1> QED BY <1>2, <1>3, LinkTypes

\* The nodes stored under the digests in D are sound.
AllSound(D, d) == \A h \in D : Sound(h, d, d[h], D)

\* Two links that lead into D and hold the same are one link.
LEMMA SameLinks ==
  ASSUME NEW d, NEW D, Inhabited(D, d), Canonical(D, d),
         NEW k, LeadsInto(k, D), NEW l, LeadsInto(l, D),
         \A y \in Path : Says(k, d, y) = Says(l, d, y)
  PROVE  k = l
<1>1. \A y \in Path : Says(Empty, d, y) = None
  BY EmptyPath, PrefixRefl, ContentsRecursion DEF Says
<1>2. \A c \in D : \E y \in Path : Says(HashLink(c), d, y) # None
  BY DEF Inhabited, Tells
<1>3. CASE k = Empty
  BY <1>1, <1>2, <1>3 DEF LeadsInto
<1>4. CASE l = Empty
  BY <1>1, <1>2, <1>4 DEF LeadsInto
<1>5. CASE \E a \in D : k = HashLink(a) /\ \E b \in D : l = HashLink(b)
  <2>1. PICK a \in D, b \in D : k = HashLink(a) /\ l = HashLink(b)
    BY <1>5
  <2>2. \A y \in Path : Tells(a, d, y) = Tells(b, d, y)
    BY <2>1 DEF Tells
  <2>3. a = b
    BY <2>2 DEF Canonical
  <2> QED BY <2>1, <2>3
<1> QED BY <1>3, <1>4, <1>5 DEF LeadsInto

\* Two nodes are sound and hold the same.
Alikes(g, h, n, r, D, d) ==
  /\ Sound(g, d, n, D) /\ Sound(h, d, r, D)
  /\ \A y \in Path : Tells(g, d, y) = Tells(h, d, y)

\* Two leaves that hold the same are one leaf.
LEMMA SameLeaves ==
  ASSUME NEW d, NEW D, NEW g, NEW h, NEW n, NEW r, Alikes(g, h, n, r, D, d),
         n.kind = "Node", r.kind = "Node"
  PROVE  n = r
<1>1. /\ n = Node(n.rest_of_key, n.value) /\ n.rest_of_key \in Path /\ n.value \in Value
      /\ r = Node(r.rest_of_key, r.value) /\ r.rest_of_key \in Path /\ r.value \in Value
  BY StoredNode, LeafParts DEF Alikes, Sound
<1>2. Tells(g, d, n.rest_of_key) = n.value
  BY <1>1, LeafSays DEF Alikes, Sound
<1>3. Tells(h, d, n.rest_of_key) = IF n.rest_of_key = r.rest_of_key THEN r.value ELSE None
  BY <1>1, LeafSays DEF Alikes, Sound
<1>4. n.rest_of_key = r.rest_of_key /\ n.value = r.value
  BY <1>1, <1>2, <1>3, NoneAssumption DEF Alikes
<1> QED BY <1>1, <1>4

\* An extension holds, behind its partial key, paths that part at once.
LEMMA ExtensionForks ==
  ASSUME NEW d, NEW D, AllSound(D, d), Inhabited(D, d),
         NEW h, NEW n, Sound(h, d, n, D), n.kind = "Extension"
  PROVE  \E x, y \in Path : /\ Parts(x, y)
                            /\ Tells(h, d, n.partial_key \o x) # None
                            /\ Tells(h, d, n.partial_key \o y) # None
<1>1. PICK b \in D : n.branch = HashLink(b) /\ d[b].kind = "Branch"
  BY ExtensionLeads
<1>2. Diverges(b, d)
  BY <1>1, BranchDiverges DEF AllSound
<1>3. PICK x \in Path, y \in Path : Parts(x, y) /\ Tells(b, d, x) # None /\ Tells(b, d, y) # None
  BY <1>2 DEF Diverges
<1>4. \A z \in Path : Tells(h, d, n.partial_key \o z) = Tells(b, d, z)
  BY <1>1, ExtensionSays DEF Sound, Tells
<1> QED BY <1>3, <1>4

\* A leaf holds one path only, an extension does not.
LEMMA LeafIsNoExtension ==
  ASSUME NEW d, NEW D, AllSound(D, d), Inhabited(D, d),
         NEW g, NEW h, NEW n, NEW r, Alikes(g, h, n, r, D, d), n.kind = "Node"
  PROVE  r.kind # "Extension"
<1> SUFFICES ASSUME r.kind = "Extension" PROVE FALSE
  OBVIOUS
<1>1. PICK x \in Path, y \in Path : /\ Parts(x, y)
                                    /\ Tells(h, d, r.partial_key \o x) # None
                                    /\ Tells(h, d, r.partial_key \o y) # None
  BY ExtensionForks DEF Alikes
<1>2. r.partial_key \in Path
  BY StoredNode, ExtensionParts DEF Alikes, Sound
<1>3. r.partial_key \o x \in Path /\ r.partial_key \o y \in Path
  BY <1>2, ConcatPath
<1>4. Tells(g, d, r.partial_key \o x) # None /\ Tells(g, d, r.partial_key \o y) # None
  BY <1>1, <1>3 DEF Alikes
<1>5. r.partial_key \o x = r.partial_key \o y
  <2>1. \A z \in Path : Tells(g, d, z) # None => z = n.rest_of_key
    BY LeafSays DEF Alikes, Sound
  <2> QED BY <1>3, <1>4, <2>1
<1>6. x = y
  BY <1>2, <1>5, ConcatCancel
<1> QED BY <1>1, <1>6 DEF Parts

\* Of two extensions that hold the same, the partial key of the one is a
\* prefix of the other's: beyond it the paths of the other part.
LEMMA PartialKeyPrefix ==
  ASSUME NEW d, NEW D, AllSound(D, d), Inhabited(D, d),
         NEW g, NEW h, NEW n, NEW r, Alikes(g, h, n, r, D, d),
         n.kind = "Extension", r.kind = "Extension"
  PROVE  StartsWith(n.partial_key, r.partial_key)
<1>1. PICK p \in Path, q \in Path : p = n.partial_key /\ q = r.partial_key /\ q # <<>>
  BY StoredNode, ExtensionParts DEF Alikes, Sound
<1>2. PICK x \in Path, y \in Path : /\ Parts(x, y)
                                    /\ Tells(g, d, p \o x) # None
                                    /\ Tells(g, d, p \o y) # None
  BY <1>1, ExtensionForks DEF Alikes
<1>3. p \o x \in Path /\ p \o y \in Path /\ StartsWith(p \o x, p) /\ StartsWith(p \o y, p)
  BY ConcatPath, ConcatPrefix
<1>4. Tells(h, d, p \o x) # None /\ Tells(h, d, p \o y) # None
  BY <1>2, <1>3 DEF Alikes
<1>5. StartsWith(p \o x, q) /\ StartsWith(p \o y, q)
  BY <1>1, <1>3, <1>4, ExtensionSays DEF Alikes, Sound
<1>6. PICK a \in Nat, b \in Nat : a = Len(p) /\ b = Len(q)
  BY PathLen
<1>7. CASE b <= a
  BY <1>1, <1>3, <1>5, <1>6, <1>7, PrefixLinear
<1>8. CASE a < b
  <2>1. StartsWith(q, p)
    BY <1>3, <1>5, <1>6, <1>8, PrefixLinear
  <2>2. PICK s \in Path : q = p \o s
    BY <2>1, PrefixDrop
  <2>3. s # <<>>
    BY <1>6, <1>8, <2>2, ConcatEmpty
  <2>4. StartsWith(x, s) /\ StartsWith(y, s)
    BY <1>5, <2>2, PrefixConcat
  <2>5. PICK k \in Nat : k = Len(s) /\ k > 0
    BY <2>3, PathLen, EmptyPath
  <2>6. x[1] = s[1] /\ y[1] = s[1] /\ Len(y) >= k
    BY <2>4, <2>5 DEF StartsWith
  <2>7. y # <<>>
    BY <2>5, <2>6, EmptyPath
  <2> QED BY <1>2, <2>6, <2>7 DEF Parts
<1> QED BY <1>6, <1>7, <1>8

\* Which of the two comes first does not matter.
LEMMA AlikesSwap ==
  ASSUME NEW d, NEW D, NEW g, NEW h, NEW n, NEW r, Alikes(g, h, n, r, D, d)
  PROVE  Alikes(h, g, r, n, D, d)
BY DEF Alikes

\* Two extensions that hold the same are one: their branches hold the same.
LEMMA SameExtensions ==
  ASSUME NEW d, NEW D, AllSound(D, d), Inhabited(D, d), Canonical(D, d),
         NEW g, NEW h, NEW n, NEW r, Alikes(g, h, n, r, D, d),
         n.kind = "Extension", r.kind = "Extension"
  PROVE  n = r
<1>1. StartsWith(n.partial_key, r.partial_key) /\ StartsWith(r.partial_key, n.partial_key)
  BY PartialKeyPrefix, AlikesSwap
<1>2. /\ n = Extension(n.partial_key, n.branch) /\ n.partial_key \in Path
      /\ r = Extension(r.partial_key, r.branch) /\ r.partial_key \in Path
  BY StoredNode, ExtensionParts DEF Alikes, Sound
<1>3. n.partial_key = r.partial_key
  <2>1. Len(n.partial_key) <= Len(r.partial_key)
    BY <1>1 DEF StartsWith
  <2> QED BY <1>1, <1>2, <2>1, PrefixAntisym
<1>4. PICK b \in D, c \in D : n.branch = HashLink(b) /\ r.branch = HashLink(c)
  BY ExtensionLeads DEF Alikes
<1>5. ASSUME NEW z \in Path
      PROVE  Tells(b, d, z) = Tells(c, d, z)
  <2>1. Tells(g, d, n.partial_key \o z) = Tells(b, d, z)
    BY <1>4, ExtensionSays DEF Alikes, Sound, Tells
  <2>2. Tells(h, d, r.partial_key \o z) = Tells(c, d, z)
    BY <1>4, ExtensionSays DEF Alikes, Sound, Tells
  <2>3. n.partial_key \o z \in Path
    BY <1>2, ConcatPath
  <2> QED BY <1>3, <2>1, <2>2, <2>3 DEF Alikes
<1>6. b = c
  BY <1>5 DEF Canonical
<1> QED BY <1>2, <1>3, <1>4, <1>6

\* Two branches that hold the same are one: their children hold the same, in pairs.
LEMMA SameBranches ==
  ASSUME NEW d, NEW D, Inhabited(D, d), Canonical(D, d),
         NEW g, NEW h, NEW n, NEW r, Alikes(g, h, n, r, D, d),
         n.kind = "Branch", r.kind = "Branch"
  PROVE  n = r
<1>1. /\ n = Branch(n.children, n.value) /\ n.children = [i \in Nibble |-> n.children[i]]
      /\ r = Branch(r.children, r.value) /\ r.children = [i \in Nibble |-> r.children[i]]
      /\ \A i \in Nibble : /\ <<i>> \in Slots(n) /\ LinkAt(n, <<i>>) = n.children[i]
                           /\ <<i>> \in Slots(r) /\ LinkAt(r, <<i>>) = r.children[i]
  BY StoredNode, BranchParts DEF Alikes, Sound
<1>2. n.value = r.value
  BY EmptyPath, BranchSays DEF Alikes, Sound
<1>3. ASSUME NEW i \in Nibble
      PROVE  n.children[i] = r.children[i]
  <2>1. LeadsInto(n.children[i], D) /\ LeadsInto(r.children[i], D)
    BY <1>1 DEF Alikes, Sound, Links
  <2>2. ASSUME NEW z \in Path
        PROVE  Says(n.children[i], d, z) = Says(r.children[i], d, z)
    <3>1. Tells(g, d, <<i>> \o z) = Says(n.children[i], d, z)
      BY BranchSays DEF Alikes, Sound
    <3>2. Tells(h, d, <<i>> \o z) = Says(r.children[i], d, z)
      BY BranchSays DEF Alikes, Sound
    <3>3. <<i>> \o z \in Path
      BY OneNibble, ConcatPath
    <3> QED BY <3>1, <3>2, <3>3 DEF Alikes
  <2> QED BY <2>1, <2>2, SameLinks
<1>4. n.children = r.children
  BY <1>1, <1>3
<1> QED BY <1>1, <1>2, <1>4

\* Two nodes that hold the same are one node, and have one digest.
LEMMA SameNodes ==
  ASSUME NEW d, NEW D, AllSound(D, d), Inhabited(D, d), Canonical(D, d),
         NEW g, NEW h, NEW n, NEW r, Alikes(g, h, n, r, D, d)
  PROVE  g = h
<1>1. n.kind = "Branch" <=> r.kind = "Branch"
  <2>1. n.kind = "Branch" <=> Diverges(g, d)
    BY BranchDiverges, OthersDoNot DEF Alikes, Sound
  <2>2. r.kind = "Branch" <=> Diverges(h, d)
    BY BranchDiverges, OthersDoNot DEF Alikes, Sound
  <2>3. Diverges(g, d) <=> Diverges(h, d)
    BY DEF Alikes, Diverges
  <2> QED BY <2>1, <2>2, <2>3
<1>2. n.kind \in {"Node", "Extension", "Branch"} /\ r.kind \in {"Node", "Extension", "Branch"}
  BY StoredNode, NodeKinds DEF Alikes, Sound
<1>3. n.kind = "Node" => r.kind # "Extension"
  BY LeafIsNoExtension
<1>4. r.kind = "Node" => n.kind # "Extension"
  BY AlikesSwap, LeafIsNoExtension
<1>5. n.kind = r.kind
  BY <1>1, <1>2, <1>3, <1>4
<1>6. n = r
  BY <1>2, <1>5, SameLeaves, SameExtensions, SameBranches
<1> QED BY <1>6 DEF Alikes, Sound

\* A node whose children hold something holds something.
LEMMA SoundHolds ==
  ASSUME NEW d, NEW D, Inhabited(D, d), NEW h, NEW n, Sound(h, d, n, D)
  PROVE  \E y \in Path : Tells(h, d, y) # None
<1>1. CASE n.kind = "Node"
  <2>1. n.rest_of_key \in Path /\ n.value \in Value
    BY <1>1, StoredNode, LeafParts DEF Sound
  <2>2. Tells(h, d, n.rest_of_key) = n.value
    BY <1>1, <2>1, LeafSays DEF Sound
  <2> QED BY <2>1, <2>2, NoneAssumption
<1>2. CASE n.kind = "Extension"
  <2>1. PICK b \in D : n.branch = HashLink(b)
    BY <1>2, ExtensionLeads
  <2>2. PICK z \in Path : Tells(b, d, z) # None
    BY DEF Inhabited
  <2>3. Tells(h, d, n.partial_key \o z) = Tells(b, d, z)
    BY <1>2, <2>1, ExtensionSays DEF Sound, Tells
  <2>4. n.partial_key \o z \in Path
    BY <1>2, StoredNode, ExtensionParts, ConcatPath DEF Sound
  <2> QED BY <2>2, <2>3, <2>4
<1>3. CASE n.kind = "Branch"
  BY <1>3, BranchDiverges DEF Diverges
<1> QED BY <1>1, <1>2, <1>3, StoredNode, NodeKinds DEF Sound

\* What a node stored in d holds it holds in a database that has grown.
LEMMA TellsKept ==
  ASSUME NEW d, Closed(d), NEW e, Extends(e, d), NEW h \in DOMAIN d, NEW y \in Path
  PROVE  Tells(h, e, y) = Tells(h, d, y)
<1>1. <<>> \in Path /\ StartsWith(y, <<>>)
  BY EmptyPath, PrefixRefl
<1>2. Leads(HashLink(h), d)
  BY LinkTypes DEF Leads
<1> QED BY <1>1, <1>2, StoredContents DEF Tells, Says

\* The stored nodes are sound, hold something each, and no two the same.
CanonicalStore(d) ==
  /\ AllSound(DOMAIN d, d)
  /\ Inhabited(DOMAIN d, d)
  /\ Canonical(DOMAIN d, d)

\* Collapse writes a node whose children are stored: e is d and that node.
Writes(d, n, e) ==
  /\ Closed(e) /\ Extends(e, d)
  /\ Hash(n) \in DOMAIN e /\ DOMAIN e = DOMAIN d \cup {Hash(n)}
  /\ e[Hash(n)] = n /\ FineAlone(n, e)
  /\ \A link \in Links(n) : LeadsInto(link, DOMAIN d)
  /\ \A h \in DOMAIN d : FineAlone(d[h], e)

\* That keeps the database canonical: what the stored nodes hold stays, and the
\* new one is told apart from them by its children, which are among them.
LEMMA WriteCanonical ==
  ASSUME NEW d, Closed(d), CanonicalStore(d), NEW n, NEW e, Writes(d, n, e)
  PROVE  CanonicalStore(e)
<1>1. Extends(e, d) /\ Closed(e)
  BY DEF Writes
<1>2. ASSUME NEW h \in DOMAIN e
      PROVE  Sound(h, e, e[h], DOMAIN d)
  <2>1. CASE h \in DOMAIN d
    <3>1. e[h] = d[h]
      BY <2>1 DEF Writes, Extends
    <3>2. h = Hash(d[h]) /\ \A link \in Links(d[h]) : LeadsInto(link, DOMAIN d)
      BY <2>1 DEF CanonicalStore, AllSound, Sound
    <3> QED BY <2>1, <3>1, <3>2, <1>1 DEF Sound, Stored, Writes
  <2>2. CASE h = Hash(n)
    BY <1>1, <2>2 DEF Sound, Stored, Writes
  <2> QED BY <2>1, <2>2 DEF Writes
<1>3. Inhabited(DOMAIN d, e)
  BY <1>1, TellsKept DEF CanonicalStore, Inhabited
<1>4. Canonical(DOMAIN d, e)
  <2> SUFFICES ASSUME NEW g \in DOMAIN d, NEW h \in DOMAIN d,
                      \A y \in Path : Tells(g, e, y) = Tells(h, e, y)
               PROVE  g = h
    BY DEF Canonical
  <2>1. \A y \in Path : Tells(g, d, y) = Tells(h, d, y)
    BY <1>1, TellsKept
  <2> QED BY <2>1 DEF CanonicalStore, Canonical
<1>5. AllSound(DOMAIN d, e)
  BY <1>2 DEF AllSound, Writes
<1>6. Inhabited(DOMAIN e, e)
  BY <1>2, <1>3, SoundHolds DEF Inhabited
<1>7. Canonical(DOMAIN e, e)
  <2> SUFFICES ASSUME NEW g \in DOMAIN e, NEW h \in DOMAIN e,
                      \A y \in Path : Tells(g, e, y) = Tells(h, e, y)
               PROVE  g = h
    BY DEF Canonical
  <2>1. PICK n1, n2 : n1 = e[g] /\ n2 = e[h]
    OBVIOUS
  <2>2. Alikes(g, h, n1, n2, DOMAIN d, e)
    BY <1>2, <2>1 DEF Alikes
  <2> QED BY <1>3, <1>4, <1>5, <2>2, SameNodes
<1>8. AllSound(DOMAIN e, e)
  BY <1>2 DEF AllSound, Sound, LeadsInto, Writes
<1> QED BY <1>6, <1>7, <1>8 DEF CanonicalStore

\* A step keeps the stored nodes canonical: collapse is the only one that writes.
LEMMA CanonicalInductive ==
  ASSUME IndInv, IndInv', ShapeInv, ShapeInv', CanonicalStore(db), [Next]_vars
  PROVE  CanonicalStore(db)'
<1>1. CASE UNCHANGED db
  BY <1>1
<1>2. CASE CollapseNode
  <2>1. PICK p \in Collapsible(mem) : db' = Written(mem[p])
    BY <1>2 DEF CollapseNode
  <2>2. PICK n : n = mem[p]
    OBVIOUS
  <2>3. p \in DOMAIN mem /\ \A link \in Links(n) : link # Boxed
    BY <2>1, <2>2 DEF Collapsible
  <2>4. IsNode(n) /\ \A link \in Links(n) : IsHash(link) => link.hash \in DOMAIN db
    BY <2>2, <2>3 DEF IndInv, TreeInv, Owned, IsStore
  <2>5. \A link \in Links(n) : IsLink(link)
    BY <2>4, NodeSlots DEF Links
  <2>6. \A link \in Links(n) : LeadsInto(link, DOMAIN db)
    BY <2>3, <2>4, <2>5 DEF LeadsInto, IsLink
  <2>7. DOMAIN db' = DOMAIN db \cup {Hash(n)} /\ db'[Hash(n)] = n
    <3>1. db' = With(db, Hash(n), n)
      BY <2>1, <2>2 DEF Written
    <3> QED BY <3>1 DEF With
  <2>8. Closed(db) /\ Closed(db')
    BY StoreClosedIs DEF IndInv, StoreInv, StoreClosed, Closed, Leads
  <2>9. StoreOnlyGrows
    BY StoreKept
  <2>10. StoreFine(db')
    BY DEF ShapeInv
  <2>11. Writes(db, n, db')
    BY <2>6, <2>7, <2>8, <2>9, <2>10 DEF Writes, Extends, StoreOnlyGrows, StoreFine
  <2> QED BY <2>8, <2>11, WriteCanonical
<1> QED BY <1>1, <1>2, OnlyCollapseWrites

\* Every node in the database holds a value, and two that hold the same for
\* every path are one node: whatever the insertions and commits were, a set of
\* values has one tree, and so one digest.  Without any hypothesis: not even a
\* split that loses a prefix makes a second tree for what it leaves.
THEOREM NodesCanonical == Spec => []CanonicalStore(db)
<1>1. Init => CanonicalStore(db)
  BY EmptyStore DEF Init, CanonicalStore, AllSound, Inhabited, Canonical
<1>2. IndInv /\ IndInv' /\ ShapeInv /\ ShapeInv' /\ CanonicalStore(db) /\ [Next]_vars => CanonicalStore(db)'
  BY CanonicalInductive
<1> QED BY <1>1, <1>2, IndInvHolds, ShapeInvHolds, PTL DEF Spec

-----------------------------------------------------------------------------
(* Nothing is held but under the path of a key.                            *)

NoKey(y) == y \in Path /\ \A k \in Key : y # convert_bytes_to_nibbles(k)

\* Neither the current tree nor a committed version holds anything under a path
\* that is of no key: maps that agree on the keys agree on every path.
OnlyKeys ==
  \A y : NoKey(y) =>
    /\ Holds(Top, mem, db, y) \in {None, Unreadable}
    /\ \A h \in roots : Tells(h, db, y) \in {None, Unreadable}

\* What a version holds is what it was after a step that adds to the database.
LEMMA VersionTells ==
  ASSUME NoNodeIsForeign, IndInv, IndInv', RootsInv, StoreOnlyGrows, NEW h \in roots, NEW y \in Path
  PROVE  Tells(h, db', y) = Tells(h, db, y)
<1>1. Closed(db) /\ IsStore(db') /\ \A g \in DOMAIN db' : g = Hash(db'[g])
  BY StoreClosedIs DEF IndInv, StoreInv, StoreClosed
<1>2. Extends(db', db) /\ h \in DOMAIN db \cup ForeignHash
  BY DEF StoreOnlyGrows, Extends, RootsInv
<1>3. Contents(HashLink(h), NoNodes, db', y) = Contents(HashLink(h), NoNodes, db, y)
  BY <1>1, <1>2, VersionKept
<1> QED BY <1>3, ContentsIsFrom DEF Tells, Says

\* Of a tree without a root nothing can be read, and of a digest not stored.
LEMMA NothingHeld ==
  ASSUME NEW y \in Path, NEW m, NEW d
  PROVE  /\ Holds(Empty, m, d, y) \in {None, Unreadable}
         /\ \A h : h \notin DOMAIN d => Holds(HashLink(h), m, d, y) \in {None, Unreadable}
<1>1. <<>> \in Path /\ StartsWith(y, <<>>)
  BY EmptyPath, PrefixRefl
<1>2. Holds(Empty, m, d, y) = None
  BY <1>1, ContentsRecursion DEF Holds
<1>3. ASSUME NEW h, h \notin DOMAIN d PROVE Holds(HashLink(h), m, d, y) = Unreadable
  <2>1. PICK link : link = HashLink(h) /\ link # Empty /\ link # Boxed /\ link.hash = h
    BY LinkTypes
  <2>2. ~Resolves(link, <<>>, m, d)
    BY <1>3, <2>1 DEF Resolves
  <2> QED BY <1>1, <2>1, <2>2, ContentsRecursion DEF Holds
<1> QED BY <1>2, <1>3

\* The current tree after a step.
LEMMA TreeOnlyKeys ==
  ASSUME NoNodeIsForeign, IndInv, KeyInv, OnlyKeys, [Next]_vars, ~LosesPrefix, NEW y, NoKey(y)
  PROVE  Holds(Top', mem', db', y) \in {None, Unreadable}
<1>1. y \in Path /\ Holds(Top, mem, db, y) \in {None, Unreadable}
  BY DEF OnlyKeys, NoKey
<1>2. CASE MapKept
  BY <1>1, <1>2 DEF MapKept, Holds
<1>3. CASE call.op = "insert" /\ KeyGiven
  <2>1. y # call.key
    BY <1>3, InsertsKey DEF NoKey
  <2> QED BY <1>1, <1>3, <2>1 DEF KeyGiven, Gives, Holds
<1>4. CASE Top' = Empty
  BY <1>1, <1>4, NothingHeld
<1>5. ASSUME NEW h \in KnownHash, Revert(h) PROVE Holds(Top', mem', db', y) \in {None, Unreadable}
  <2>1. Top' = HashLink(h) /\ mem' = NoNodes /\ db' = db
    BY <1>5 DEF Revert, Top, Idle
  <2>2. CASE h \in roots
    BY <2>1, <2>2 DEF OnlyKeys, Tells, Says, Holds
  <2>3. CASE h \in ForeignHash
    <3>1. h \notin DOMAIN db
      BY <2>3 DEF NoNodeIsForeign, IndInv, StoreInv, StoreClosed
    <3> QED BY <1>1, <2>1, <3>1, NothingHeld
  <2> QED BY <2>2, <2>3 DEF KnownHash
<1> QED BY <1>2, <1>3, <1>4, <1>5, MapSteps

\* The versions after a step: a commit adds the tree it has collapsed.
LEMMA VersionsOnlyKeys ==
  ASSUME NoNodeIsForeign, IndInv, IndInv', RootsInv, OnlyKeys, [Next]_vars, NEW y, NoKey(y),
         NEW h \in roots'
  PROVE  Tells(h, db', y) \in {None, Unreadable}
<1>1. CASE h \in roots
  <2>1. Tells(h, db', y) = Tells(h, db, y)
    BY <1>1, StoreKept, VersionTells DEF NoKey
  <2> QED BY <1>1, <2>1 DEF OnlyKeys
<1>2. CASE h \notin roots
  <2>1. FinishCommit /\ IsHash(call.top) /\ h = call.top.hash
    <3>1. FinishCommit
      BY <1>2, OnlyCommitAdds
    <3>2. roots' = roots \/ roots' = roots \cup (IF IsHash(call.top) THEN {call.top.hash} ELSE {})
      BY <3>1 DEF FinishCommit
    <3> QED BY <1>2, <3>1, <3>2
  <2>2. call.op = "commit" /\ call.top # Boxed /\ db' = db
    BY <2>1 DEF FinishCommit
  <2>3. Top = call.top /\ IsLink(call.top) /\ DOMAIN mem = {} /\ IsStore(mem)
    BY <2>2, Committing DEF Owned
  <2>4. call.top = HashLink(h) /\ mem = NoNodes
    BY <2>1, <2>3, LinkTypes DEF IsLink, IsStore, NoNodes
  <2> QED BY <2>2, <2>3, <2>4 DEF OnlyKeys, Tells, Says, Holds
<1> QED BY <1>1, <1>2

\* A step keeps every path that is of no key empty.
LEMMA OnlyKeysInductive ==
  ASSUME NoNodeIsForeign, IndInv, IndInv', RootsInv, KeyInv, OnlyKeys, [Next]_vars, ~LosesPrefix
  PROVE  OnlyKeys'
<1> SUFFICES ASSUME NEW y, NoKey(y)
             PROVE  /\ Holds(Top', mem', db', y) \in {None, Unreadable}
                    /\ \A h \in roots' : Tells(h, db', y) \in {None, Unreadable}
  BY DEF OnlyKeys, Holds, Tells, Says
<1> QED BY TreeOnlyKeys, VersionsOnlyKeys

\* In the initial state nothing is held.
LEMMA InitOnlyKeys ==
  ASSUME Init
  PROVE  OnlyKeys
<1>1. Top = Empty /\ roots = {}
  BY DEF Init, Top, Idle
<1> QED BY <1>1, NothingHeld DEF OnlyKeys, NoKey

\* Two stored roots that hold the same for every key are one root.
LEMMA RootsApart ==
  ASSUME IndInv, RootsInv, CanonicalStore(db), OnlyKeys,
         NEW g \in roots \ ForeignHash, NEW h \in roots \ ForeignHash, VersionMap(g) = VersionMap(h)
  PROVE  g = h
<1>1. g \in DOMAIN db /\ h \in DOMAIN db /\ Closed(db)
  BY StoreClosedIs DEF RootsInv, IndInv
<1>2. ASSUME NEW y \in Path, NEW f \in DOMAIN db PROVE Tells(f, db, y) # Unreadable
  <2>1. <<>> \in Path /\ StartsWith(y, <<>>) /\ Leads(HashLink(f), db)
    BY EmptyPath, PrefixRefl, LinkTypes DEF Leads
  <2>2. Extends(db, db)
    BY DEF Extends
  <2> QED BY <1>1, <2>1, <2>2, StoredContents DEF Tells, Says
<1>3. ASSUME NEW y \in Path PROVE Tells(g, db, y) = Tells(h, db, y)
  <2>1. CASE NoKey(y)
    BY <1>1, <1>2, <2>1 DEF OnlyKeys
  <2>2. CASE ~NoKey(y)
    <3>1. PICK k \in Key : y = convert_bytes_to_nibbles(k)
      BY <2>2 DEF NoKey
    <3>2. VersionMap(g)[k] = Tells(g, db, y) /\ VersionMap(h)[k] = Tells(h, db, y)
      BY <3>1, ContentsIsFrom DEF VersionMap, Tells, Says
    <3> QED BY <3>2
  <2> QED BY <2>1, <2>2
<1> QED BY <1>1, <1>3 DEF CanonicalStore, Canonical

\* Two roots commit has returned that hold the same for every key are the same
\* root, whatever order of insertions, commits, reverts and restarts led to them:
\* a tree of nodes of the right shape that holds a map is the only one. Again
\* unless a split loses a prefix, which leaves values under paths of no key.
THEOREM RootsCanonical ==
  ASSUME NoNodeIsForeign
  PROVE  Spec /\ [][~LosesPrefix]_vars => []RootHashCanonical
<1>1. Init => OnlyKeys
  BY InitOnlyKeys
<1>2. /\ OnlyKeys /\ IndInv /\ IndInv' /\ RootsInv /\ KeyInv /\ [Next]_vars /\ [~LosesPrefix]_vars
      => OnlyKeys'
  <2>1. ASSUME OnlyKeys, IndInv, IndInv', RootsInv, KeyInv, [Next]_vars, ~LosesPrefix
        PROVE  OnlyKeys'
    BY <2>1, OnlyKeysInductive
  <2>2. ASSUME OnlyKeys, UNCHANGED vars PROVE OnlyKeys'
    BY <2>2 DEF vars, OnlyKeys, Top
  <2> QED BY <2>1, <2>2
<1>3. CanonicalStore(db) /\ OnlyKeys /\ IndInv /\ RootsInv => RootHashCanonical
  <2> SUFFICES ASSUME CanonicalStore(db), OnlyKeys, IndInv, RootsInv,
                      NEW g \in roots \ ForeignHash, NEW h \in roots \ ForeignHash, VersionMap(g) = VersionMap(h)
               PROVE  g = h
    BY DEF RootHashCanonical
  <2> QED BY RootsApart
<1> QED BY <1>1, <1>2, <1>3, NodesCanonical, IndInvHolds, RootsInvHolds, KeyInvHolds, PTL DEF Spec
=============================================================================
