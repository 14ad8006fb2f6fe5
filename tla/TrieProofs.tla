----------------------------- MODULE TrieProofs -----------------------------
(***************************************************************************)
(* The invariants of the trie hold in every state, for every set of keys,  *)
(* values and foreign hashes, with and without faults, and for any number  *)
(* of commits.                                                             *)
(***************************************************************************)
EXTENDS TreeProofs

Typed == IsLink(root) /\ dirty \in BOOLEAN /\ IsCall(call) /\ commits \in Nat

\* The database, and the boxed nodes over it.
StoreInv == IsStore(db) /\ StoreClosed
TreeInv  == /\ Owned(mem, DOMAIN db)
            /\ IF Top = Boxed THEN <<>> \in DOMAIN mem ELSE DOMAIN mem = {}

\* The inductive invariant: TypeOK, StoreClosed, TreeOwned, CallOnTree and the
\* part of LinksResolve that is about boxed nodes.
IndInv == Typed /\ StoreInv /\ TreeInv /\ CallOnTree

\* The rest of LinksResolve.
RootsInv == /\ roots \subseteq DOMAIN db \cup ForeignHash
            /\ Known(Top)
            /\ call.op = "insert" => Known(call.link)

\* The inductive invariant implies the invariants the runs check.
LEMMA IndInvImplies ==
  ASSUME IndInv
  PROVE  /\ TypeOK /\ StoreClosed /\ TreeOwned /\ CallOnTree
         /\ RootsInv => LinksResolve
<1>1. TypeOK
  BY DEF IndInv, Typed, StoreInv, TreeInv, TypeOK, Owned
<1>2. RootsInv => LinksResolve
  BY DEF IndInv, TreeInv, RootsInv, LinksResolve, Owned
<1>3. TreeOwned
  BY DEF IndInv, TreeInv, TreeOwned, Owned
<1> QED BY <1>1, <1>2, <1>3 DEF IndInv, StoreInv

-----------------------------------------------------------------------------
(* Lemmas about single states.                                             *)

\* No nodes at all: a store and a tree.
LEMMA EmptyStore ==
  /\ DOMAIN NoNodes = {} /\ IsStore(NoNodes)
  /\ \A D : Owned(NoNodes, D)
<1>1. DOMAIN NoNodes = {} /\ IsStore(NoNodes)
  BY DEF NoNodes, IsStore
<1> QED BY <1>1 DEF Owned, Tree

\* Every path is below the root.
LEMMA EmptyPrefix ==
  ASSUME NEW q \in Path
  PROVE  StartsWith(q, <<>>)
BY PathLen, EmptyPath DEF StartsWith

\* A node of the database owns no node.
LEMMA StoredChildless ==
  ASSUME StoreInv, NEW h \in DOMAIN db
  PROVE  Childless(db[h], DOMAIN db)
BY LinkTypes DEF StoreInv, IsStore, StoreClosed, Childless

\* A lookup that descends goes through a slot.
LEMMA DescendsSlot ==
  ASSUME NEW n, IsNode(n), NEW rest \in Path, Descends(n, rest)
  PROVE  NextSlot(n, rest) \in Slots(n)
<1>1. CASE n.kind = "Node"
  BY <1>1 DEF Descends
<1>2. CASE n.kind = "Extension"
  BY <1>2, ExtensionParts DEF NextSlot
<1>3. CASE n.kind = "Branch"
  <2>1. rest # <<>>
    BY <1>3 DEF Descends
  <2>2. rest[1] \in Nibble /\ Len(rest) \in Nat \ {0}
    BY <2>1, FirstNibble, PathLen, EmptyPath
  <2>3. SubSeq(rest, 1, 1) = <<rest[1]>>
    <3> DEFINE s == SubSeq(rest, 1, 1)
               t == <<rest[1]>>
    <3>1. \A i \in 1 .. 1 : rest[i] \in Nibble
      BY <2>2
    <3>2. s \in Path /\ Len(s) = 1 /\ s[1] = rest[1]
      BY <3>1, SubSeqProperties DEF Path
    <3>3. t \in Path /\ Len(t) = 1 /\ t[1] = rest[1]
      BY <2>2, OneNibble
    <3> HIDE DEF s, t
    <3>4. s = t
      BY <3>2, <3>3, PathEqual
    <3> QED BY <3>4 DEF s, t
  <2>4. NextSlot(n, rest) = <<rest[1]>>
    BY <1>3, <2>3 DEF NextSlot
  <2>5. <<rest[1]>> \in Slots(n)
    BY <1>3, <2>2, BranchParts
  <2> QED BY <2>4, <2>5
<1> QED BY <1>1, <1>2, <1>3, NodeKinds

\* The link an insertion holds, if it is boxed, leads to a node.
LEMMA BoxedLinkLeads ==
  ASSUME NEW m, NEW D, Owned(m, D), NEW top, top = Boxed => <<>> \in DOMAIN m,
         NEW at, NEW link, LinkOf(m, top, at, link), link = Boxed
  PROVE  at \in DOMAIN m
BY DEF LinkOf, Owned, Tree

\* An insertion puts a node that owns none where its link leads.
Attached(m, D, top, at, n, r) ==
  /\ Owned(r, D)
  /\ at \in DOMAIN r /\ <<>> \in DOMAIN r
  /\ at # <<>> => top = Boxed
  /\ LinkOf(r, Boxed, at, Boxed)

\* At the link an insertion has reached, a node that owns none can be attached.
LEMMA AttachAt ==
  ASSUME NEW m, NEW D, Owned(m, D),
         NEW top, top = Boxed => <<>> \in DOMAIN m, top # Boxed => DOMAIN m = {},
         NEW at \in Path, NEW link, link # Boxed, LinkOf(m, top, at, link),
         NEW n, Childless(n, D),
         NEW r, r = With(Relink(m, at, Boxed), at, n)
  PROVE  Attached(m, D, top, at, n, r)
<1>0. /\ DOMAIN Relink(m, at, Boxed) = DOMAIN m
      /\ \A q \in DOMAIN m :
           /\ Slots(Relink(m, at, Boxed)[q]) = Slots(m[q])
           /\ \A s \in Slots(m[q]) :
                LinkAt(Relink(m, at, Boxed)[q], s) = IF q \o s = at THEN Boxed ELSE LinkAt(m[q], s)
  <2>1. IsStore(m) /\ DOMAIN m \subseteq Path /\ IsLink(Boxed)
    BY LinkTypes DEF Owned
  <2> QED BY <2>1, RelinkProperties
<1>1. CASE at = <<>> /\ link = top
  <2>1. DOMAIN m = {}
    BY <1>1
  <2>2. DOMAIN Relink(m, at, Boxed) = {}
    BY <2>1 DEF Relink
  <2>3. DOMAIN r = {<<>>} /\ r[<<>>] = n
    BY <1>1, <2>2 DEF With
  <2>4. IsStore(r)
    <3>1. IsStore(Relink(m, at, Boxed))
      BY <2>2 DEF IsStore, Relink
    <3> QED BY <3>1, WithType DEF Childless
  <2>5. \A s \in Slots(n) : LinkAt(n, s) # Boxed /\ (IsHash(LinkAt(n, s)) => LinkAt(n, s).hash \in D)
    BY NodeSlots DEF Childless
  <2>6. Tree(r)
    BY <2>3, <2>5 DEF Tree
  <2>7. Owned(r, D)
    BY <2>3, <2>4, <2>5, <2>6, EmptyPath, OwnedBySlots
  <2> QED BY <1>1, <2>3, <2>7 DEF Attached, LinkOf
<1>2. CASE ~(at = <<>> /\ link = top)
  <2>1. PICK p \in DOMAIN m : \E slot \in Slots(m[p]) : at = p \o slot /\ link = LinkAt(m[p], slot)
    BY <1>2 DEF LinkOf
  <2>2. PICK slot \in Slots(m[p]) : at = p \o slot /\ link = LinkAt(m[p], slot)
    BY <2>1
  <2>3. Owned(r, D) /\ DOMAIN r = DOMAIN m \cup {at}
    <3>1. Owned(With(Relink(m, p \o slot, Boxed), p \o slot, n), D)
      BY <2>2, Attach
    <3>2. DOMAIN Relink(m, at, Boxed) = DOMAIN m
      BY DEF Relink
    <3>3. DOMAIN r = DOMAIN Relink(m, at, Boxed) \cup {at}
      BY DEF With
    <3> QED BY <2>2, <3>1, <3>2, <3>3
  <2>4. top = Boxed /\ <<>> \in DOMAIN m
    OBVIOUS
  <2>5. p # at
    <3>1. p \in Path /\ slot \in Path /\ Len(slot) > 0 /\ Len(slot) \in Nat /\ Len(p) \in Nat
      BY NodeSlots, PathLen DEF Owned, IsStore
    <3>2. Len(at) = Len(p) + Len(slot)
      BY <2>2, <3>1, ConcatPath
    <3> QED BY <3>1, <3>2
  <2> DEFINE l == Relink(m, at, Boxed)
  <2>6. /\ DOMAIN l = DOMAIN m
        /\ Slots(l[p]) = Slots(m[p]) /\ LinkAt(l[p], slot) = Boxed
    <3> HIDE DEF l
    <3> QED BY <1>0, <2>2 DEF l
  <2>7. r[p] = l[p]
    <3> HIDE DEF l
    <3>1. r = With(l, at, n)
      BY DEF l
    <3> QED BY <2>5, <2>6, <3>1 DEF With
  <2> HIDE DEF l
  <2>8. LinkOf(r, Boxed, at, Boxed)
    BY <2>2, <2>3, <2>6, <2>7 DEF LinkOf
  <2> QED BY <2>3, <2>4, <2>8 DEF Attached
<1> QED BY <1>1, <1>2

-----------------------------------------------------------------------------
(* Initial states and lemmas about several steps.                          *)

\* A new trie satisfies the invariant.
LEMMA InitIndInv ==
  ASSUME Init
  PROVE  IndInv
<1>1. Typed /\ StoreInv
  BY LinkTypes, EmptyStore DEF Init, Typed, StoreInv, StoreClosed, IsCall, Idle
<1>2. TreeInv
  BY LinkTypes, EmptyStore DEF Init, TreeInv, Top, Idle
<1>3. CallOnTree
  BY DEF Init, CallOnTree, Idle
<1> QED BY <1>1, <1>2, <1>3 DEF IndInv

\* A step that only moves a lookup, or starts or ends one.
LEMMA LookupStep ==
  ASSUME IndInv, UNCHANGED <<root, mem, db, dirty, roots, commits>>,
         call.op \notin {"insert", "commit"}, call'.op \notin {"insert", "commit"},
         IsCall(call'), CallOnTree'
  PROVE  IndInv'
<1>1. Top' = Top
  BY DEF Top
<1>2. Typed' /\ StoreInv'
  BY DEF IndInv, Typed, StoreInv, StoreClosed
<1>3. TreeInv'
  BY <1>1 DEF IndInv, TreeInv
<1> QED BY <1>2, <1>3 DEF IndInv

\* A step after which no call is in progress and no node is boxed.
LEMMA DropNodes ==
  ASSUME IndInv, mem' = NoNodes, root' # Boxed, IsLink(root'), call' = Idle,
         dirty' \in BOOLEAN, UNCHANGED <<db, roots, commits>>
  PROVE  IndInv'
<1>1. Top' = root'
  BY DEF Top, Idle
<1>2. Typed' /\ StoreInv'
  BY DEF IndInv, Typed, StoreInv, StoreClosed, IsCall, Idle
<1>3. TreeInv'
  BY <1>1, EmptyStore DEF TreeInv
<1>4. CallOnTree'
  BY DEF CallOnTree, Idle
<1> QED BY <1>2, <1>3, <1>4 DEF IndInv

\* A step that completes an insertion.
LEMMA FinishInsertStep ==
  ASSUME IndInv, NEW nodes, FinishInsert(nodes),
         Owned(nodes, DOMAIN db), <<>> \in DOMAIN nodes
  PROVE  IndInv'
<1> USE DEF FinishInsert
<1>1. Top' = Boxed
  BY DEF Top, Idle
<1>2. Typed' /\ StoreInv'
  BY LinkTypes DEF IndInv, Typed, StoreInv, StoreClosed, IsCall, Idle
<1>3. TreeInv'
  BY <1>1 DEF TreeInv
<1>4. CallOnTree'
  BY DEF CallOnTree, Idle
<1> QED BY <1>2, <1>3, <1>4 DEF IndInv

-----------------------------------------------------------------------------
(* The steps of insert.                                                    *)

\* What is known while an insertion is in progress.
LEMMA Inserting ==
  ASSUME IndInv, call.op = "insert"
  PROVE  /\ call = InsertCall(call.key, call.value, call.top, call.at, call.link)
         /\ call.key \in Path /\ call.at \in Path /\ call.value \in Value
         /\ IsLink(call.top) /\ IsLink(call.link)
         /\ Top = call.top /\ root = Empty
         /\ LinkOf(mem, call.top, call.at, call.link)
         /\ Rest \in Path
         /\ Owned(mem, DOMAIN db)
         /\ call.top = Boxed => <<>> \in DOMAIN mem
         /\ call.top # Boxed => DOMAIN mem = {}
         /\ call.link = Boxed => call.at \in DOMAIN mem
<1>1. /\ call = InsertCall(call.key, call.value, call.top, call.at, call.link)
      /\ call.key \in Path /\ call.at \in Path /\ call.value \in Value
      /\ IsLink(call.top) /\ IsLink(call.link)
  BY DEF IndInv, Typed, IsCall
<1>2. Top = call.top /\ root = Empty /\ LinkOf(mem, call.top, call.at, call.link)
  BY DEF IndInv, Top, CallOnTree
<1>3. Rest \in Path
  BY <1>1, PathLen, DropType DEF Rest
<1>4. /\ Owned(mem, DOMAIN db)
      /\ call.top = Boxed => <<>> \in DOMAIN mem
      /\ call.top # Boxed => DOMAIN mem = {}
  BY <1>2 DEF IndInv, TreeInv
<1>5. call.link = Boxed => call.at \in DOMAIN mem
  BY <1>2, <1>4, BoxedLinkLeads
<1> QED BY <1>1, <1>2, <1>3, <1>4, <1>5

\* The start of an insertion takes the root, and with it the tree.
LEMMA InsertStep ==
  ASSUME IndInv, NEW k \in Key, NEW v \in Value, Insert(k, v)
  PROVE  IndInv'
<1> DEFINE key == convert_bytes_to_nibbles(k)
<1>1. key \in Path
  BY KeyAssumption, NibblesOfKey
<1> HIDE DEF key
<1>2. /\ call' = InsertCall(key, v, root, <<>>, root) /\ root' = Empty /\ call = Idle
      /\ UNCHANGED <<mem, db, dirty, roots, commits>>
  BY DEF Insert, key
<1>3. Top' = Top /\ call'.op = "insert" /\ call'.link = root /\ Top = root
  BY <1>2 DEF Top, InsertCall, Idle
<1>4. Typed'
  BY <1>1, <1>2, LinkTypes, EmptyPath DEF IndInv, Typed, IsCall, InsertCall
<1>5. StoreInv'
  BY <1>2 DEF IndInv, StoreInv, StoreClosed
<1>6. TreeInv'
  BY <1>2, <1>3 DEF IndInv, TreeInv
<1>7. CallOnTree'
  BY <1>2 DEF CallOnTree, InsertCall, LinkOf
<1> QED BY <1>4, <1>5, <1>6, <1>7 DEF IndInv

\* An insertion that ends at an empty link leaves a new leaf there.
LEMMA InsertIntoEmptyStep ==
  ASSUME IndInv, InsertIntoEmpty
  PROVE  IndInv'
<1> DEFINE n == Node(Rest, call.value)
           r == With(Relink(mem, call.at, Boxed), call.at, n)
<1>1. call.op = "insert" /\ call.link = Empty /\ FinishInsert(r)
  BY DEF InsertIntoEmpty
<1>2. Childless(n, DOMAIN db)
  BY <1>1, Inserting, ChildlessLeaf
<1> HIDE DEF n
<1>3. Attached(mem, DOMAIN db, call.top, call.at, n, r)
  BY <1>1, <1>2, Inserting, LinkTypes, AttachAt
<1> HIDE DEF r
<1> QED BY <1>1, <1>3, FinishInsertStep DEF Attached

\* A node read from the database takes the place of its hash.
LEMMA InsertLoadStep ==
  ASSUME IndInv, InsertLoad
  PROVE  IndInv'
<1> DEFINE n   == db[call.link.hash]
           r   == With(Relink(mem, call.at, Boxed), call.at, n)
           top == IF call.at = <<>> THEN Boxed ELSE call.top
<1>1. /\ call.op = "insert" /\ IsHash(call.link) /\ call.link.hash \in DOMAIN db
      /\ mem' = r /\ call' = InsertCall(call.key, call.value, top, call.at, Boxed)
      /\ UNCHANGED <<root, db, dirty, roots, commits>>
  BY DEF InsertLoad
<1>2. Childless(n, DOMAIN db)
  BY <1>1, StoredChildless DEF IndInv
<1>3. Attached(mem, DOMAIN db, call.top, call.at, n, r)
  <2> HIDE DEF n
  <2>1. call.link # Boxed
    BY <1>1, LinkTypes
  <2> QED BY <1>1, <1>2, <2>1, Inserting, AttachAt
<1>4. top = Boxed
  BY <1>3 DEF Attached
<1> HIDE DEF r, n, top
<1>5. Top' = Boxed /\ call'.op = "insert" /\ call'.link = Boxed /\ call'.top = Boxed /\ call'.at = call.at
  BY <1>1, <1>4 DEF Top, InsertCall
<1>6. Typed'
  BY <1>1, <1>4, Inserting, LinkTypes DEF IndInv, Typed, IsCall, InsertCall
<1>7. StoreInv'
  BY <1>1 DEF IndInv, StoreInv, StoreClosed
<1>8. TreeInv'
  BY <1>1, <1>3, <1>5 DEF TreeInv, Attached
<1>9. CallOnTree'
  BY <1>1, <1>3, <1>5, Inserting DEF CallOnTree, Attached
<1> QED BY <1>6, <1>7, <1>8, <1>9 DEF IndInv

\* An insertion goes on to a link of the same tree.
LEMMA InsertDescendStep ==
  ASSUME IndInv, InsertDescend
  PROVE  IndInv'
<1> DEFINE n    == mem[call.at]
           slot == NextSlot(n, Rest)
           at   == call.at \o slot
           link == LinkAt(n, slot)
<1>1. /\ call.op = "insert" /\ call.link = Boxed /\ Descends(n, Rest)
      /\ call' = InsertCall(call.key, call.value, call.top, at, link)
      /\ UNCHANGED <<root, mem, db, dirty, roots, commits>>
  BY DEF InsertDescend
<1>2. /\ Rest \in Path /\ call.at \in Path /\ call.at \in DOMAIN mem /\ Owned(mem, DOMAIN db)
      /\ Top = call.top /\ root = Empty
      /\ call.key \in Path /\ call.value \in Value /\ IsLink(call.top)
  BY <1>1, Inserting
<1>3. IsNode(n)
  BY <1>2 DEF Owned, IsStore
<1>4. slot \in Slots(n)
  BY <1>1, <1>2, <1>3, DescendsSlot
<1>5. slot \in Path /\ IsLink(link) /\ (IsHash(link) => link.hash \in DOMAIN db)
  BY <1>2, <1>3, <1>4, NodeSlots, OwnedBySlots
<1>6. at \in Path
  BY <1>2, <1>5, ConcatPath
<1>7. LinkOf(mem, call.top, at, link)
  BY <1>2, <1>4 DEF LinkOf
<1> HIDE DEF n, slot, at, link
<1>8. /\ Top' = Top /\ call'.op = "insert" /\ call'.link = link /\ call'.top = call.top
      /\ call'.at = at
  BY <1>1 DEF Top, InsertCall
<1>9. Typed'
  BY <1>1, <1>2, <1>5, <1>6 DEF IndInv, Typed, IsCall, InsertCall
<1>10. StoreInv'
  BY <1>1 DEF IndInv, StoreInv, StoreClosed
<1>11. TreeInv'
  BY <1>1, <1>8 DEF IndInv, TreeInv
<1>12. CallOnTree'
  BY <1>1, <1>2, <1>7, <1>8 DEF CallOnTree
<1> QED BY <1>9, <1>10, <1>11, <1>12 DEF IndInv

\* An insertion that ends at a node leaves a tree, whichever arm it takes.
LEMMA InsertHereStep ==
  ASSUME IndInv, InsertHere
  PROVE  IndInv'
<1> DEFINE r == InsertAt(mem, call.at, Rest, call.value)
<1>1. call.op = "insert" /\ call.link = Boxed /\ ~Descends(mem[call.at], Rest) /\ FinishInsert(r)
  BY DEF InsertHere
<1>2. /\ call.at \in DOMAIN mem /\ Rest \in Path /\ call.value \in Value
      /\ Owned(mem, DOMAIN db) /\ <<>> \in DOMAIN mem
  BY <1>1, Inserting
<1>3. StaysOwned(mem, r, DOMAIN db)
  BY <1>1, <1>2, InsertAtOwned
<1> HIDE DEF r
<1> QED BY <1>1, <1>2, <1>3, FinishInsertStep DEF StaysOwned

\* A failed insertion leaves no root and no boxed node.
LEMMA InsertFailsStep ==
  ASSUME IndInv, InsertFails
  PROVE  IndInv'
<1>1. /\ call.op = "insert" /\ mem' = NoNodes /\ call' = Idle
      /\ UNCHANGED <<root, db, dirty, roots, commits>>
  BY DEF InsertFails
<1>2. root = Empty
  BY <1>1, Inserting
<1> QED BY <1>1, <1>2, DropNodes, LinkTypes DEF IndInv, Typed

\* A value that does not serialize costs the root that was taken.
LEMMA InsertUnserializableStep ==
  ASSUME IndInv, InsertUnserializable
  PROVE  IndInv'
<1>1. root' # Boxed /\ IsLink(root') /\ mem' = NoNodes /\ call' = Idle
      /\ dirty' \in BOOLEAN /\ UNCHANGED <<db, roots, commits>>
  BY LinkTypes DEF InsertUnserializable, IndInv, Typed
<1> QED BY <1>1, DropNodes

-----------------------------------------------------------------------------
(* The steps of commit, and revert.                                        *)

\* commit starts, for its caller or for a get_proof.
LEMMA StartCommitStep ==
  ASSUME IndInv, call = Idle, NEW then, StartCommit(then),
         \/ then = None
         \/ then = [root_hash |-> then.root_hash, key |-> then.key] /\ then.key \in Path
  PROVE  IndInv'
<1>1. /\ call' = CommitCall(root, then) /\ root' = Empty /\ commits' = commits + 1
      /\ UNCHANGED <<mem, db, dirty, roots>>
  BY DEF StartCommit
<1>2. Top' = Top /\ call'.op = "commit" /\ Top = root
  BY <1>1 DEF Top, CommitCall, Idle
<1>3. IsCall(call')
  <2>1. call'.top = root /\ call'.then = then /\ call' = CommitCall(call'.top, call'.then)
    BY <1>1 DEF CommitCall
  <2> QED BY <1>2, <2>1 DEF IndInv, Typed, IsCall
<1>4. Typed' /\ StoreInv'
  BY <1>1, <1>3, LinkTypes DEF IndInv, Typed, StoreInv, StoreClosed
<1>5. TreeInv'
  BY <1>1, <1>2 DEF IndInv, TreeInv
<1>6. CallOnTree'
  BY <1>1, <1>2 DEF CallOnTree
<1> QED BY <1>4, <1>5, <1>6 DEF IndInv

\* What is known while a commit is in progress.
LEMMA Committing ==
  ASSUME IndInv, call.op = "commit"
  PROVE  /\ call = CommitCall(call.top, call.then)
         /\ IsLink(call.top)
         /\ \/ call.then = None
            \/ /\ call.then = [root_hash |-> call.then.root_hash, key |-> call.then.key]
               /\ call.then.key \in Path
         /\ Top = call.top /\ root = Empty
         /\ Owned(mem, DOMAIN db)
         /\ call.top = Boxed => <<>> \in DOMAIN mem
         /\ call.top # Boxed => DOMAIN mem = {}
<1>1. Top = call.top /\ root = Empty
  BY DEF IndInv, Top, CallOnTree
<1>2. /\ call = CommitCall(call.top, call.then) /\ IsLink(call.top)
      /\ \/ call.then = None
         \/ /\ call.then = [root_hash |-> call.then.root_hash, key |-> call.then.key]
            /\ call.then.key \in Path
  BY DEF IndInv, Typed, IsCall
<1> QED BY <1>1, <1>2 DEF IndInv, TreeInv

\* A node whose children are all collapsed is written under its digest.
LEMMA StoreGrows ==
  ASSUME StoreInv, NEW n, Childless(n, DOMAIN db), db' = With(db, Hash(n), n)
  PROVE  /\ StoreInv'
         /\ DOMAIN db' = DOMAIN db \cup {Hash(n)}
<1>1. /\ DOMAIN db' = DOMAIN db \cup {Hash(n)} /\ db'[Hash(n)] = n
      /\ \A h \in DOMAIN db : h # Hash(n) => db'[h] = db[h]
  BY DEF With
<1>2. IsStore(db')
  BY WithType DEF StoreInv, Childless
<1>3. ASSUME NEW h \in DOMAIN db', NEW link \in Links(db'[h])
      PROVE  link = Empty \/ (IsHash(link) /\ link.hash \in DOMAIN db')
  <2>1. CASE h = Hash(n)
    <3>1. PICK s \in Slots(n) : link = LinkAt(n, s)
      BY <1>1, <1>3, <2>1 DEF Links
    <3>2. IsLink(link) /\ link # Boxed /\ (IsHash(link) => link.hash \in DOMAIN db)
      BY <3>1, NodeSlots DEF Childless
    <3> QED BY <1>1, <3>2 DEF IsLink
  <2>2. CASE h # Hash(n)
    BY <1>1, <1>3, <2>2 DEF StoreInv, StoreClosed
  <2> QED BY <2>1, <2>2
<1>4. \A h \in DOMAIN db' : h = Hash(db'[h])
  BY <1>1 DEF StoreInv, StoreClosed
<1>5. StoreInv'
  BY <1>2, <1>3, <1>4 DEF StoreInv, StoreClosed
<1> QED BY <1>1, <1>5

\* A written node is replaced by its hash, and its links were written before.
LEMMA CollapseNodeStep ==
  ASSUME IndInv, CollapseNode
  PROVE  IndInv'
<1>1. PICK p \in Collapsible(mem) :
        LET link == HashLink(Hash(mem[p]))
            rest == [q \in DOMAIN mem \ {p} |-> mem[q]]
        IN  /\ db' = With(db, Hash(mem[p]), mem[p])
            /\ mem' = Relink(rest, p, link)
            /\ call' = CommitCall(IF p = <<>> THEN link ELSE call.top, call.then)
  BY DEF CollapseNode, Written
<1> DEFINE n    == mem[p]
           h    == Hash(n)
           link == HashLink(h)
           rest == [q \in DOMAIN mem \ {p} |-> mem[q]]
           top  == IF p = <<>> THEN link ELSE call.top
<1>2. /\ call.op = "commit" /\ UNCHANGED <<root, dirty, roots, commits>>
      /\ p \in DOMAIN mem /\ \A l \in Links(n) : l # Boxed
      /\ db' = With(db, h, n) /\ mem' = Relink(rest, p, link) /\ call' = CommitCall(top, call.then)
  BY <1>1 DEF CollapseNode, Collapsible
<1>3. /\ IsLink(call.top) /\ Top = call.top /\ root = Empty
      /\ Owned(mem, DOMAIN db)
      /\ call.top = Boxed => <<>> \in DOMAIN mem
      /\ call.top # Boxed => DOMAIN mem = {}
      /\ \/ call.then = None
         \/ /\ call.then = [root_hash |-> call.then.root_hash, key |-> call.then.key]
            /\ call.then.key \in Path
  BY <1>2, Committing
<1>4. Childless(n, DOMAIN db)
  BY <1>2, <1>3 DEF Childless, Owned, IsStore
<1>5. StoreInv' /\ DOMAIN db' = DOMAIN db \cup {h}
  <2> HIDE DEF n
  <2> QED BY <1>2, <1>4, StoreGrows DEF IndInv
<1>6. Owned(mem', DOMAIN db') /\ DOMAIN mem' = DOMAIN mem \ {p}
  <2>1. \A s \in Slots(n) : LinkAt(n, s) # Boxed
    BY <1>2 DEF Links
  <2> HIDE DEF h
  <2>2. LET r == Relink(rest, p, HashLink(h))
        IN  Owned(r, DOMAIN db \cup {h}) /\ DOMAIN r = DOMAIN mem \ {p}
    BY <1>2, <1>3, <2>1, Detach
  <2>3. mem' = Relink(rest, p, HashLink(h))
    BY <1>2
  <2> HIDE DEF rest
  <2>4. Owned(mem', DOMAIN db \cup {h}) /\ DOMAIN mem' = DOMAIN mem \ {p}
    BY <2>2, <2>3
  <2> QED BY <1>5, <2>4
<1>7. call.top = Boxed /\ <<>> \in DOMAIN mem
  BY <1>2, <1>3
<1>8. p = <<>> => DOMAIN mem' = {}
  <2>1. ASSUME p = <<>>, NEW q \in DOMAIN mem PROVE q = p
    <3>1. StartsWith(q, p)
      BY <1>3, <2>1, EmptyPrefix DEF Owned
    <3>2. \A s \in Slots(n) : LinkAt(n, s) # Boxed
      BY <1>2 DEF Links
    <3> QED BY <1>2, <1>3, <3>1, <3>2, NothingBelowChildless DEF Owned
  <2> QED BY <1>6, <2>1
<1> HIDE DEF n, h, rest
<1>9. link # Boxed /\ IsLink(link) /\ IsHash(link) /\ link.hash = h
  BY LinkTypes
<1>10. IsLink(top) /\ (p = <<>> => top # Boxed) /\ (p # <<>> => top = Boxed)
  BY <1>7, <1>9, LinkTypes
<1> HIDE DEF top, link
<1>11. Top' = top /\ call'.op = "commit" /\ call'.top = top /\ call'.then = call.then
       /\ call' = CommitCall(top, call.then)
  BY <1>2 DEF Top, CommitCall
<1>12. Typed'
  <2>1. IsCall(call')
    BY <1>3, <1>10, <1>11 DEF IsCall
  <2> QED BY <1>2, <2>1 DEF IndInv, Typed
<1>13. TreeInv'
  BY <1>6, <1>7, <1>8, <1>10, <1>11 DEF TreeInv
<1>14. CallOnTree'
  BY <1>2, <1>3, <1>11 DEF CallOnTree
<1> QED BY <1>5, <1>12, <1>13, <1>14 DEF IndInv

\* The call of a get_proof is well formed.
LEMMA ProofCallType ==
  ASSUME NEW h, NEW key \in Path
  PROVE  /\ IsCall(ProofCall(h, key)) /\ ProofCall(h, key).op = "get_proof"
         /\ ProofCall(h, key).link # Boxed /\ DOMAIN ProofCall(h, key).store = {}
BY LinkTypes, EmptyStore, EmptyPath DEF ProofCall, ReadCall, IsCall, IsRead

\* A finished commit leaves no boxed node, and goes on with the proof if there is
\* one to make.
LEMMA FinishCommitStep ==
  ASSUME IndInv, FinishCommit
  PROVE  IndInv'
<1>1. /\ call.op = "commit" /\ call.top # Boxed /\ root' = call.top /\ dirty' = FALSE
      /\ UNCHANGED <<mem, db, commits>>
  BY DEF FinishCommit
<1>2. IsLink(call.top) /\ Owned(mem, DOMAIN db) /\ DOMAIN mem = {}
  BY <1>1, Committing
<1>3. /\ IsCall(call') /\ call'.op \in {"idle", "get_proof"}
      /\ call'.op = "get_proof" => call'.link # Boxed /\ DOMAIN call'.store = {}
  <2>1. CASE call.then = None /\ call' = Idle
    BY <2>1 DEF FinishCommit, IsCall, Idle
  <2>2. CASE call.then # None /\ call' = ProofCall(call.then.root_hash, call.then.key)
    <3>1. call.then.key \in Path
      BY <1>1, <2>2, Committing
    <3> QED BY <2>2, <3>1, ProofCallType DEF FinishCommit
  <2> QED BY <2>1, <2>2 DEF FinishCommit
<1>4. Top' = call.top
  BY <1>1, <1>3 DEF Top
<1>5. Typed' /\ StoreInv' /\ TreeInv'
  BY <1>1, <1>2, <1>3, <1>4 DEF IndInv, Typed, StoreInv, StoreClosed, TreeInv
<1>6. CallOnTree'
  BY <1>3 DEF CallOnTree, CopiedFrom
<1> QED BY <1>5, <1>6 DEF IndInv

\* A failed commit leaves a database whose links all resolve.
LEMMA CommitFailsStep ==
  ASSUME IndInv, CommitFails
  PROVE  IndInv'
<1>1. /\ call.op = "commit" /\ mem' = NoNodes /\ call' = Idle
      /\ UNCHANGED <<root, db, dirty, roots, commits>>
  BY DEF CommitFails
<1>2. root = Empty
  BY <1>1, Committing
<1> QED BY <1>1, <1>2, DropNodes, LinkTypes DEF IndInv, Typed

\* Revert drops the tree and puts a hash the caller knows in its place.
LEMMA RevertStep ==
  ASSUME IndInv, NEW h \in KnownHash, Revert(h)
  PROVE  IndInv'
<1>1. IsLink(root') /\ root' # Boxed /\ call' = Idle /\ mem' = NoNodes
      /\ dirty' \in BOOLEAN /\ UNCHANGED <<db, roots, commits>>
  BY LinkTypes DEF Revert
<1> QED BY <1>1, DropNodes

\* A restart leaves the database alone.
LEMMA RestartStep ==
  ASSUME IndInv, Restart
  PROVE  IndInv'
<1>1. root' # Boxed /\ IsLink(root') /\ mem' = NoNodes /\ call' = Idle
      /\ dirty' \in BOOLEAN /\ UNCHANGED <<db, roots, commits>>
  BY LinkTypes DEF Restart
<1> QED BY <1>1, DropNodes

-----------------------------------------------------------------------------
(* The steps of the lookups.                                               *)

\* A lookup starts at the root.
LEMMA GetValueStep ==
  ASSUME IndInv, NEW k \in Key, GetValue(k)
  PROVE  IndInv'
<1> DEFINE key == convert_bytes_to_nibbles(k)
<1>1. key \in Path
  BY KeyAssumption, NibblesOfKey
<1>2. call = Idle /\ call' = ReadCall("get_value", None, key, NoNodes, <<>>, root)
      /\ UNCHANGED <<root, mem, db, dirty, roots, commits>>
  BY DEF GetValue
<1> HIDE DEF key
<1>3. IsCall(call')
  BY <1>1, <1>2, EmptyStore, EmptyPath DEF IndInv, Typed, IsCall, IsRead, ReadCall
<1>4. root = Boxed => <<>> \in DOMAIN mem
  BY <1>2 DEF IndInv, TreeInv, Top, Idle
<1>5. CallOnTree'
  BY <1>2, <1>4, EmptyStore DEF CallOnTree, ReadCall, CopiedFrom
<1>6. call.op \notin {"insert", "commit"} /\ call'.op \notin {"insert", "commit"}
  BY <1>2 DEF ReadCall, Idle
<1> QED BY <1>2, <1>3, <1>5, <1>6, LookupStep

\* A proof starts with a commit or with the node its hash names.
LEMMA GetProofStep ==
  ASSUME IndInv, NEW h \in KnownHash, NEW k \in Key, GetProof(h, k)
  PROVE  IndInv'
<1> DEFINE key == convert_bytes_to_nibbles(k)
<1>1. key \in Path
  BY KeyAssumption, NibblesOfKey
<1>2. /\ call = Idle
      /\ \/ StartCommit([root_hash |-> h, key |-> key])
         \/ call' = ProofCall(h, key) /\ UNCHANGED <<root, mem, db, dirty, roots, commits>>
  BY DEF GetProof
<1> HIDE DEF key
<1>3. CASE StartCommit([root_hash |-> h, key |-> key])
  <2> DEFINE then == [root_hash |-> h, key |-> key]
  <2>1. then = [root_hash |-> then.root_hash, key |-> then.key] /\ then.key \in Path
    BY <1>1
  <2> HIDE DEF then
  <2>2. StartCommit(then)
    BY <1>3 DEF then
  <2> QED BY <1>2, <2>1, <2>2, StartCommitStep
<1>4. CASE call' = ProofCall(h, key) /\ UNCHANGED <<root, mem, db, dirty, roots, commits>>
  <2>1. /\ IsCall(call') /\ call'.op = "get_proof"
        /\ call'.link # Boxed /\ DOMAIN call'.store = {}
    BY <1>1, <1>4, ProofCallType
  <2>2. CallOnTree'
    BY <2>1 DEF CallOnTree, CopiedFrom
  <2>3. call.op \notin {"insert", "commit"}
    BY <1>2 DEF Idle
  <2> QED BY <1>4, <2>1, <2>2, <2>3, LookupStep
<1> QED BY <1>2, <1>3, <1>4

\* What is known while a lookup is in progress.
LEMMA LookingUp ==
  ASSUME IndInv, Reading
  PROVE  /\ IsRead(call)
         /\ Rest \in Path
         /\ CopiedFrom(call.store)
         /\ call.link = Boxed => call.op = "get_value" /\ call.at \in DOMAIN mem
         /\ Owned(mem, DOMAIN db)
<1>1. IsRead(call)
  BY DEF IndInv, Typed, IsCall, Reading
<1>2. Rest \in Path
  BY <1>1, PathLen, DropType DEF Rest, IsRead
<1> QED BY <1>1, <1>2 DEF IndInv, CallOnTree, Reading, TreeInv

\* A lookup reads a node; one that it reads from a database owns no node.
LEMMA ReadNode ==
  ASSUME IndInv, Reading, Found
  PROVE  /\ IsNode(NodeRead)
         /\ call.link # Boxed => Childless(NodeRead, DOMAIN db)
         /\ IsStore(StoreAfter) /\ CopiedFrom(StoreAfter)
<1>0. /\ IsRead(call) /\ CopiedFrom(call.store) /\ Owned(mem, DOMAIN db)
      /\ call.link = Boxed => call.op = "get_value" /\ call.at \in DOMAIN mem
      /\ IsStore(call.store)
  BY LookingUp DEF IsRead
<1>1. CASE call.link = Boxed
  BY <1>0, <1>1 DEF NodeRead, StoreAfter, Owned, IsStore
<1>2. CASE call.link # Boxed
  <2>1. call.link.hash \in DOMAIN Source /\ NodeRead = Source[call.link.hash]
    BY <1>2 DEF Found, NodeRead
  <2>2. call.link.hash \in DOMAIN db /\ NodeRead = db[call.link.hash]
    BY <1>0, <2>1 DEF Source, CopiedFrom
  <2>3. Childless(NodeRead, DOMAIN db)
    BY <2>2, StoredChildless DEF IndInv
  <2>4. IsNode(NodeRead)
    BY <2>3 DEF Childless
  <2>5. CASE call.op = "get_proof"
    <3>1. StoreAfter = With(call.store, call.link.hash, NodeRead)
      BY <2>5 DEF StoreAfter
    <3>2. IsStore(StoreAfter)
      BY <1>0, <2>4, <3>1, WithType
    <3>3. CopiedFrom(StoreAfter)
      BY <1>0, <2>2, <3>1 DEF With, CopiedFrom
    <3> QED BY <1>2, <2>3, <2>4, <3>2, <3>3
  <2>6. CASE call.op # "get_proof"
    <3>1. StoreAfter = call.store
      BY <2>6 DEF StoreAfter
    <3> QED BY <1>0, <1>2, <2>3, <2>4, <3>1
  <2> QED BY <2>5, <2>6
<1> QED BY <1>1, <1>2

\* The verification starts on the nodes the proof has copied.
LEMMA VerifyProofStep ==
  ASSUME IndInv, VerifyProof
  PROVE  IndInv'
<1>1. /\ call.op = "return"
      /\ call' = ReadCall("verify_proof", call.of.root_hash, call.of.key, call.of.store,
                          <<>>, HashLink(call.of.root_hash))
      /\ UNCHANGED <<root, mem, db, dirty, roots, commits>>
  BY DEF VerifyProof
<1>2. IsStore(call.of.store) /\ call.of.key \in Path /\ CopiedFrom(call.of.store)
  BY <1>1 DEF IndInv, Typed, IsCall, IsRead, CallOnTree
<1>3. IsCall(call')
  BY <1>1, <1>2, LinkTypes, EmptyPath DEF IsCall, IsRead, ReadCall
<1>4. CallOnTree'
  BY <1>1, <1>2, LinkTypes DEF CallOnTree, ReadCall, CopiedFrom
<1>5. call'.op = "verify_proof"
  BY <1>1 DEF ReadCall
<1> QED BY <1>1, <1>3, <1>4, <1>5, LookupStep

\* A lookup goes on to a link of the node read; a proof copies that node.
LEMMA ReadDescendStep ==
  ASSUME IndInv, ReadDescend
  PROVE  IndInv'
<1> DEFINE n    == NodeRead
           slot == NextSlot(n, Rest)
           at   == call.at \o slot
           link == LinkAt(n, slot)
           c    == ReadCall(call.op, call.root_hash, call.key, StoreAfter, at, link)
<1>1. /\ Reading /\ Found /\ Descends(n, Rest) /\ call' = c
      /\ UNCHANGED <<root, mem, db, dirty, roots, commits>>
  BY DEF ReadDescend
<1>2. /\ IsRead(call) /\ Rest \in Path /\ Owned(mem, DOMAIN db)
      /\ call.link = Boxed => call.op = "get_value" /\ call.at \in DOMAIN mem
  BY <1>1, LookingUp
<1>3. /\ IsNode(n) /\ IsStore(StoreAfter) /\ CopiedFrom(StoreAfter)
      /\ call.link # Boxed => Childless(n, DOMAIN db)
  BY <1>1, ReadNode
<1>4. slot \in Slots(n)
  <2> HIDE DEF n
  <2> QED BY <1>1, <1>2, <1>3, DescendsSlot
<1>5. slot \in Path /\ IsLink(link) /\ link \in Links(n)
  <2> HIDE DEF n, slot
  <2> QED BY <1>3, <1>4, NodeSlots
<1>6. at \in Path
  BY <1>2, <1>5, ConcatPath DEF IsRead
<1>7. link = Boxed => call.op = "get_value" /\ at \in DOMAIN mem
  <2> SUFFICES ASSUME link = Boxed PROVE call.op = "get_value" /\ at \in DOMAIN mem
    OBVIOUS
  <2> HIDE DEF link
  <2>1. call.link = Boxed
    BY <1>3, <1>5 DEF Childless
  <2>2. n = mem[call.at]
    BY <2>1 DEF NodeRead
  <2> HIDE DEF n, slot
  <2> QED BY <1>2, <1>4, <2>1, <2>2 DEF Owned, Tree, link
<1> HIDE DEF n, slot, at, link
<1>8. /\ call'.op = call.op /\ call'.key = call.key /\ call'.store = StoreAfter
      /\ call'.at = at /\ call'.link = link /\ call'.root_hash = call.root_hash
  BY <1>1 DEF ReadCall
<1>9. call.op \in {"get_value", "get_proof", "verify_proof"}
  BY <1>1 DEF Reading
<1>10. IsRead(call')
  BY <1>1, <1>2, <1>3, <1>5, <1>6, <1>8, <1>9 DEF IsRead
<1>11. IsCall(call')
  BY <1>8, <1>9, <1>10 DEF IsCall
<1>12. CallOnTree'
  <2>1. \A h \in DOMAIN call'.store : h \in DOMAIN db' /\ call'.store[h] = db'[h]
    BY <1>1, <1>3, <1>8 DEF CopiedFrom
  <2>2. call'.op \notin {"insert", "commit", "return"}
    BY <1>8, <1>9
  <2>3. call'.link = Boxed => call'.op = "get_value" /\ call'.at \in DOMAIN mem'
    BY <1>1, <1>7, <1>8
  <2> QED BY <2>1, <2>2, <2>3 DEF CallOnTree, CopiedFrom
<1> QED BY <1>1, <1>8, <1>9, <1>11, <1>12, LookupStep

\* A step that ends a lookup.
LEMMA ReturnStep ==
  ASSUME IndInv, Reading, NEW store, IsStore(store), CopiedFrom(store),
         NEW result, Return(store, result)
  PROVE  IndInv'
<1> DEFINE of == ReadCall(call.op, call.root_hash, call.key, store, call.at, call.link)
<1>1. call' = Returned(of, result) /\ UNCHANGED <<root, mem, db, dirty, roots, commits>>
  BY DEF Return
<1>2. IsRead(of) /\ of.store = store
  BY LookingUp DEF IsRead, ReadCall
<1> HIDE DEF of
<1>3. call'.op = "return" /\ call'.of = of /\ call' = Returned(call'.of, call'.result)
  BY <1>1 DEF Returned
<1>4. IsCall(call')
  BY <1>2, <1>3 DEF IsCall
<1>5. CallOnTree'
  BY <1>1, <1>2, <1>3 DEF CallOnTree, CopiedFrom
<1>6. call.op \notin {"insert", "commit"}
  BY DEF Reading
<1> QED BY <1>1, <1>3, <1>4, <1>5, <1>6, LookupStep

\* A lookup that ends at a node returns.
LEMMA ReadHereStep ==
  ASSUME IndInv, ReadHere
  PROVE  IndInv'
BY ReadNode, ReturnStep DEF ReadHere

\* A lookup that ends without a node.
LEMMA ReadMissStep ==
  ASSUME IndInv, ReadEmpty \/ ReadNoRoot \/ ReadFails
  PROVE  IndInv'
<1>1. Reading
  BY DEF ReadEmpty, ReadNoRoot, ReadFails, Reading
<1>2. IsStore(call.store) /\ CopiedFrom(call.store)
  BY <1>1, LookingUp DEF IsRead
<1>3. \E result : Return(call.store, result)
  BY DEF ReadEmpty, ReadNoRoot, ReadFails
<1> QED BY <1>1, <1>2, <1>3, ReturnStep

\* The caller takes the result.
LEMMA ResumeStep ==
  ASSUME IndInv, Resume
  PROVE  IndInv'
<1>1. call.op = "return" /\ call' = Idle /\ UNCHANGED <<root, mem, db, dirty, roots, commits>>
  BY DEF Resume
<1>2. IsCall(call') /\ CallOnTree' /\ call'.op = "idle"
  BY <1>1 DEF IsCall, CallOnTree, Idle
<1> QED BY <1>1, <1>2, LookupStep

-----------------------------------------------------------------------------
(* The theorems.                                                           *)

\* Every step of the trie, with or without faults, keeps the invariant.
THEOREM IndInvInductive ==
  ASSUME IndInv, [Next]_vars
  PROVE  IndInv'
<1>1. ASSUME NEW k \in Key, NEW v \in Value, Insert(k, v) PROVE IndInv'
  BY <1>1, InsertStep
<1>2. ASSUME NEW k \in Key, GetValue(k) PROVE IndInv'
  BY <1>2, GetValueStep
<1>3. CASE Commit
  BY <1>3, StartCommitStep DEF Commit
<1>4. ASSUME NEW h \in KnownHash, Revert(h) PROVE IndInv'
  BY <1>4, RevertStep
<1>5. ASSUME NEW h \in KnownHash, NEW k \in Key, GetProof(h, k) PROVE IndInv'
  BY <1>5, GetProofStep
<1>6. CASE VerifyProof
  BY <1>6, VerifyProofStep
<1>7. CASE Step
  <2>1. CASE InsertIntoEmpty
    BY <2>1, InsertIntoEmptyStep
  <2>2. CASE InsertLoad
    BY <2>2, InsertLoadStep
  <2>3. CASE InsertDescend
    BY <2>3, InsertDescendStep
  <2>4. CASE InsertHere
    BY <2>4, InsertHereStep
  <2>5. CASE InsertFails
    BY <2>5, InsertFailsStep
  <2>6. CASE CollapseNode
    BY <2>6, CollapseNodeStep
  <2>7. CASE FinishCommit
    BY <2>7, FinishCommitStep
  <2>8. CASE CommitFails
    BY <2>8, CommitFailsStep
  <2>9. CASE ReadDescend
    BY <2>9, ReadDescendStep
  <2>10. CASE ReadHere
    BY <2>10, ReadHereStep
  <2>11. CASE ReadEmpty \/ ReadNoRoot \/ ReadFails
    BY <2>11, ReadMissStep
  <2>12. CASE Resume
    BY <2>12, ResumeStep
  <2> QED BY <1>7, <2>1, <2>2, <2>3, <2>4, <2>5, <2>6, <2>7, <2>8, <2>9, <2>10, <2>11, <2>12 DEF Step
<1>8. CASE Restart \/ InsertUnserializable
  BY <1>8, RestartStep, InsertUnserializableStep
<1>9. CASE UNCHANGED vars
  <2>1. UNCHANGED <<root, mem, db, dirty, call, roots, commits>>
    BY <1>9 DEF vars
  <2>2. Top' = Top
    BY <2>1 DEF Top
  <2>3. Typed' /\ StoreInv' /\ TreeInv'
    BY <2>1, <2>2 DEF IndInv, Typed, StoreInv, StoreClosed, TreeInv
  <2>4. CallOnTree'
    BY <2>1 DEF IndInv, CallOnTree, CopiedFrom
  <2> QED BY <2>3, <2>4 DEF IndInv
<1> QED BY <1>1, <1>2, <1>3, <1>4, <1>5, <1>6, <1>7, <1>8, <1>9 DEF Next

\* Every reachable state satisfies the inductive invariant.
THEOREM IndInvHolds == Spec => []IndInv
<1>1. Init => IndInv
  BY InitIndInv
<1>2. IndInv /\ [Next]_vars => IndInv'
  BY IndInvInductive
<1> QED BY <1>1, <1>2, PTL DEF Spec

\* Links, nodes and calls always have the shapes of their Rust types; no
\* extension with an empty partial key and no nibble above 15 ever appears.
THEOREM TypesHold == Spec => []TypeOK
<1>1. IndInv => TypeOK
  BY IndInvImplies
<1> QED BY <1>1, IndInvHolds, PTL

\* However often commits fail or the process stops between two writes of
\* collapse, no stored node links to one that is not stored.
THEOREM StoreAlwaysClosed == Spec => []StoreClosed
<1>1. IndInv => StoreClosed
  BY IndInvImplies
<1> QED BY <1>1, IndInvHolds, PTL

\* Splits, loads, collapses and failures always leave a tree of boxed nodes:
\* none is lost, none is reachable twice.
THEOREM TreeAlwaysOwned == Spec => []TreeOwned
<1>1. IndInv => TreeOwned
  BY IndInvImplies
<1> QED BY <1>1, IndInvHolds, PTL

\* The call in progress is always at a link of the tree it works on.
THEOREM CallAlwaysOnTree == Spec => []CallOnTree
<1>1. IndInv => CallOnTree
  BY IndInvImplies
<1> QED BY <1>1, IndInvHolds, PTL

-----------------------------------------------------------------------------
(* Roots: where the hashes come from that a caller or a call may name.  A   *)
(* loss of power breaks this, and nothing of the above.                     *)

\* A step after which the trie hangs from the same link, or from none, or from
\* a box, and no insertion goes on.
LEMMA RootsStay ==
  ASSUME RootsInv, UNCHANGED <<db, roots>>, Top' \in {Top, Empty, Boxed}, call'.op # "insert"
  PROVE  RootsInv'
BY LinkTypes DEF RootsInv, Known

\* A step that ends a call which has taken the root, without a new one.
LEMMA RootGone ==
  ASSUME IndInv, call.op \in {"insert", "commit"}, UNCHANGED root, call' = Idle
  PROVE  Top' = Empty /\ call'.op # "insert"
BY DEF IndInv, CallOnTree, Top, Idle

\* An insertion goes on to a hash only if it is stored.
LEMMA RootsAtDescend ==
  ASSUME IndInv, RootsInv, InsertDescend
  PROVE  RootsInv'
<1> DEFINE n    == mem[call.at]
           slot == NextSlot(n, Rest)
           link == LinkAt(n, slot)
           at   == call.at \o slot
<1>1. /\ call.op = "insert" /\ call.link = Boxed /\ Descends(n, Rest)
      /\ call' = InsertCall(call.key, call.value, call.top, at, link)
      /\ UNCHANGED <<root, mem, db, dirty, roots, commits>>
  BY DEF InsertDescend
<1>2. Rest \in Path /\ call.at \in DOMAIN mem /\ Owned(mem, DOMAIN db)
  BY <1>1, Inserting
<1>3. IsNode(n)
  BY <1>2 DEF Owned, IsStore
<1>4. slot \in Slots(n)
  BY <1>1, <1>2, <1>3, DescendsSlot
<1>5. IsHash(link) => link.hash \in DOMAIN db
  BY <1>2, <1>4, OwnedBySlots
<1> HIDE DEF n, slot, link, at
<1>6. Top' = Top /\ call'.link = link
  BY <1>1 DEF Top, InsertCall
<1> QED BY <1>1, <1>5, <1>6 DEF RootsInv, Known

\* A write of collapse adds what it puts in the place of the root.
LEMMA RootsAtCollapse ==
  ASSUME IndInv, RootsInv, CollapseNode
  PROVE  RootsInv'
<1>1. PICK p \in DOMAIN mem :
        LET link == HashLink(Hash(mem[p]))
        IN  /\ db' = With(db, Hash(mem[p]), mem[p])
            /\ call' = CommitCall(IF p = <<>> THEN link ELSE call.top, call.then)
  BY DEF CollapseNode, Collapsible, Written
<1> DEFINE h   == Hash(mem[p])
           top == IF p = <<>> THEN HashLink(h) ELSE call.top
<1>2. call.op = "commit" /\ UNCHANGED roots /\ DOMAIN db' = DOMAIN db \cup {h}
  BY <1>1 DEF CollapseNode, With
<1>3. HashLink(h).hash = h
  BY LinkTypes
<1> HIDE DEF h
<1>4. call'.op = "commit" /\ Top' = top /\ Top = call.top
  BY <1>1, <1>2 DEF Top, CommitCall, h
<1> QED BY <1>2, <1>3, <1>4 DEF RootsInv, Known

\* Every step keeps what is known of the roots.
LEMMA RootsInvInductive ==
  ASSUME IndInv, RootsInv, [Next]_vars
  PROVE  RootsInv'
<1>1. ASSUME NEW k \in Key, NEW v \in Value, Insert(k, v) PROVE RootsInv'
  <2>1. call'.op = "insert" /\ call'.link = root /\ Top' = root /\ Top = root
    BY <1>1 DEF Insert, InsertCall, Top, Idle
  <2> QED BY <1>1, <2>1 DEF RootsInv, Known, Insert
<1>2. ASSUME NEW then, call = Idle, StartCommit(then) PROVE RootsInv'
  <2>1. Top' = Top /\ call'.op = "commit"
    BY <1>2 DEF StartCommit, CommitCall, Top, Idle
  <2> QED BY <1>2, <2>1, RootsStay DEF StartCommit
<1>3. ASSUME UNCHANGED <<root, db, roots>>, call.op \notin {"insert", "commit"},
             call'.op \notin {"insert", "commit"}
      PROVE  RootsInv'
  <2>1. Top' = Top
    BY <1>3 DEF Top
  <2> QED BY <1>3, <2>1, RootsStay
<1>4. ASSUME NEW k \in Key, GetValue(k) PROVE RootsInv'
  BY <1>3, <1>4 DEF GetValue, ReadCall, Idle
<1>5. ASSUME NEW h \in KnownHash, NEW k \in Key, GetProof(h, k) PROVE RootsInv'
  BY <1>2, <1>3, <1>5 DEF GetProof, ProofCall, ReadCall, Idle
<1>6. CASE Commit
  BY <1>2, <1>6 DEF Commit
<1>7. ASSUME NEW h \in KnownHash, Revert(h) PROVE RootsInv'
  <2>1. h \in DOMAIN db \cup ForeignHash
    BY DEF RootsInv, KnownHash
  <2>2. Top' = HashLink(h) /\ call'.op # "insert" /\ HashLink(h).hash = h
    BY <1>7, LinkTypes DEF Revert, Top, Idle
  <2> QED BY <1>7, <2>1, <2>2 DEF Revert, RootsInv, Known
<1>8. CASE InsertIntoEmpty \/ InsertHere
  <2>1. Top' = Boxed /\ call'.op # "insert" /\ UNCHANGED <<db, roots>>
    BY <1>8 DEF InsertIntoEmpty, InsertHere, FinishInsert, Top, Idle
  <2> QED BY <2>1, RootsStay
<1>9. CASE InsertLoad
  <2>1. call'.link = Boxed /\ Top' \in {Top, Boxed} /\ UNCHANGED <<db, roots>>
    BY <1>9 DEF InsertLoad, InsertCall, Top
  <2> QED BY <2>1, LinkTypes DEF RootsInv, Known
<1>10. CASE InsertDescend
  BY <1>10, RootsAtDescend
<1>11. CASE InsertFails \/ CommitFails
  <2>1. call.op \in {"insert", "commit"} /\ call' = Idle /\ UNCHANGED <<root, db, roots>>
    BY <1>11 DEF InsertFails, CommitFails
  <2> QED BY <2>1, RootGone, RootsStay
<1>12. CASE CollapseNode
  BY <1>12, RootsAtCollapse
<1>13. CASE FinishCommit
  <2>1. /\ Top' = Top /\ Top = call.top /\ call'.op # "insert" /\ UNCHANGED db
        /\ roots' \subseteq roots \cup (IF IsHash(call.top) THEN {call.top.hash} ELSE {})
    BY <1>13 DEF FinishCommit, Top, Idle, ProofCall, ReadCall
  <2> QED BY <2>1 DEF RootsInv, Known
<1>14. CASE ReadDescend \/ ReadHere \/ ReadEmpty \/ ReadNoRoot \/ ReadFails \/ Resume \/ VerifyProof
  <2>1. /\ UNCHANGED <<root, db, roots>> /\ call.op \notin {"insert", "commit"}
        /\ call'.op \notin {"insert", "commit"}
    <3>1. CASE ReadDescend
      BY <3>1 DEF ReadDescend, Reading, ReadCall
    <3>2. CASE ReadHere \/ ReadEmpty \/ ReadNoRoot \/ ReadFails
      BY <3>2 DEF ReadHere, ReadEmpty, ReadNoRoot, ReadFails, Reading, Return, Returned
    <3>3. CASE Resume \/ VerifyProof
      BY <3>3 DEF Resume, VerifyProof, ReadCall, Idle
    <3> QED BY <1>14, <3>1, <3>2, <3>3
  <2> QED BY <1>3, <2>1
<1>15. CASE Restart \/ InsertUnserializable
  <2>1. Top' = Empty /\ call'.op # "insert" /\ UNCHANGED <<db, roots>>
    BY <1>15 DEF Restart, InsertUnserializable, Top, Idle
  <2> QED BY <2>1, RootsStay
<1>16. CASE UNCHANGED vars
  <2>1. UNCHANGED <<db, roots, call>> /\ Top' = Top
    BY <1>16 DEF vars, Top
  <2> QED BY <2>1 DEF RootsInv, Known
<1> QED BY <1>1, <1>4, <1>5, <1>6, <1>7, <1>8, <1>9, <1>10, <1>11, <1>12, <1>13, <1>14, <1>15, <1>16
        DEF Next, Step

\* Without a loss of power, every root a caller may name is stored or foreign.
LEMMA RootsInvHolds == Spec => []RootsInv
<1>1. Init => RootsInv
  BY LinkTypes DEF Init, RootsInv, Known, Top, Idle
<1>2. IndInv /\ RootsInv /\ [Next]_vars => RootsInv'
  BY RootsInvInductive
<1> QED BY <1>1, <1>2, IndInvHolds, PTL DEF Spec

\* Every hash the trie holds can be read back, unless the caller made it up.
THEOREM LinksAlwaysResolve == Spec => []LinksResolve
<1>1. IndInv /\ RootsInv => LinksResolve
  BY IndInvImplies
<1> QED BY <1>1, IndInvHolds, RootsInvHolds, PTL

-----------------------------------------------------------------------------
(* What the invariant is good for.                                         *)

CleanInv == ~dirty => root # Boxed

\* Whatever became of the insertions and commits before it, a get_proof that
\* skips the commit because the trie is clean has every node it may need in
\* the database.
THEOREM CleanAlwaysStored == Spec => []CleanIsStored
<1>1. Init => CleanInv
  BY LinkTypes DEF Init, CleanInv
<1>2. ASSUME IndInv, CleanInv, [Next]_vars PROVE CleanInv'
  <2>1. ASSUME NEW k \in Key, NEW v \in Value, Insert(k, v) PROVE CleanInv'
    BY <2>1, LinkTypes DEF Insert, CleanInv
  <2>2. ASSUME UNCHANGED <<root, dirty>> PROVE CleanInv'
    BY <1>2, <2>2 DEF CleanInv
  <2>3. ASSUME NEW then, StartCommit(then) PROVE CleanInv'
    BY <2>3, LinkTypes DEF StartCommit, CleanInv
  <2>4. ASSUME NEW h, Revert(h) PROVE CleanInv'
    BY <2>4, LinkTypes DEF Revert, CleanInv
  <2>5. ASSUME NEW h, NEW k, GetProof(h, k) PROVE CleanInv'
    BY <2>2, <2>3, <2>5 DEF GetProof
  <2>6. CASE InsertIntoEmpty \/ InsertHere
    BY <2>6 DEF InsertIntoEmpty, InsertHere, FinishInsert, CleanInv
  <2>7. CASE FinishCommit
    BY <2>7 DEF FinishCommit, CleanInv
  <2>8. CASE Restart \/ InsertUnserializable
    BY <2>8, LinkTypes DEF Restart, InsertUnserializable, CleanInv
  <2>9. CASE Commit
    BY <2>3, <2>9 DEF Commit
  <2>10. CASE VerifyProof \/ InsertLoad \/ InsertDescend \/ InsertFails \/ CollapseNode
              \/ CommitFails \/ ReadDescend \/ Resume
    BY <2>2, <2>10 DEF VerifyProof, InsertLoad, InsertDescend, InsertFails, CollapseNode,
                       CommitFails, ReadDescend, Resume
  <2>11. CASE ReadHere \/ ReadEmpty \/ ReadNoRoot \/ ReadFails
    BY <2>2, <2>11 DEF ReadHere, ReadEmpty, ReadNoRoot, ReadFails, Return
  <2>12. ASSUME NEW k, GetValue(k) PROVE CleanInv'
    BY <2>2, <2>12 DEF GetValue
  <2>13. CASE UNCHANGED vars
    BY <2>2, <2>13 DEF vars
  <2> QED BY <1>2, <2>1, <2>4, <2>5, <2>6, <2>7, <2>8, <2>9, <2>10, <2>11, <2>12, <2>13 DEF Next, Step
<1>3. CleanInv => CleanIsStored
  BY DEF CleanInv, CleanIsStored
<1> QED BY <1>1, <1>2, <1>3, IndInvHolds, PTL DEF Spec

\* Nothing but a write of collapse changes the database.
LEMMA OnlyCollapseWrites ==
  ASSUME [Next]_vars
  PROVE  UNCHANGED db \/ CollapseNode
<1>1. ASSUME NEW k, NEW v, Insert(k, v) PROVE UNCHANGED db
  BY <1>1 DEF Insert
<1>2. ASSUME NEW h, NEW k, GetProof(h, k) PROVE UNCHANGED db
  BY <1>2 DEF GetProof, StartCommit
<1>3. ASSUME NEW h, Revert(h) PROVE UNCHANGED db
  BY <1>3 DEF Revert
<1>4. ASSUME NEW k, GetValue(k) PROVE UNCHANGED db
  BY <1>4 DEF GetValue
<1>5. CASE Commit \/ VerifyProof \/ Restart \/ InsertUnserializable
  BY <1>5 DEF Commit, StartCommit, VerifyProof, Restart, InsertUnserializable
<1>6. CASE Step /\ ~CollapseNode
  <2>1. CASE InsertIntoEmpty \/ InsertLoad \/ InsertDescend \/ InsertHere \/ InsertFails
    BY <2>1 DEF InsertIntoEmpty, InsertLoad, InsertDescend, InsertHere, InsertFails, FinishInsert
  <2>2. CASE FinishCommit \/ CommitFails \/ Resume
    BY <2>2 DEF FinishCommit, CommitFails, Resume
  <2>3. CASE ReadDescend \/ ReadHere \/ ReadEmpty \/ ReadNoRoot \/ ReadFails
    BY <2>3 DEF ReadDescend, ReadHere, ReadEmpty, ReadNoRoot, ReadFails, Return
  <2> QED BY <1>6, <2>1, <2>2, <2>3 DEF Step
<1>7. CASE UNCHANGED vars
  BY <1>7 DEF vars
<1> QED BY <1>1, <1>2, <1>3, <1>4, <1>5, <1>6, <1>7 DEF Next

\* The database only grows: a node once written is never changed, by a later
\* commit, an insertion into nodes loaded from it, or a failure.
StoreOnlyGrows == \A h \in DOMAIN db : h \in DOMAIN db' /\ db'[h] = db[h]

\* Every step keeps the nodes in the database: one that is written again is
\* the same node.
LEMMA StoreKept ==
  ASSUME IndInv, [Next]_vars
  PROVE  StoreOnlyGrows
<1>1. CASE CollapseNode
  <2>1. PICK p \in DOMAIN mem : db' = With(db, Hash(mem[p]), mem[p])
    BY <1>1 DEF CollapseNode, Collapsible, Written
  <2>2. Hash(mem[p]) \in DOMAIN db => db[Hash(mem[p])] = mem[p]
    <3>1. \A m, n : Hash(m) = Hash(n) => m = n
      <4>1. ASSUME NEW m, NEW n, Hash(m) = Hash(n) PROVE m = n
        <5>1. Hash(m).blake2 = m /\ Hash(n).blake2 = n
          BY DEF Hash
        <5> QED BY <4>1, <5>1
      <4> QED BY <4>1
    <3> QED BY <3>1 DEF IndInv, StoreInv, StoreClosed
  <2> QED BY <2>1, <2>2 DEF With, StoreOnlyGrows
<1>2. CASE UNCHANGED db
  BY <1>2 DEF StoreOnlyGrows
<1> QED BY <1>1, <1>2, OnlyCollapseWrites

\* Every step keeps the nodes a committed root names, on which the stability
\* of the versions rests.
THEOREM StoreAppendOnly == Spec => [][StoreOnlyGrows]_vars
<1>1. IndInv /\ [Next]_vars => [StoreOnlyGrows]_vars
  BY StoreKept
<1> QED BY <1>1, IndInvHolds, PTL DEF Spec
=============================================================================
