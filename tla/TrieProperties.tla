--------------------------- MODULE TrieProperties ---------------------------
(***************************************************************************)
(* What makes the trie correct.  The contents of a trie are defined here   *)
(* by the paths its links spell, independently of the code's lookups, and  *)
(* the properties compare the calls with them.                             *)
(***************************************************************************)
EXTENDS Trie

CONSTANT Unreadable  \* the contents of a path that meets a digest not stored

ASSUME UnreadableAssumption == Unreadable \notin Value \cup {None}

-----------------------------------------------------------------------------
(* Types.                                                                  *)

IsLink(l) == l = Empty \/ l = Boxed \/ (IsHash(l) /\ l = HashLink(l.hash))

IsNode(n) ==
  \/ /\ n.kind = "Node"
     /\ n = Node(n.rest_of_key, n.value)
     /\ n.rest_of_key \in Path
     /\ n.value \in Value
  \/ /\ n.kind = "Extension"
     /\ n = Extension(n.partial_key, n.branch)
     /\ n.partial_key \in Path \ {<<>>}
     /\ IsLink(n.branch)
  \/ /\ n.kind = "Branch"
     /\ n = Branch(n.children, n.value)
     /\ n.children = [i \in Nibble |-> n.children[i]]
     /\ \A i \in Nibble : IsLink(n.children[i])
     /\ n.value \in Value \cup {None}

IsStore(s) == s = [h \in DOMAIN s |-> s[h]] /\ \A h \in DOMAIN s : IsNode(s[h])

IsRead(c) ==
  /\ c = ReadCall(c.op, c.root_hash, c.key, c.store, c.at, c.link)
  /\ c.op \in {"get_value", "get_proof", "verify_proof"}
  /\ c.key \in Path /\ c.at \in Path
  /\ IsStore(c.store)
  /\ IsLink(c.link)

IsCall(c) ==
  CASE c.op = "idle"   -> c = Idle
    [] c.op = "insert" -> /\ c = InsertCall(c.key, c.value, c.top, c.at, c.link)
                          /\ c.key \in Path /\ c.at \in Path
                          /\ c.value \in Value
                          /\ IsLink(c.top) /\ IsLink(c.link)
    [] c.op = "commit" -> /\ c = CommitCall(c.top, c.then)
                          /\ IsLink(c.top)
                          /\ \/ c.then = None
                             \/ /\ c.then = [root_hash |-> c.then.root_hash, key |-> c.then.key]
                                /\ c.then.key \in Path
    [] c.op = "return" -> /\ c = Returned(c.of, c.result)
                          /\ IsRead(c.of)
    [] OTHER           -> IsRead(c)

\* Type invariant: links, nodes and the call in progress have the shapes of
\* the Rust types, every nibble of a node's key is below 16 (Radix), a branch
\* has a child for every nibble, and no extension has an empty partial key.
TypeOK ==
  /\ IsLink(root)
  /\ IsStore(mem) /\ DOMAIN mem \subseteq Path
  /\ IsStore(db)
  /\ dirty \in BOOLEAN
  /\ IsCall(call)
  /\ commits \in Nat

-----------------------------------------------------------------------------
(* Contents.                                                               *)

Resolves(link, at, m, d) ==
  \/ link = Boxed /\ at \in DOMAIN m
  \/ IsHash(link) /\ link.hash \in DOMAIN d

Resolve(link, at, m, d) == IF link = Boxed THEN m[at] ELSE d[link.hash]

\* The path suffixes under which a node itself holds a value, and that value.
Ends(n) == CASE n.kind = "Node"      -> {n.rest_of_key}
             [] n.kind = "Extension" -> {}
             [] n.kind = "Branch"    -> {<<>>}

HeldBy(n, rest) == IF rest \in Ends(n) THEN n.value ELSE None

\* What the trie under `top' holds for the path `key'.  ends[n] holds the
\* cursor of the last link whose path from the root spells one of the first n
\* prefixes of the key (a set of one, which TLC evaluates once).
Contents(top, m, d, key) ==
  LET At(c)        == SubSeq(key, 1, c.at)
      There(c)     == Resolves(c.link, At(c), m, d)
      NodeThere(c) == Resolve(c.link, At(c), m, d)
      Advance(c, n) ==
        LET slot == SubSeq(key, c.at + 1, n)
        IN  IF There(c) /\ slot \in Slots(NodeThere(c))
            THEN [at |-> n, link |-> LinkAt(NodeThere(c), slot)]
            ELSE c
      ends[n \in 0 .. Len(key)] ==
        IF n = 0 THEN {[at |-> 0, link |-> top]} ELSE {Advance(c, n) : c \in ends[n - 1]}
      Held(c) == CASE c.link = Empty -> None
                   [] There(c)       -> HeldBy(NodeThere(c), Drop(key, c.at))
                   [] OTHER          -> Unreadable
  IN  CHOOSE held \in {Held(c) : c \in ends[Len(key)]} : TRUE

\* The current map, and the map a committed root names.
CurrentMap    == [k \in Key |-> Contents(Top, mem, db, convert_bytes_to_nibbles(k))]
VersionMap(h) == [k \in Key |-> Contents(HashLink(h), NoNodes, db, convert_bytes_to_nibbles(k))]

-----------------------------------------------------------------------------
(* Invariants of the nodes and the database.                               *)

\* Every node in the database is stored under its own digest and links only
\* to empty slots and to nodes that are in the database too: collapse writes
\* children before parents, so that a commit that fails or is cut off midway
\* leaves nothing that leads nowhere.
StoreClosed ==
  \A h \in DOMAIN db :
    /\ h = Hash(db[h])
    /\ \A link \in Links(db[h]) : link = Empty \/ (IsHash(link) /\ link.hash \in DOMAIN db)

Known(link) == IsHash(link) => link.hash \in DOMAIN db \cup ForeignHash

\* A hash in a boxed node, a root commit returned and the roots and links a
\* call works with are in the database, or were given to revert or get_proof
\* without ever having been returned.
LinksResolve ==
  /\ \A p \in DOMAIN mem : \A link \in Links(mem[p]) :
       IsHash(link) => link.hash \in DOMAIN db
  /\ roots \subseteq DOMAIN db \cup ForeignHash
  /\ Known(Top)
  /\ call.op = "insert" => Known(call.link)

\* A tree of boxed nodes: a boxed slot has its node, and every node below p
\* is in or below a boxed slot of p.
Tree(m) ==
  /\ \A p \in DOMAIN m : \A slot \in Slots(m[p]) :
       LinkAt(m[p], slot) = Boxed => p \o slot \in DOMAIN m
  /\ \A p, q \in DOMAIN m :
       StartsWith(q, p) /\ q # p =>
         \E slot \in Slots(m[p]) : LinkAt(m[p], slot) = Boxed /\ StartsWith(q, p \o slot)

\* The boxed nodes are exactly those owned from the root: a split moves a
\* subtree as a whole, a load or a write of collapse leaves no slot without
\* its node and no node without its slot, a failed call leaves none.
TreeOwned ==
  /\ IF Top = Boxed THEN <<>> \in DOMAIN mem ELSE DOMAIN mem = {}
  /\ Tree(mem)

\* `link' is the link of the tree under `top' at path `at'.
LinkOf(m, top, at, link) ==
  \/ at = <<>> /\ link = top
  \/ \E p \in DOMAIN m : \E slot \in Slots(m[p]) :
       at = p \o slot /\ link = LinkAt(m[p], slot)

CopiedFrom(store) == \A h \in DOMAIN store : h \in DOMAIN db /\ store[h] = db[h]

\* The position of the call in progress: an insertion or a commit has taken
\* the root, an insertion holds a link of the tree it has taken, a lookup only
\* meets boxed nodes while it is in the tree, and a proof is a part of the
\* database.
CallOnTree ==
  /\ call.op \in {"insert", "commit"} => root = Empty
  /\ call.op = "insert" => LinkOf(mem, call.top, call.at, call.link)
  /\ call.op \in {"get_value", "get_proof", "verify_proof"} =>
       /\ call.link = Boxed => call.op = "get_value" /\ call.at \in DOMAIN mem
       /\ CopiedFrom(call.store)
  /\ call.op = "return" => CopiedFrom(call.of.store)

\* A link of an extension leads to a branch; `at' is the path of the link.
ToBranch(link, at) ==
  \/ link = Boxed /\ mem[at].kind = "Branch"
  \/ IsHash(link) /\ db[link.hash].kind = "Branch"

WellShaped(n, at) ==
  CASE n.kind = "Node"      -> TRUE
    [] n.kind = "Extension" ->
         ToBranch(n.branch, at \o n.partial_key)
    [] n.kind = "Branch"    ->
         \E i \in Nibble :
           /\ n.children[i] # Empty
           /\ n.value # None \/ \E j \in Nibble \ {i} : n.children[j] # Empty

\* The shape every split must leave, in the boxed nodes as in the stored ones:
\* an extension leads to a branch, and a branch has at least two entries.
NodesWellShaped ==
  /\ \A p \in DOMAIN mem : WellShaped(mem[p], p)
  /\ \A h \in DOMAIN db : WellShaped(db[h], <<>>)

\* A trie that is not dirty has its root in the database, which is what
\* get_proof takes for granted when it skips the commit.
CleanIsStored == call = Idle /\ ~dirty => root # Boxed

-----------------------------------------------------------------------------
(* Answers.                                                                *)

\* get_value returns what the current trie holds for the key, whichever of
\* its nodes are boxed and whichever are stored; it fails only if the
\* database does or the root is not stored.
GetValueCorrect ==
  call.op = "return" /\ call.of.op = "get_value" =>
    LET held == Contents(root, mem, db, call.of.key)
    IN  \/ call.result = Ok(held)
        \/ call.result = Err /\ (Faults \/ held = Unreadable)

\* get_proof says whether the version has the key; from the nodes it copied
\* verify_proof gets the value the version has, without an error.
ProofSufficient ==
  call.op = "return" /\ call.of.op \in {"get_proof", "verify_proof"} =>
    LET held  == Contents(HashLink(call.of.root_hash), NoNodes, db, call.of.key)
        value == IF held = Unreadable THEN None ELSE held
    IN  CASE call.of.op = "verify_proof" -> call.result = Ok(value)
          [] call.result = Err           -> Faults
          [] OTHER                       -> call.result = Ok(value # None)

\* Two roots with the same contents are the same root, whatever the order of
\* the insertions and commits that led to them.
RootHashCanonical ==
  \A g, h \in roots \ ForeignHash : VersionMap(g) = VersionMap(h) => g = h

-----------------------------------------------------------------------------
(* Steps.                                                                  *)

\* No step changes what a committed root names: not an insertion into the
\* nodes it loaded from there, not a later commit, not a crash.
VersionsStable == [][\A h \in roots : VersionMap(h)' = VersionMap(h)]_vars

\* "insert a key-value into the trie, and return the new root node": the trie
\* an insertion leaves has the value under the key.
ReadYourWrites ==
  [][call.op = "insert" /\ call' = Idle /\ root' = Boxed
       => Contents(Boxed, mem', db', call.key) = call.value]_vars

\* Every call returns: the recursions of insert, collapse and the lookups end.
CallsReturn == call # Idle ~> call = Idle

\* With keys that never leave one nibble of a partial key below a shared
\* prefix, the trie is a versioned map.
Promise == INSTANCE VersionedMap WITH
             map      <- CurrentMap,
             versions <- [h \in roots |-> VersionMap(h)],
             MayLose  <- Faults

\* The trie implements the versioned map: insertions put one key, commits
\* publish the current map, collapses and loads change nothing.
ImplementsVersionedMap == Promise!Spec
=============================================================================
