-------------------------------- MODULE Trie --------------------------------
(***************************************************************************)
(* The Trie trait of src/src/trie/mod.rs over a Database: insert,          *)
(* get_value, commit, revert, get_proof, and the free function             *)
(* verify_proof.  MemoryTrie and RocksdbTrie differ only in the database:  *)
(* Faults says whether its calls may return an error and whether the       *)
(* process may stop and be started again on the same database.             *)
(*                                                                         *)
(* A call runs in one thread and holds the trie, so calls never overlap;   *)
(* but a call touches the database several times, and may fail or be cut   *)
(* off at each.  Every level of a recursive call is therefore one step:    *)
(* insert and the lookups recurse in tail position (what insert does on    *)
(* the way back is to put each node where it was), and collapse is the     *)
(* sequence of its writes.                                                 *)
(***************************************************************************)
EXTENDS TrieNode, FiniteSets

CONSTANTS Key,         \* the keys callers use: byte strings
          ForeignHash, \* digests that are of no node ever stored
          Faults,      \* RocksDB: I/O errors, process restarts
          MaxCommits   \* bound on the commits of a behaviour

ASSUME KeyAssumption == Key \subseteq Seq(Byte)
ASSUME FaultsAssumption == Faults \in BOOLEAN
ASSUME MaxCommitsAssumption == MaxCommits \in Nat

VARIABLES
  root,    \* self.root_node
  mem,     \* the nodes boxed under root, or under the link a call has taken
  db,      \* self.db: from digest to node
  dirty,   \* self.dirty
  call,    \* the call in progress: its arguments and local variables
  roots,   \* the root hashes commit has returned so far (the caller's)
  commits  \* how often collapse was started, for MaxCommits

vars == <<root, mem, db, dirty, call, roots, commits>>

NoNodes == [p \in {} |-> NewBranch]

Ok(x) == [ok |-> x]
Err   == [err |-> "TrieError"]

Idle == [op |-> "idle"]
\* insert: `top' is the local root_node, `link' the link at path `at'.
InsertCall(key, value, top, at, link) ==
  [op |-> "insert", key |-> key, value |-> value, top |-> top, at |-> at, link |-> link]
\* commit, for its caller (then = None) or for a get_proof that goes on after.
CommitCall(top, then) == [op |-> "commit", top |-> top, then |-> then]
\* get_value, get_proof (store: the proof_db it fills), verify_proof (store:
\* the proof_db it reads): at path `at' of the key, about to follow `link'.
ReadCall(op, root_hash, key, store, at, link) ==
  [op |-> op, root_hash |-> root_hash, key |-> key, store |-> store, at |-> at, link |-> link]
Returned(of, result) == [op |-> "return", of |-> of, result |-> result]

\* The link the current tree hangs from: a call that changes it has taken it.
Top == IF call.op \in {"insert", "commit"} THEN call.top ELSE root

Rest == Drop(call.key, Len(call.at))

Init ==
  /\ root = Empty
  /\ mem = NoNodes
  /\ db = NoNodes
  /\ dirty = FALSE
  /\ call = Idle
  /\ roots = {}
  /\ commits = 0

-----------------------------------------------------------------------------
(* insert                                                                  *)

Insert(k, v) ==
  /\ call = Idle
  /\ root' = Empty                                  \* take_root_node
  /\ call' = InsertCall(convert_bytes_to_nibbles(k), v, root, <<>>, root)
  /\ UNCHANGED <<mem, db, dirty, roots, commits>>

\* The value does not serialize, which insert finds out once it has taken the
\* root.
InsertUnserializable ==
  /\ Faults
  /\ call = Idle
  /\ root' = Empty
  /\ mem' = NoNodes
  /\ UNCHANGED <<db, dirty, call, roots, commits>>

\* Faulty variant: the trie is not marked as changed.
FinishInsert_NotDirty(nodes) ==
  /\ mem' = nodes
  /\ root' = Boxed
  /\ call' = Idle
  /\ UNCHANGED <<db, dirty, roots, commits>>

\* An insertion whose nodes are now `nodes' is complete.
FinishInsert(nodes) ==
  /\ mem' = nodes
  /\ root' = Boxed
  /\ dirty' = TRUE
  /\ call' = Idle
  /\ UNCHANGED <<db, roots, commits>>

InsertIntoEmpty ==
  /\ call.op = "insert"
  /\ call.link = Empty
  /\ FinishInsert(With(Relink(mem, call.at, Boxed), call.at, Node(Rest, call.value)))

\* A HashValue is read from the database and becomes a boxed node.
InsertLoad ==
  /\ call.op = "insert"
  /\ IsHash(call.link)
  /\ call.link.hash \in DOMAIN db
  /\ mem' = With(Relink(mem, call.at, Boxed), call.at, db[call.link.hash])
  /\ call' = InsertCall(call.key, call.value,
                        IF call.at = <<>> THEN Boxed ELSE call.top, call.at, Boxed)
  /\ UNCHANGED <<root, db, dirty, roots, commits>>

\* Faulty variant: the recursive call gets the same node and key again.
InsertDescend_SameNode ==
  /\ call.op = "insert"
  /\ call.link = Boxed
  /\ Descends(mem[call.at], Rest)
  /\ call' = InsertCall(call.key, call.value, call.top, call.at, call.link)
  /\ UNCHANGED <<root, mem, db, dirty, roots, commits>>

InsertDescend ==
  /\ call.op = "insert"
  /\ call.link = Boxed
  /\ Descends(mem[call.at], Rest)
  /\ LET slot == NextSlot(mem[call.at], Rest)
     IN  call' = InsertCall(call.key, call.value, call.top,
                            call.at \o slot, LinkAt(mem[call.at], slot))
  /\ UNCHANGED <<root, mem, db, dirty, roots, commits>>

InsertHere ==
  /\ call.op = "insert"
  /\ call.link = Boxed
  /\ ~Descends(mem[call.at], Rest)
  /\ FinishInsert(InsertAt(mem, call.at, Rest, call.value))

\* An error leaves the trie without the root it took, and so without nodes:
\* db.get fails, or the digest is not stored.
InsertFails ==
  /\ call.op = "insert"
  /\ IsHash(call.link)
  /\ Faults \/ call.link.hash \notin DOMAIN db
  /\ mem' = NoNodes
  /\ call' = Idle
  /\ UNCHANGED <<root, db, dirty, roots, commits>>

-----------------------------------------------------------------------------
(* commit                                                                  *)

StartCommit(then) ==
  /\ commits < MaxCommits
  /\ commits' = commits + 1
  /\ root' = Empty                                  \* take_root_node
  /\ call' = CommitCall(root, then)
  /\ UNCHANGED <<mem, db, dirty, roots>>

Commit == call = Idle /\ StartCommit(None)

\* Faulty variant: a node is written before its children.
Collapsible_ParentFirst(m) ==
  {p \in DOMAIN m : \A q \in DOMAIN m \ {p} : ~StartsWith(p, q)}

\* The boxed nodes whose children are all collapsed.
Collapsible(m) == {p \in DOMAIN m : \A link \in Links(m[p]) : link # Boxed}

\* p and q part ways at a nibble where p takes the lower child.
Before(p, q) ==
  \E i \in DOMAIN p \cap DOMAIN q :
    SubSeq(p, 1, i - 1) = SubSeq(q, 1, i - 1) /\ p[i] < q[i]

\* Faulty variant: leaves are not written.
Written_NotLeaves(n) == IF n.kind = "Node" THEN db ELSE With(db, Hash(n), n)

\* The database after the insert of a node under its digest.
Written(n) == With(db, Hash(n), n)

\* The next write of collapse: children in order, then the node itself.
CollapseNode ==
  /\ call.op = "commit"
  /\ \E p \in Collapsible(mem) :
       /\ \A q \in Collapsible(mem) \ {p} : Before(p, q)
       /\ LET link == HashLink(Hash(mem[p]))
              rest == [q \in DOMAIN mem \ {p} |-> mem[q]]
          IN  /\ db' = Written(mem[p])
              /\ mem' = Relink(rest, p, link)
              /\ call' = CommitCall(IF p = <<>> THEN link ELSE call.top, call.then)
  /\ UNCHANGED <<root, dirty, roots, commits>>

\* A get_proof begins with the node its root hash names.
ProofCall(root_hash, key) ==
  ReadCall("get_proof", root_hash, key, NoNodes, <<>>, HashLink(root_hash))

\* collapse is done: the root is a hash (or the trie is empty), and clean.
FinishCommit ==
  /\ call.op = "commit"
  /\ call.top # Boxed
  /\ root' = call.top
  /\ dirty' = FALSE
  /\ \/ /\ call.then = None
        /\ call' = Idle
        /\ roots' = roots \cup (IF IsHash(call.top) THEN {call.top.hash} ELSE {})
     \/ /\ call.then # None
        /\ call' = ProofCall(call.then.root_hash, call.then.key)
        /\ UNCHANGED roots
  /\ UNCHANGED <<mem, db, commits>>

\* A write fails: what was written stays, the rest of the tree is gone.
CommitFails ==
  /\ Faults
  /\ call.op = "commit"
  /\ mem # NoNodes
  /\ mem' = NoNodes
  /\ call' = Idle
  /\ UNCHANGED <<root, db, dirty, roots, commits>>

-----------------------------------------------------------------------------
(* revert                                                                  *)

Revert(root_hash) ==
  /\ call = Idle
  /\ root' = HashLink(root_hash)
  /\ mem' = NoNodes
  /\ dirty' = FALSE
  /\ UNCHANGED <<db, call, roots, commits>>

-----------------------------------------------------------------------------
(* get_value, get_proof, verify_proof                                      *)

GetValue(k) ==
  /\ call = Idle
  /\ call' = ReadCall("get_value", None, convert_bytes_to_nibbles(k), NoNodes, <<>>, root)
  /\ UNCHANGED <<root, mem, db, dirty, roots, commits>>

\* get_proof commits first when the trie is dirty.
GetProof(root_hash, k) ==
  LET key == convert_bytes_to_nibbles(k)
  IN  /\ call = Idle
      /\ \/ dirty /\ StartCommit([root_hash |-> root_hash, key |-> key])
         \/ /\ ~dirty
            /\ call' = ProofCall(root_hash, key)
            /\ UNCHANGED <<root, mem, db, dirty, roots, commits>>

\* The caller of get_proof hands the proof_db to verify_proof.
VerifyProof ==
  /\ call.op = "return"
  /\ call.of.op = "get_proof"
  /\ call.result # Err
  /\ call' = ReadCall("verify_proof", call.of.root_hash, call.of.key, call.of.store,
                      <<>>, HashLink(call.of.root_hash))
  /\ UNCHANGED <<root, mem, db, dirty, roots, commits>>

Reading == call.op \in {"get_value", "get_proof", "verify_proof"}

\* The database the call in progress reads.
Source == IF call.op = "verify_proof" THEN call.store ELSE db

Found == call.link = Boxed \/ (IsHash(call.link) /\ call.link.hash \in DOMAIN Source)

NodeRead == IF call.link = Boxed THEN mem[call.at] ELSE Source[call.link.hash]

\* Faulty variant: only the root reaches the proof.
StoreAfter_RootOnly ==
  IF call.op = "get_proof" /\ call.at = <<>>
  THEN With(call.store, call.link.hash, NodeRead)
  ELSE call.store

\* get_proof copies every node it reads into the proof.
StoreAfter == IF call.op = "get_proof"
              THEN With(call.store, call.link.hash, NodeRead)
              ELSE call.store

ReadDescend ==
  /\ Reading
  /\ Found
  /\ Descends(NodeRead, Rest)
  /\ LET slot == NextSlot(NodeRead, Rest)
     IN  call' = ReadCall(call.op, call.root_hash, call.key, StoreAfter,
                          call.at \o slot, LinkAt(NodeRead, slot))
  /\ UNCHANGED <<root, mem, db, dirty, roots, commits>>

\* The answer for a value: itself, or whether there is one.
Answer(value) == Ok(IF call.op = "get_proof" THEN value # None ELSE value)

Return(store, result) ==
  /\ call' = Returned(ReadCall(call.op, call.root_hash, call.key, store, call.at, call.link),
                      result)
  /\ UNCHANGED <<root, mem, db, dirty, roots, commits>>

ReadHere ==
  /\ Reading
  /\ Found
  /\ ~Descends(NodeRead, Rest)
  /\ Return(StoreAfter, Answer(ValueAt(NodeRead, Rest)))

ReadEmpty ==
  /\ Reading
  /\ call.link = Empty
  /\ Return(call.store, Answer(None))

\* A proof of, or against, a root that is not stored: no value, no error.
ReadNoRoot ==
  /\ call.op \in {"get_proof", "verify_proof"}
  /\ call.at = <<>>
  /\ ~Found
  /\ Return(call.store, Answer(None))

ReadFails ==
  /\ Reading
  /\ IsHash(call.link)
  /\ \/ Faults /\ call.op # "verify_proof"
     \/ ~Found /\ (call.op = "get_value" \/ call.at # <<>>)
  /\ Return(call.store, Err)

Resume ==
  /\ call.op = "return"
  /\ call' = Idle
  /\ UNCHANGED <<root, mem, db, dirty, roots, commits>>

-----------------------------------------------------------------------------
(* The process stops, at any point, and opens the same database again.     *)

Restart ==
  /\ Faults
  /\ root' = Empty
  /\ mem' = NoNodes
  /\ dirty' = FALSE
  /\ call' = Idle
  /\ UNCHANGED <<db, roots, commits>>

-----------------------------------------------------------------------------

\* The root hashes a caller can name.
KnownHash == roots \cup ForeignHash

\* The steps of a call once it is made.
Step ==
  \/ InsertIntoEmpty \/ InsertLoad \/ InsertDescend \/ InsertHere \/ InsertFails
  \/ CollapseNode \/ FinishCommit \/ CommitFails
  \/ ReadDescend \/ ReadHere \/ ReadEmpty \/ ReadNoRoot \/ ReadFails
  \/ Resume

Next ==
  \/ \E k \in Key, v \in Value : Insert(k, v)
  \/ InsertUnserializable
  \/ \E k \in Key : GetValue(k)
  \/ Commit
  \/ \E h \in KnownHash : Revert(h)
  \/ \E h \in KnownHash, k \in Key : GetProof(h, k)
  \/ VerifyProof
  \/ Step
  \/ Restart

Spec == Init /\ [][Next]_vars

\* A call, once made, runs in its thread until it returns.
FairSpec == Spec /\ WF_vars(Step)
=============================================================================
