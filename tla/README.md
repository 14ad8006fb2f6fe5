# TLA+ model of tinympt

tinympt is a persistent Merkle Patricia trie in Rust, with two kinds of storage
(memory, RocksDB), Merkle proofs, and two example programs that serve proofs
over TCP and over libp2p. This directory holds TLA+ specifications of the trie,
of the TCP server with its clients and of the libp2p nodes as the code
implements them, TLC configurations that check them on small instances, and
proofs for all instances, checked by TLAPS, of the invariants of the trie, its
storage, the server and the nodes, and of what the latter two implement. Source
paths below are relative to the crate (`src/trie/mod.rs` is what `PROJECT.json`
calls `src/src/trie/mod.rs`).

## 1. The system

| component | state | operations | correct when |
|---|---|---|---|
| nibble arithmetic (`src/trie/util.rs`) | none | `convert_bytes_to_nibbles`, `parse_nibble_slices_shared_portion`, `hash` | the split of two paths gives them back, and what is left differs in its first nibble |
| nodes and links (`src/trie/node/`) | a tree of `TrieNode`s; a `TrieNodeLink` owns its node (`Box`), names it by hash, or is empty | `insert`, `get_value`, `get_proof`, `collapse` | every split leaves a tree, an extension leads to a branch, lookups find what insertions left |
| `Trie` trait (`src/trie/mod.rs`) | `root_node`, `db`, `dirty` | `insert`, `get_value`, `commit`, `revert`, `get_proof` | it is a map with versions; a version never changes; equal maps have equal roots |
| `verify_proof` (`src/trie/mod.rs`) | the `proof_db` of a proof | one lookup | the nodes `get_proof` copied suffice, and give the version's value |
| `MemoryTrie`, `RocksdbTrie` | instances of the trait | constructors, accessors | as the trait |
| databases (`src/database/`) | a map from digest to encoded node | `get`, `insert`, `exists` | a stored node's links are stored, whatever fails |
| proof messages (`src/network/`) | none | conversions that may fail | a message that converts is what was sent |
| TCP server (`examples/tcp_server.rs`) | connections, a request queue, one task that owns the trie, a one-shot channel per request | accept, `process_stream`, `process_proof_request` | answers reach the connection that asked; a request that cannot be answered ends no more than its connection |
| TCP client (`examples/tcp_client.rs`) | one request | send, receive, verify | it reports the value the version has |
| libp2p node (`examples/libp2p_node/`) | `peer_ids`, pending requests, the same queue and task | one event loop | every peer is asked once, every request answered, nobody waits in a circle |

The trie calls the database, the databases call nothing. A trie has one owner
and a call holds it for its whole duration (`&mut self`, or `&self` while
nothing else runs), so calls on one trie never overlap. The servers move the
trie into one task that takes requests from an unbounded queue and answers each
through its own one-shot channel; connections (TCP) or the event loop (libp2p)
wait for that channel.

What is hard here:

- *A call is many database accesses, and each can fail.* `insert` and `commit`
  take the root out of the trie first and put it back last. If anything between
  fails, the trie is empty, `dirty` has its old value, and part of a commit is
  on disk. A process may stop at any of these points and another may open the
  same database. Writes are not synced, so a machine that loses power may also
  forget the latest of them, across commits that have returned.
- *A tree is part boxed, part stored.* Insertions load nodes that older
  versions share, change them in memory, and commit them again under new
  hashes; where the border runs depends on every earlier call.
- *Splits.* A leaf or an extension that meets a key which leaves its path is
  cut in up to four nodes, with several boundary cases (nothing shared, nothing
  left, one nibble left).
- *The order of writes.* `collapse` is two mutually recursive functions; the
  database is consistent after a failure only because children are written
  before parents.
- *The flag.* `get_proof` reads the database alone and relies on `dirty`, kept
  by four other calls and their failures, to know that it is complete.
- *The servers' queue*: dropped one-shot senders, waits of one task for
  another, connections that close in between.
- *The node's event loop*: nodes are client and server of each other, and a loop
  that waits for its proof task polls nothing else; two nodes may dial each
  other at once and have several connections; connections, peers and processes
  come and go between a request and its answer.

`PROJECT.json` lists these as hazards, each at its line with the properties
that watch it.

## 2. The modules

| module | what it is | source |
|---|---|---|
| `Nibbles` | nibbles, paths, their prefixes and shared portions | `trie/util.rs` |
| `TrieNode` | links and nodes; what one node does with a key | `trie/node/*.rs` |
| `Trie` | the trait over a database: one action per level of a recursive call, per write of `collapse`, per failure | `trie/mod.rs`, `trie/node/mod.rs`, `memory_trie.rs`, `rocksdb_trie.rs`, `database/` |
| `VersionedMap` | what a trie promises: a map, and versions of it | the doc comments of the trait, its tests and its failing paths |
| `TrieProperties` | the contents of a tree, defined by the paths its links spell; invariants, action properties, liveness, the refinement | |
| `MCTrie` | the sets of keys the runs use | |
| `TrieStorage`, `MCStorage` | the trie over a database that may lose its latest writes, and the database's `exists` | `database/rocksdb.rs` |
| `ProofServer` | the TCP server: a task per connection, the queue, one-shot channels, the task that owns the trie; clients, which verify the proofs | `examples/tcp_server.rs`, `examples/tcp_client.rs`, `network/pb/mod.rs` |
| `ProofService` | what a proof server promises each client | the server's comments, the client |
| `ServerProperties`, `MCServer` | its invariants, liveness and the refinement; the symmetry of connections | |
| `ProofNode` | the libp2p nodes: the event loop in both its roles, the proof task, connections, processes | `examples/libp2p_node/main.rs`, `network.rs` |
| `PeerExchange` | what nodes promise each other | the node's comments |
| `NodeProperties` | their invariants, liveness and the refinement | |
| `TreeProofs`, `TrieProofs`; over these `ContentsProofs`, `ShapeProofs`; over both `PromiseProofs` | theorems about the trie | |
| `StorageProofs` | theorems about the trie over a database that loses power | |
| `ServerProofs`, `NodeProofs` | theorems about the TCP server and the libp2p nodes | |

### State

`Trie` has the trait's three fields (`root`, `db`, `dirty`), the memory boxed
nodes live in (`mem`), the call in progress (`call`), and two history
variables: `roots`, the hashes `commit` has returned, which is what a caller
can give to `revert` and `get_proof`, and `commits`, which only bounds the
state space.

The boxed nodes of a trie are owned by one root, so they form a tree. `mem` is
a function from the *path* of nibbles that leads to a node to the node; a boxed
link says `Boxed` and its node is found under the path of the link. This keeps
nodes flat, which makes the splits readable (`SplitNode`, `SplitLastNibble`,
`SplitLonger`: a few stores and one `Move` of a subtree), makes recursion a
sequence of steps along a path, and makes ownership something that can go
wrong: that `mem` is exactly the tree under the root is the invariant
`TreeOwned`, not a matter of types. A digest is an injective function of the
node, children's digests included: `Hash(n) == [blake2 |-> n]`.

### Actions

`Insert`, `GetValue`, `Commit`, `Revert`, `GetProof` and `VerifyProof` begin a
call; `revert` is a single step. The others are the steps of a call:

- `insert` recurses in tail position; on the way back each level only puts the
  node it got into the slot it came from, so the path *is* the stack.
  `InsertDescend` goes one level down, `InsertLoad` replaces a hash by the node
  read from the database, `InsertIntoEmpty` and `InsertHere` end it. One
  `InsertFails` covers the `?` of `db.get` and of the missing node,
  `InsertUnserializable` that of the serialization, which comes after the root
  was taken too: it is gone, and with it every boxed node. It is enabled under
  `Faults` only, so the runs without faults take every value to serialize.
- `collapse` is `CollapseNode`, one write per step: the boxed node whose
  children are all collapsed and which comes first in the order of the
  children. `CommitFails` is the `?` of a write.
- `get_proof` first commits if the trie is dirty (the `then` of the commit's
  state), then reads like `get_value` but from the database only, and copies
  every node it reads. `verify_proof` is the same lookup in the copy.
- `Restart` stops the process at any point; only the database survives.

`MemoryTrie` is `Trie` with `Faults = FALSE`, `RocksdbTrie` with `TRUE`. Errors
are one value, `Err`: no caller distinguishes them. Encoding is taken to be
lossless (a stored node decodes to itself), so `bincode::deserialize` fails for
no node that was stored.

### The promise

`VersionedMap` has two variables, the current map and the versions by hash.
`Put` changes one key, `Publish` names the current map, `Revert` goes back. It
also states what the code really does around failures, because a caller has to
know it: a failing call *loses the current map* (the root is not put back), and
`revert` accepts a hash that names nothing, after which no key can be read. The
refinement mapping is `CurrentMap` and `VersionMap`, the contents as
`TrieProperties` computes them; every other step of `Trie` is a stutter.

### The server

`ProofServer` has one state per connection's `process_stream` (`reading` or
`waiting`: at its two `await`s), the frames on their way in both directions,
the one-shot channel it waits for, the queue, and the request the proof task
has in hand. A one-shot channel is named by its connection, since a connection
opens the next only after it has used the last: that no connection ever has
two is checked (`OneRequestEach`). `WorkerSkips` is the three `continue`s of
`process_proof_request`, each of which drops the sender; `ServerStops` is an
error of `accept`, which ends `main` and with it every task. Clients may send
several requests without waiting, send messages that do not decode or do not
convert, and leave at any moment. `Respond` writes its response without asking
whether the client is still there, as the code does: a client that is gone takes
no more responses (`ClientReceive`), and from some write on the write fails
(`RespondFails`). A socket closed with frames unread may lose what was written
last. Not modelled: a peer that vanishes without closing (no
timeout in the server would notice) and one that never reads.

A client takes the next response for that to its next request and verifies the
proof in it against that request (`Learnt`): it learns the value, or that there
is none (`exists` is false, and the code then verifies nothing), or has a proof
of something else in hand. That the proof of a request verifies for this request
is `ProofSufficient` of the trie.

`ProofService` knows connections only: ask, answer (the truth about the next
request), close (when the client left or asked something with no answer).

### The storage

`TrieStorage` adds to `Trie` the order of the writes (`log`) and `PowerLoss`,
after which the database holds a prefix of them: `RocksdbDatabase::insert` is a
`put` with default options, which appends to RocksDB's log and does not sync it.
A restart of the process alone (`Restart`) loses nothing that was written. What
remains true is that every prefix is closed under links, since a node is put
after its children; what does not is that a root `commit` has returned can be
read. `exists` has no step, since nothing in the repository calls it: it is the
set of answers RocksDB may give.

### The nodes

`ProofNode` has per node what the loop of `main` keeps (`peer_ids`, the request
it waits for), what its swarm keeps for it (`seen`: the connections it has
reported; `ask`: the request sent over each connection; `inbox`: the requests of
peers it will report), and the process (`up`). Every event of `swarm` is one
action, up to the `await` for the proof task: while `wait[n]` holds a request,
node n handles no event. The queue to the proof task has no variable: the loop
is its only sender and waits for each answer, so it never holds more than the
one request that `wait` names.

libp2p is not in the repository, and modelled as the loop uses it.
`ConnectionEstablished` comes before anything else of a connection; a request
goes over a connection to the peer, which at that moment can only be the one
just reported, the first of this peer in this process; each request ends in one
response event or one `OutboundFailure` (no connection, timeout, unreadable
frame), which the loop ignores as it ignores `ConnectionClosed`. A connection on
which nothing happens is closed (keep-alive). With `NetFaults`, connections
break, requests time out and processes are killed, each at any moment and
between any two events; requests that were already read may or may not reach the
loop. A response that comes after its request has timed out is dropped. Nodes are
honest, so every request converts and every proof verifies (lines 190 and 194
return no error); the proof task skips a request only if the database fails.

`PeerExchange` says what a node knows of the proof it wants from each peer:
wanted, asked, known, lost. Nothing leads from known or lost back, as long as
the process lives.

In the modules, an operator commented as a *faulty variant* is the operator
after it with a plausible mistake. It is used by no action; `PROJECT.json` pairs
each property with the variant that breaks it.

## 3. The runs

Nibbles have one bit (`Radix = 2`, a byte is two of them): a branch has two
children, and every split, including those at the last nibble, occurs with keys
of two to four nibbles. The arithmetic is the same for every radix, and the
proofs are for every radix.

| run | keys (as nibbles) | also | checks |
|---|---|---|---|
| `trie_memory` | 00, 0011, 01 | no faults, 2 commits | the type invariant, the closed database, ownership, shapes, the `dirty` flag, `get_value`, `get_proof` with `verify_proof` |
| `trie_rocksdb` | 00, 0011 | 2 values, errors and restarts at every step, 2 commits | the closed database, links, lookups and proofs again, versions never change, equal versions have equal roots also across restarts, the trie implements `VersionedMap` |
| `trie_power_loss` | 00, 0011 | the same without a foreign hash, and the loss of any number of the latest writes at every step | the closed database, lookups and proofs again, and that a version is there as a whole or not at all |
| `trie_promise` | 0000, 0001, 0100, 1000 | no faults, no foreign hash, 2 commits | the trie implements `VersionedMap`; equal maps have equal root hashes |
| `trie_calls_return` | 00, 0011, 01 | errors and restarts, 1 commit, fairness | every call returns |
| `tcp_server` | | 2 connections, a request whose version has the key and one whose version has not, one that does not convert, one frame that does not decode, 2 frames per client | types, `OneRequestEach`; the server implements `ProofService` |
| `tcp_settled` | | the same with one good request, errors of the trie and of `accept`, fairness | every request is answered or its connection closed; abandoned connections end |
| `p2p_faults` | | 2 nodes, 2 connections, 2 processes per node, database and network faults, fairness | types, one request per peer and process, every request in one place; every request ends, no loop waits for ever; the nodes implement `PeerExchange` |
| `p2p_answers` | | 3 nodes, 2 connections, no faults, fairness | connected nodes get each other's proofs |
| `p2p_node_ends` | | 2 nodes, 1 connection, database faults | *violation*: a request the proof task skips ends the node (section 5) |
| `exists_may_err` | 00, 0011 | 1 commit, loss of the latest writes | *violation*: `exists` may say yes for a lost root (section 5) |
| `insert_loses_prefix` | 00, 0011, 01 | no faults | *violation*: an inserted value cannot be read back (section 5) |

Why these bounds are enough to be interesting:

- *Keys.* A trie of three keys has every kind of node, and nests them: 00 and
  0011 put a value on a branch and a leaf below it; 01 then splits the
  extension above that branch, which is the arm that loses a prefix; 0000, 0001,
  0100 and 1000 split leaves and extensions with one nibble left and with more,
  but never one below a shared prefix. Between them the runs fire every action
  and every disjunct.
- *Commits.* Two commits give two versions, with insertions between them into
  nodes loaded from the first. `MaxCommits` bounds only how often `collapse`
  starts; insertions, lookups, reverts and failures are unbounded.
- *Values.* One value suffices where only the structure matters; two are used
  where a version could change under the same keys, or a digest could confuse
  two contents.
- *Foreign hashes.* One hash that names no node stands for everything a caller
  may pass by mistake.

*Fairness.* `FairSpec` is weak fairness of `Step`, the steps of a call once it
is made: a call runs in its thread and nothing it waits for is outside it. No
call is ever forced to be made. `CallsReturn` then says the recursion ends:
through nodes read from a database, each level uses up part of the key or of
the tree.

For the server, `FairSpec` is weak fairness of each connection's task, of the
proof task (the runtime polls every task that can go on, and the queue is first
in, first out) and of the delivery of what was written. Clients owe nothing:
they need not send and may leave. Two connections with two frames each are the
least that lets one client's second request stand in the queue behind another's
first; connections are interchangeable, and the safety run uses that symmetry.
Neither the server runs nor the node runs check for deadlock: once the bounded
clients have sent all they may and left, or the bounded connections and
processes of the nodes are used up, the model stops, where the server waits in
`accept` and a node in `select!`. That nobody waits for ever in between is what
the liveness properties say.

For the nodes, `FairSpec` is weak fairness of each node's event loop and of its
proof task. Nobody need dial or be started, and no fault need happen; the timeout
of a request is a fault that never has to come, so `RequestsSettle` and `LoopsPoll`
do not rest on it: a request ends because the peer's loop gets to it, or because
its connection or its peer is gone. `PeersAnswered` is the stronger promise of a
network without faults, where both ends handle a connection before its
keep-alive runs out. Two connections are the least for simultaneous dials, for a
reconnection, and for a reconnection to a peer that was restarted; in the run
without faults the third node lets a loop hold one peer's request while another
waits. Connections are numbered in the order of the dials.

`NodesWellShaped` (an extension leads to a branch, a branch has two entries) is
about where the splits put things; `RootHashCanonical` is about their result,
whatever the order of insertions and commits; `GetValueCorrect` and
`ProofSufficient` compare the code's lookups with contents that are defined by
the paths links spell, without `Descends`, `NextSlot` and `ValueAt`, which are
the code's.

## 4. The proofs

All are for every value of the constants: any radix, any set of keys (sequences
of bytes), values and foreign hashes, any bound on the commits; any connections,
requests and number of frames; any number of nodes, connections and processes;
with and without faults. They assume what the modules' `ASSUME`s say (keys are
sequences of bytes, `None` is not a value, ...) and that digests do not collide,
which is in the definition of `Hash`. Four theorems of the trie have one or two
hypotheses more, stated where they are listed.

### The trie

The inductive invariant `IndInv` is `TypeOK`, `StoreClosed`, `TreeOwned`,
`CallOnTree` and the part of `LinksResolve` that is about boxed nodes; none of
the five is inductive alone:

- that a split leaves a tree needs that the node it splits is in a tree and
  that nothing lies below a leaf: `TreeOwned` and types;
- that an insertion's next node exists needs that the call's link is the tree's
  link at the call's path: `CallOnTree`; and that a loaded node owns nothing:
  `StoreClosed`;
- that a written node's links are stored needs that hashes in boxed nodes are
  (`LinksResolve`), and that a node with no boxed child owns no boxed node
  (`TreeOwned`).

The rest of `LinksResolve`, `RootsInv`, says that roots a caller holds are
stored. It is invariant over `IndInv`, but a loss of power breaks it, so it is
kept apart: everything proved from `IndInv` alone is proved for the storage too.

`TreeProofs` begins with prefixes, and that `parse_nibble_slices_shared_portion`
cuts both paths at the same place (`SharedPortion`); it then says what storing a
node, relinking, moving a subtree and grafting do to a tree, over one notion,
`Owned(m, D)`, a tree of boxed nodes whose hashes are in D. At its end each arm
of `TrieNode::insert` turns a tree into a tree (`InsertAtOwned`), the faulty one
included, since what it loses is the place of the tree and not its shape.
`TrieProofs`: one lemma per action, then

| theorem | says |
|---|---|
| `TypesHold` | `[]TypeOK`: in particular no empty partial key, no nibble out of range |
| `StoreAlwaysClosed` | `[]StoreClosed`: no failure and no restart leaves a stored node with a link that leads nowhere |
| `LinksAlwaysResolve` | `[]LinksResolve` |
| `TreeAlwaysOwned` | `[]TreeOwned`: no split, load, write or failure loses a node or makes one reachable twice |
| `CallAlwaysOnTree` | `[]CallOnTree` |
| `CleanAlwaysStored` | `[]CleanIsStored`: what `get_proof` takes for granted when it skips the commit |
| `StoreAppendOnly` | no step changes or removes a stored node |

### Contents and answers (`ContentsProofs`)

`Contents` walks a key nibble by nibble; the code walks node by node. The bridge
is `ContentsRecursion`: what a link holds for a key is what its node says, or
what the link of the slot holds that the key takes. The prover has no induction
over data, but two facts replace it: `Climb`, that a set which holds 0 and is
closed under successor up to a bound holds all numbers up to it (from the least
element of its complement), and from that `Downwards`, the same from the end of
a key upwards over the *places* of the key, pairs of a path and a link. With it,

| theorem | says |
|---|---|
| `ValuesCorrect` | `[]GetValueCorrect` |
| `ProofsSufficient` | `[]ProofSufficient`: the nodes `get_proof` copied are enough for `verify_proof` |
| `VersionsNeverChange` | `VersionsStable` |

`AnswerInv` is what a lookup in progress keeps: the answer from where it stands
is the answer from the root, and the nodes copied so far lead there; a failed
lookup has been failed by the database or met a link that leads nowhere.
`VersionsNeverChange` assumes `NoNodeIsForeign`, that no hash a caller makes up
is the digest of a node: without it a later commit may store a node under just
that hash, and a version that could not be read before can be read after. It
says of the model's set `ForeignHash` what its name says, and the runs satisfy
it.

### Shapes (`ShapeProofs`)

`NodesAlwaysWellShaped` is `[]NodesWellShaped`, from `ShapeInv` over `IndInv`.
That an extension leads to a branch is a statement about two nodes, and every
store of one must not disturb the other: each link belongs to one node
(`OneLink`), so a split that changes the kind of a node at a path disturbs only
the node above, and at that path the split leaves a branch or an extension
exactly where the invariant needs one. The arms of an extension are the delicate
ones: the old branch stays below what is left of the extension, or moves up by
one nibble with everything below it (`ShiftedFine`). That the two entries of a
new branch are two is that of `SharedPortion`: what is left of the two paths
differs in its first nibble.

### The promise (`PromiseProofs`)

The trie does not implement `VersionedMap` for all keys, because of the finding
of section 5. The theorems here are about the behaviours in which no insertion
takes the arm that loses a prefix: their hypothesis `[][~LosesPrefix]_vars`
excludes one step, that arm below a shared prefix that is not empty, and nothing
else. `NoNodeIsForeign` is the hypothesis of `VersionsNeverChange`; without it a
`revert` to a made-up hash could reach a map nobody published.

| theorem | says |
|---|---|
| `TrieImplementsVersionedMap` | `ImplementsVersionedMap`, if no step is `LosesPrefix` and `NoNodeIsForeign` |
| `WritesRead` | `ReadYourWrites`, if no step is `LosesPrefix`: what `insert_loses_prefix` refutes without that hypothesis |
| `NodesCanonical` | in the database two nodes that hold the same for every path are one node, without any hypothesis |
| `RootsCanonical` | `[]RootHashCanonical`, if no step is `LosesPrefix` and `NoNodeIsForeign` |

The end of `ContentsProofs` says what a link holds below its path, for every
path and not only those of keys. `UnderLeaf`, `UnderExtension` and `UnderBranch`
give it for one node; `SameWay` says that two trees hold the same for a key if
their nodes agree on the way of the key, and `ReachesLink` that what the root
holds for a key through a place is what the place holds. So a step has to be
looked at where it changes a node, and nowhere else:

- *Insertion.* `Inserted` says that the place gets the value for the rest of the
  key and keeps what it had for every other path. A split is done in two halves:
  `Split`, that the branch (with the extension for the shared prefix above it)
  holds what the place held, and `SplitEnds`, that the branch then takes the key.
  The arm that leaves one nibble of a partial key has no place for the prefix,
  and its lemma, `SplitLastNibbleHolds`, needs that the prefix is empty: the
  proof fails exactly where the code does.
- *Loads and writes of `collapse`.* A node holds the same whether it is boxed or
  stored (`SameThere`), so `LoadHolds` and `CollapseHolds` leave every path what
  it had.
- `KeyInv` is the invariant these need over `IndInv`: an insertion works for the
  path of a key and stands on that path. Since keys are sequences of whole
  bytes, different keys have different paths (`KeysApart`), and an insertion is
  a `Put` of one key.

Then `MapSteps` takes the actions one by one: a step leaves every path what it
had, or ends an insertion and puts one key, or is a `Revert`, or loses the tree,
which without faults only happens to one that could not be read
(`LostOnlyUnreadable`). `StepImplements` reads off the steps of the map; the end
of a commit, the only step that adds a version (`OnlyCommitAdds`), is `Publish`
(`CommittedMap`: the root it returns names the current map).

That a map has one root hash is an induction over two trees at once, and again
no induction over data is needed: `collapse` stores a node after its children, so
`CanonicalStore`, that the stored nodes all hold something and no two of them hold
the same for every path, is an invariant like any other, and only the node being
written has to be compared with those that are there. What a node holds tells its
kind: a branch has two entries (`ShapeInv`), so it holds paths that part at their
first nibble (`Diverges`); a leaf holds one path, and an extension only paths that
begin with its partial key, so neither does. It tells its parts too: the partial
key of an extension is as long as it can be, because the branch below it diverges
(`PartialKeyPrefix`), and a child is told by what it holds, because the children
are stored already. A node held the same way has the same parts, hence the same
digest (`SameNodes`).

`RootHashCanonical` compares what roots hold for keys, not for every path. For
that `OnlyKeys` is invariant: nothing is held under a path that is of no key. It
needs that every insertion is a put of its key, and so that no prefix is lost; a
lost prefix leaves values under paths that no key spells, and two roots may then
differ in those alone.

### Storage (`StorageProofs`)

`StorageInv` is `IndInv`, `AnswerInv` and `LogInv`: the log names the stored
nodes, and each comes after those it names. Hence every prefix of the log is
closed under links (`PrefixClosed`), whatever a loss of power cuts off.

| theorem | says, of the trie with losses of power |
|---|---|
| `StoreClosedForEver` | `[]StoreClosed` |
| `ValuesCorrectForEver`, `ProofsSufficientForEver` | lookups and proofs never give a wrong value |
| `VersionsLostWhole` | `VersionsWholeOrGone`: of the databases before and after a step, one extends the other and both are closed, so a version whose root is in both is the same in both |

### The TCP server (`ServerProofs`)

`ServerInv` is `TypeOK` and, for each connection, `Fresh` (nothing is on it
before it is accepted), `OneEach`, which is `OneRequestEach` without counting,
and `InOrder`: the answers a client has
learnt, those on their way to it, the request being served and the frames not
yet read are together what the client has sent, in this order. `OneEach` says
that the served request is in one place only; without it a second copy could be
answered into the turn of the next request. `InOrder` is what the refinement
needs and `OneEach` does not give: that the answer being written is the answer
to the client's *next* request.

| theorem | says |
|---|---|
| `ServerTypesHold` | `[]TypeOK`: in particular a message that does not convert into a request is never answered |
| `EachWaitsForOne` | `[]OneRequestEach` |
| `ServerImplementsService` | the safety part of `ProofService`, step by step |

In the refinement a client's sends are the service's asks, `ClientReceive` its
answers, `Leave` its leaving. A connection that ends (`HangUp`) is the service's
`Close` if the client has left or its next frame has no answer (it does not
decode or does not convert), and `InOrder` shows that this frame is one its own
client sent; otherwise something failed, and it is `Fail`, as `ServerStops` is
for all connections at once. Accepting, reading a request, the queue, the proof
task and writing a response are stutters.

### The libp2p nodes (`NodeProofs`)

`NodeInv` is `TypeOK`, `OncePerPeer`, `RequestInOnePlace` and `NothingLost`.
`OncePerPeer` needs of the types that a node that is down keeps no tables, so
that a new process starts with an empty `peer_ids`. `RequestInOnePlace` needs
`OncePerPeer` where a request is sent: the place it takes was free. `NothingLost`
says what faults are needed for: without database faults the proof task drops no
request, and if the network has none either, a connection is closed only when
nothing happens on it. The exchange's `Lose` and `Stop` rest on it.

| theorem | says |
|---|---|
| `NodeTypesHold` | `[]TypeOK` |
| `OneRequestPerPeer` | `[]OncePerPeer` |
| `RequestsKeepTheirPlace` | `[]RequestInOnePlace` |
| `NodesImplementExchange` | `PeerExchange`, step by step |

What a node knows of a peer is read off its pending requests, over all
connections; that at most one of them decides (`OneDecides`) is why one event
moves one peer's entry and no other. Sending a request, handling its response and its
failure or timeout are `Ask`, `Answer` and `Lose`; the start and the end of a
process are `Start` and `Stop`; dials, closed connections, the proof task and
the handling of a peer's request are stutters.

### Only model-checked

Liveness is outside the prover's reach: `CallsReturn`, `RequestsSettled`,
`ConnectionsFreed`, `RequestsSettle`, `LoopsPoll`, `PeersAnswered`. Every safety
property of the passing runs is a theorem, `RootHashCanonical` and
`ImplementsVersionedMap` with the hypotheses above.

## 5. What the model shows about the code

- **Insertion loses a prefix** (`src/trie/node/extension.rs:42-51`, run
  `insert_loses_prefix`). When a key leaves an extension's partial key so that
  exactly one nibble of it remains, `Extension::insert` returns the new branch
  itself. If the two paths share a prefix, that prefix is dropped: the other
  arm (lines 53-80) puts the branch under an extension for it. Every key below
  then sits too high in the tree by that prefix, and neither they nor the
  inserted key are found. The
  trace inserts 00, 0011 and 01: the second hangs a branch below the extension
  00, and the third shares the prefix 0 with it and leaves one nibble. The tests
  of `src/trie/mod.rs` insert two keys and never split an extension.
  `trie_promise` and `trie_rocksdb` use keys that do not reach this case,
  so that the promise of the rest of the code is checked and not masked;
  `trie_memory` includes it, and all its invariants hold in spite of it.
- A failing `insert` or `commit`, also the commit inside `get_proof`, leaves an
  empty trie and an unchanged `dirty`. Nothing stored is damaged
  (`StoreAlwaysClosed`, `VersionsStable`), but the uncommitted map is gone and
  the next call sees an empty trie without an error. `VersionedMap!Lose`.
- `revert` never fails. A hash that names nothing makes later lookups and
  insertions fail, and `commit` then returns that hash as a root.
- `Extension::collapse` and `Branch::collapse` (`extension.rs:87`,
  `branch.rs:54`) are not called: `TrieNode::collapse` does their work.

- **A skipped request ends a libp2p node**
  (`examples/libp2p_node/main.rs:175`, run `p2p_node_ends`). The proof task keeps
  its loop alive when `get_proof` fails, so that the node goes on serving (comment
  at lines 211-213). But it drops the sender of the request it skips, and the
  event loop, which waits for that one-shot channel with `?`, returns from
  `main`: one failed read of the database ends the node, as client and as
  server, with all its connections. In the TCP server the same `?` ends the
  task of one connection only.
- **`exists` may be wrong with RocksDB** (`src/database/rocksdb.rs:30`, run
  `exists_may_err`). The trait's doc (`src/database/mod.rs:19`) says it checks
  whether a key is in the database; `key_may_exist` may say yes for a key that
  is not. The trace commits a version, loses the write of its root with the power,
  and gets a yes for that root. `MemoryDatabase` is exact. Nothing in the
  repository calls it.
- A committed version survives the process but not a loss of power, since writes
  are not synced. A lost version is lost whole (`VersionsWholeOrGone`):
  `get_value` fails on its root and `get_proof` finds nothing, but neither ever
  gives a wrong value.
- A libp2p node never asks a peer again in the life of its process
  (`PeerExchange`), also if the request was lost with its connection or the peer
  was restarted: `peer_ids` only grows.

## 6. Not modelled, and the plan

Not modelled: the byte layout of encoded nodes and messages (a message is what
it says; a frame that does not decode is a value of its own), logging, command
lines, `build.rs` and the code it generates, RocksDB, libp2p and tokio
themselves (external, as the code uses them), the digest (injective). Peers that
vanish without closing a TCP connection are left out for the TCP server; for a
libp2p node they are requests that time out. Nodes that do not follow the
protocol are left out. The kinds of `TrieError` are one value.

Written in this order: `Nibbles`, `TrieNode`, `Trie`, `VersionedMap`,
`TrieProperties` and the proofs of the trie's invariants, `ProofServer` with
`ProofService`, `ProofNode` with `PeerExchange`, `TrieStorage`, and the proofs of
contents, shapes, storage, server and nodes, that the trie implements
`VersionedMap`, and that a map has one root hash. What is left is an abstract
specification of the database under losses of power, of which
`VersionsWholeOrGone` states one step.
