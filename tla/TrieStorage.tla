----------------------------- MODULE TrieStorage -----------------------------
(***************************************************************************)
(* RocksdbTrie on a machine that may lose power.  RocksdbDatabase puts a   *)
(* node with the default write options, which write the log of RocksDB but *)
(* do not sync it: what the process has written survives the process, but  *)
(* of what it wrote last a machine that stops may keep only a prefix.      *)
(*                                                                         *)
(* The calls are those of Trie; `log' is what RocksDB knows of their order. *)
(***************************************************************************)
EXTENDS TrieProperties

VARIABLE log  \* the digests in db, in the order of their (first) put

storageVars == <<vars, log>>

StorageInit == Init /\ log = <<>>

\* Faulty variant: the nodes of a commit reach the log from the root down.
Logged_LastFirst ==
  \/ DOMAIN db' = DOMAIN db /\ UNCHANGED log
  \/ \E h \in DOMAIN db' \ DOMAIN db : log' = <<h>> \o log

\* A put appends to the log.
Logged ==
  \/ DOMAIN db' = DOMAIN db /\ UNCHANGED log
  \/ \E h \in DOMAIN db' \ DOMAIN db : log' = Append(log, h)

\* Power is lost, at any point: RocksDB recovers a prefix of its log, and a
\* new process opens the database.
PowerLoss ==
  /\ Faults
  /\ \E n \in 0 .. Len(log) :
       /\ log' = SubSeq(log, 1, n)
       /\ db' = [h \in {log[i] : i \in 1 .. n} |-> db[h]]
  /\ root' = Empty
  /\ mem' = NoNodes
  /\ dirty' = FALSE
  /\ call' = Idle
  /\ UNCHANGED <<roots, commits>>

StorageNext == (Next /\ Logged) \/ PowerLoss

StorageSpec == StorageInit /\ [][StorageNext]_storageVars

-----------------------------------------------------------------------------

Readable(map) == \A k \in Key : map[k] # Unreadable

\* A version whose root a caller has is there as a whole or not at all: the
\* loss of the latest writes, which may cut through a commit, takes away a
\* version with its root or leaves it as it was, and a version that is
\* committed again after it was lost is complete.
VersionsWholeOrGone ==
  [][\A h \in roots :
       LET before == VersionMap(h)
           after  == VersionMap(h)'
       IN  \/ h \notin DOMAIN db'
           \/ h \in DOMAIN db /\ after = before
           \/ h \notin DOMAIN db /\ Readable(after)]_storageVars

\* RocksdbDatabase::exists asks RocksDB, without reading, whether the key may
\* exist: the answer is yes if it does, and may be yes for a key between two
\* others.
exists(h) == CASE h \in DOMAIN db              -> {TRUE}
               [] Cardinality(DOMAIN db) >= 2 -> BOOLEAN
               [] OTHER                       -> {FALSE}

\* "Check whether the given key exists in the database": so that a caller can
\* tell a root that was lost from one that it can revert to.
ExistsIsExact == \A h \in KnownHash : exists(h) = {h \in DOMAIN db}
=============================================================================
