---------------------------- MODULE StorageProofs ----------------------------
(***************************************************************************)
(* What a loss of power leaves: a database that is closed under links, in  *)
(* which every version is there as a whole or not at all, and lookups and  *)
(* proofs that never give a wrong value.                                   *)
(***************************************************************************)
EXTENDS TrieStorage, ContentsProofs

\* The nodes are in the order of their writes, and a node comes after those it
\* names: the reason why every prefix of the log is closed.
LogInv ==
  /\ log \in Seq(DOMAIN db)
  /\ \A h \in DOMAIN db : \E i \in 1 .. Len(log) : log[i] = h
  /\ \A i \in 1 .. Len(log) : \A link \in Links(db[log[i]]) :
       IsHash(link) => \E j \in 1 .. i - 1 : log[j] = link.hash

\* The inductive invariant of the stored trie.  RootsInv is not part of it: a
\* root that commit has returned may be lost.
StorageInv == IndInv /\ AnswerInv /\ LogInv

-----------------------------------------------------------------------------
(* The log.                                                                *)

\* A node in the log names nodes before it.
LEMMA NamedBefore ==
  ASSUME LogInv, NEW i \in 1 .. Len(log), NEW link \in Links(db[log[i]]), IsHash(link)
  PROVE  \E j \in 1 .. i - 1 : log[j] = link.hash
BY DEF LogInv

\* A node that is written names nodes that were in the log before.
LEMMA LogGrows ==
  ASSUME IndInv, LogInv, CollapseNode, Logged
  PROVE  LogInv'
<1>1. PICK p \in DOMAIN mem : /\ db' = With(db, Hash(mem[p]), mem[p])
                              /\ \A l \in Links(mem[p]) : l # Boxed
  BY DEF CollapseNode, Collapsible, Written
<1> DEFINE n == mem[p]
           h == Hash(n)
<1>2. DOMAIN db' = DOMAIN db \cup {h} /\ db'[h] = n /\ \A g \in DOMAIN db \ {h} : db'[g] = db[g]
  BY <1>1 DEF With
<1>3. \A l \in Links(n) : IsHash(l) => l.hash \in DOMAIN db
  BY <1>1 DEF IndInv, TreeInv, Owned
<1>4. StoreOnlyGrows
  BY StoreKept DEF Next, Step
<1> HIDE DEF n, h
<1>5. CASE DOMAIN db' = DOMAIN db /\ UNCHANGED log
  <2>1. \A g \in DOMAIN db : db'[g] = db[g]
    BY <1>4 DEF StoreOnlyGrows
  <2>2. \A i \in 1 .. Len(log) : log[i] \in DOMAIN db
    BY ElementOfSeq DEF LogInv
  <2>3. log' \in Seq(DOMAIN db') /\ \A g \in DOMAIN db' : \E i \in 1 .. Len(log') : log'[i] = g
    BY <1>5 DEF LogInv
  <2>4. ASSUME NEW i \in 1 .. Len(log'), NEW link \in Links(db'[log'[i]]), IsHash(link)
        PROVE  \E j \in 1 .. i - 1 : log'[j] = link.hash
    <3>1. i \in 1 .. Len(log) /\ link \in Links(db[log[i]])
      BY <1>5, <2>1, <2>2, <2>4
    <3> QED BY <1>5, <2>4, <3>1, NamedBefore
  <2> QED BY <2>3, <2>4 DEF LogInv
<1>6. CASE h \notin DOMAIN db /\ log' = Append(log, h)
  <2>1. Len(log) \in Nat /\ \A i \in 1 .. Len(log) : log[i] \in DOMAIN db
    BY ElementOfSeq, LenProperties DEF LogInv
  <2>2. log \in Seq(DOMAIN db') /\ h \in DOMAIN db'
    BY <1>2, <2>1, SeqMonotonic DEF LogInv
  <2>3. /\ log' \in Seq(DOMAIN db') /\ Len(log') = Len(log) + 1
        /\ log'[Len(log) + 1] = h /\ \A i \in 1 .. Len(log) : log'[i] = log[i]
    BY <1>6, <2>2, AppendProperties
  <2>4. ASSUME NEW g \in DOMAIN db' PROVE \E i \in 1 .. Len(log') : log'[i] = g
    <3>1. CASE g = h
      BY <2>1, <2>3, <3>1
    <3>2. CASE g \in DOMAIN db
      <4>1. PICK i \in 1 .. Len(log) : log[i] = g
        BY <3>2 DEF LogInv
      <4> QED BY <2>1, <2>3, <4>1
    <3> QED BY <1>2, <3>1, <3>2
  <2>5. ASSUME NEW i \in 1 .. Len(log'), NEW link \in Links(db'[log'[i]]), IsHash(link)
        PROVE  \E j \in 1 .. i - 1 : log'[j] = link.hash
    <3>1. CASE i = Len(log) + 1
      <4>1. link.hash \in DOMAIN db
        BY <1>2, <1>3, <2>3, <2>5, <3>1
      <4>2. PICK j \in 1 .. Len(log) : log[j] = link.hash
        BY <4>1 DEF LogInv
      <4> QED BY <2>1, <2>3, <3>1, <4>2
    <3>2. CASE i # Len(log) + 1
      <4>1. i \in 1 .. Len(log) /\ log'[i] = log[i]
        BY <2>1, <2>3, <3>2
      <4>2. db'[log[i]] = db[log[i]]
        BY <2>1, <1>4, <4>1 DEF StoreOnlyGrows
      <4>3. PICK j \in 1 .. i - 1 : log[j] = link.hash
        BY <2>5, <4>1, <4>2, NamedBefore
      <4> QED BY <2>1, <2>3, <4>1, <4>3
    <3> QED BY <3>1, <3>2
  <2> QED BY <2>3, <2>4, <2>5 DEF LogInv
<1> QED BY <1>2, <1>5, <1>6 DEF Logged

\* Every call of the trie keeps the log in order.
LEMMA LogStep ==
  ASSUME IndInv, LogInv, [Next]_vars, Logged
  PROVE  LogInv'
<1>1. CASE UNCHANGED db
  <2>1. UNCHANGED log
    BY <1>1 DEF Logged
  <2> QED BY <1>1, <2>1 DEF LogInv
<1> QED BY <1>1, LogGrows, OnlyCollapseWrites

-----------------------------------------------------------------------------
(* The loss of power.                                                      *)

\* A prefix of the log is a database whose links all resolve, a part of the
\* one before.
LEMMA PrefixClosed ==
  ASSUME IndInv, LogInv, PowerLoss
  PROVE  /\ StoreInv' /\ LogInv'
         /\ Extends(db, db')
<1>1. PICK n \in 0 .. Len(log) : /\ log' = SubSeq(log, 1, n)
                                 /\ db' = [h \in {log[i] : i \in 1 .. n} |-> db[h]]
  BY DEF PowerLoss
<1>2. Len(log) \in Nat /\ n \in Nat /\ n <= Len(log) /\ \A i \in 1 .. Len(log) : log[i] \in DOMAIN db
  BY ElementOfSeq, LenProperties DEF LogInv
<1>3. DOMAIN db' = {log[i] : i \in 1 .. n} /\ \A i \in 1 .. n : log[i] \in DOMAIN db' /\ db'[log[i]] = db[log[i]]
  BY <1>1
<1>4. \A h \in DOMAIN db' : h \in DOMAIN db /\ db'[h] = db[h]
  BY <1>2, <1>3
<1>5. ASSUME NEW h \in DOMAIN db', NEW link \in Links(db'[h]), IsHash(link)
      PROVE  link.hash \in DOMAIN db'
  <2>1. PICK i \in 1 .. n : h = log[i]
    BY <1>3
  <2>2. PICK j \in 1 .. i - 1 : log[j] = link.hash
    <3>1. i \in 1 .. Len(log) /\ link \in Links(db[log[i]])
      BY <1>2, <1>3, <1>5, <2>1
    <3> QED BY <1>5, <3>1, NamedBefore
  <2> QED BY <1>2, <1>3, <2>2
<1>6. IsStore(db')
  <2>1. db' = [h \in DOMAIN db' |-> db'[h]]
    BY <1>1
  <2> QED BY <1>4, <2>1 DEF IndInv, StoreInv, IsStore
<1>7. StoreClosed'
  <2>1. ASSUME NEW h \in DOMAIN db', NEW link \in Links(db'[h])
        PROVE  link = Empty \/ IsHash(link)
    BY <1>4 DEF IndInv, StoreInv, StoreClosed
  <2>2. \A h \in DOMAIN db' : h = Hash(db'[h])
    BY <1>4 DEF IndInv, StoreInv, StoreClosed
  <2> QED BY <1>5, <2>1, <2>2 DEF StoreClosed
<1>8. log' \in Seq(DOMAIN db') /\ Len(log') = n /\ \A i \in 1 .. n : log'[i] = log[i]
  <2>1. \A i \in 1 .. n : log[i] \in DOMAIN db'
    BY <1>3
  <2> DEFINE s == SubSeq(log, 1, n)
  <2>2. /\ s \in Seq(DOMAIN db') /\ Len(s) = IF 1 <= n THEN n - 1 + 1 ELSE 0
        /\ \A i \in 1 .. n - 1 + 1 : s[i] = log[1 + i - 1]
    BY <1>2, <2>1, SubSeqProperties
  <2> HIDE DEF s
  <2>3. log' = s
    BY <1>1 DEF s
  <2>4. Len(s) = n
    BY <1>2, <2>2
  <2>5. \A i \in 1 .. n : i \in 1 .. n - 1 + 1 /\ 1 + i - 1 = i
    BY <1>2
  <2> QED BY <2>2, <2>3, <2>4, <2>5
<1>9. LogInv'
  <2>1. \A h \in DOMAIN db' : \E i \in 1 .. n : log'[i] = h
    BY <1>3, <1>8
  <2>2. ASSUME NEW i \in 1 .. n, NEW link \in Links(db'[log'[i]]), IsHash(link)
        PROVE  \E j \in 1 .. i - 1 : log'[j] = link.hash
    <3>1. log'[i] = log[i] /\ db'[log[i]] = db[log[i]]
      BY <1>3, <1>8
    <3>2. i \in 1 .. Len(log)
      BY <1>2
    <3>3. link \in Links(db[log[i]])
      BY <2>2, <3>1
    <3>4. PICK j \in 1 .. i - 1 : log[j] = link.hash
      BY <2>2, <3>2, <3>3, NamedBefore
    <3>5. j \in 1 .. n
      BY <1>2
    <3> QED BY <1>8, <3>4, <3>5
  <2> QED BY <1>8, <2>1, <2>2 DEF LogInv
<1>10. Extends(db, db')
  BY <1>4 DEF Extends
<1> QED BY <1>6, <1>7, <1>9, <1>10 DEF StoreInv

\* A new process on what is left is in a state the trie can be in.
LEMMA PowerLossStep ==
  ASSUME StorageInv, PowerLoss
  PROVE  StorageInv'
<1>1. /\ root' = Empty /\ mem' = NoNodes /\ dirty' = FALSE /\ call' = Idle
      /\ UNCHANGED <<roots, commits>>
  BY DEF PowerLoss
<1>2. Typed'
  BY <1>1, LinkTypes DEF StorageInv, IndInv, Typed, IsCall, Idle
<1>3. TreeInv'
  BY <1>1, EmptyStore, LinkTypes DEF TreeInv, Top, Idle
<1>4. CallOnTree' /\ AnswerInv'
  BY <1>1 DEF CallOnTree, AnswerInv, Reading, Idle
<1> QED BY <1>2, <1>3, <1>4, PrefixClosed DEF StorageInv, IndInv

\* Every step, a loss of power included, keeps the invariant.
LEMMA StorageInvInductive ==
  ASSUME StorageInv, [StorageNext]_storageVars
  PROVE  StorageInv'
<1>1. CASE Next /\ Logged
  BY <1>1, IndInvInductive, AnswerInvInductive, LogStep DEF StorageInv
<1>2. CASE PowerLoss
  BY <1>2, PowerLossStep
<1>3. CASE UNCHANGED storageVars
  <2>1. [Next]_vars /\ Logged
    BY <1>3 DEF storageVars, Logged, vars
  <2> QED BY <2>1, IndInvInductive, AnswerInvInductive, LogStep DEF StorageInv
<1> QED BY <1>1, <1>2, <1>3 DEF StorageNext

\* Every reachable state of the stored trie satisfies it.
THEOREM StorageInvHolds == StorageSpec => []StorageInv
<1>1. StorageInit => StorageInv
  <2> SUFFICES ASSUME StorageInit PROVE StorageInv
    OBVIOUS
  <2>1. IndInv
    BY InitIndInv DEF StorageInit
  <2>2. AnswerInv
    BY DEF StorageInit, Init, AnswerInv, Reading, Idle
  <2>3. LogInv
    BY EmptyStore, EmptySeq DEF StorageInit, Init, LogInv
  <2> QED BY <2>1, <2>2, <2>3 DEF StorageInv
<1>2. StorageInv /\ [StorageNext]_storageVars => StorageInv'
  BY StorageInvInductive
<1> QED BY <1>1, <1>2, PTL DEF StorageSpec

-----------------------------------------------------------------------------
(* The theorems.                                                           *)

\* However many of the latest writes a loss of power takes, in the middle of a
\* commit or over several of them, no stored node links to one that is gone.
THEOREM StoreClosedForEver == StorageSpec => []StoreClosed
<1>1. StorageInv => StoreClosed
  BY DEF StorageInv, IndInv, StoreInv
<1> QED BY <1>1, StorageInvHolds, PTL

\* get_value never gives a wrong value, also on what a loss of power has left.
THEOREM ValuesCorrectForEver == StorageSpec => []GetValueCorrect
<1>1. StorageInv => GetValueCorrect
  BY AnswerInvImplies DEF StorageInv
<1> QED BY <1>1, StorageInvHolds, PTL

\* A proof of a version, or against one that is gone, suffices.
THEOREM ProofsSufficientForEver == StorageSpec => []ProofSufficient
<1>1. StorageInv => ProofSufficient
  BY AnswerInvImplies DEF StorageInv
<1> QED BY <1>1, StorageInvHolds, PTL

\* What a stored root holds for a key in a database, if all its links resolve.
LEMMA StoredVersion ==
  ASSUME NEW d, Closed(d), NEW e, Extends(e, d), NEW h \in DOMAIN d, NEW key \in Path
  PROVE  /\ Contents(HashLink(h), NoNodes, d, key) # Unreadable
         /\ Contents(HashLink(h), NoNodes, e, key) = Contents(HashLink(h), NoNodes, d, key)
<1>1. /\ Contents(HashLink(h), NoNodes, e, key) = ContentsFrom(HashLink(h), <<>>, NoNodes, e, key)
      /\ Contents(HashLink(h), NoNodes, d, key) = ContentsFrom(HashLink(h), <<>>, NoNodes, d, key)
  BY ContentsIsFrom
<1>2. <<>> \in Path /\ StartsWith(key, <<>>)
  BY EmptyPath, EmptyPrefix
<1>3. Leads(HashLink(h), d)
  BY LinkTypes DEF Leads
<1> QED BY <1>1, <1>2, <1>3, StoredContents

\* The property, of one step.
WholeOrGone ==
  \A h \in roots :
    LET before == VersionMap(h)
        after  == VersionMap(h)'
    IN  \/ h \notin DOMAIN db'
        \/ h \in DOMAIN db /\ after = before
        \/ h \notin DOMAIN db /\ Readable(after)

\* A version whose root a caller has is never there in part: a loss of power
\* takes it as a whole or leaves it as it was, and one that is committed again
\* is complete.
THEOREM VersionsLostWhole == StorageSpec => VersionsWholeOrGone
<1>1. ASSUME NEW k \in Key PROVE convert_bytes_to_nibbles(k) \in Path
  BY <1>1, KeyAssumption, NibblesOfKey
<1>2. ASSUME StorageInv, StorageInv', [StorageNext]_storageVars
      PROVE  WholeOrGone
  <2>1. Closed(db) /\ Closed(db)'
    BY <1>2, StoreClosedIs DEF StorageInv, IndInv, StoreInv, StoreClosed, Closed, Leads
  <2>2. CASE Extends(db', db)
    <3>1. ASSUME NEW h \in DOMAIN db PROVE VersionMap(h)' = VersionMap(h)
      BY <1>1, <2>1, <2>2, StoredVersion DEF VersionMap
    <3>2. ASSUME NEW h \in DOMAIN db' PROVE Readable(VersionMap(h)')
      <4>1. Extends(db', db')
        BY DEF Extends
      <4> QED BY <1>1, <2>1, <4>1, StoredVersion DEF VersionMap, Readable
    <3> QED BY <3>1, <3>2 DEF WholeOrGone
  <2>3. CASE Extends(db, db')
    <3>1. ASSUME NEW h \in DOMAIN db' PROVE h \in DOMAIN db /\ VersionMap(h)' = VersionMap(h)
      BY <1>1, <2>1, <2>3, StoredVersion DEF VersionMap, Extends
    <3> QED BY <3>1 DEF WholeOrGone
  <2>4. Extends(db', db) \/ Extends(db, db')
    <3>1. CASE PowerLoss
      BY <1>2, <3>1, PrefixClosed DEF StorageInv
    <3>2. CASE [Next]_vars
      BY <1>2, <3>2, StoreKept DEF StorageInv, StoreOnlyGrows, Extends
    <3>3. CASE UNCHANGED storageVars
      BY <3>3 DEF storageVars, vars, Extends
    <3> QED BY <1>2, <3>1, <3>2, <3>3 DEF StorageNext
  <2> QED BY <2>2, <2>3, <2>4
<1>3. StorageInv /\ StorageInv' /\ [StorageNext]_storageVars => [WholeOrGone]_storageVars
  BY <1>2
<1>4. [][WholeOrGone]_storageVars => VersionsWholeOrGone
  BY PTL DEF VersionsWholeOrGone, WholeOrGone
<1> QED BY <1>3, <1>4, StorageInvHolds, PTL DEF StorageSpec
=============================================================================
