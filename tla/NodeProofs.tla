------------------------------ MODULE NodeProofs ------------------------------
(***************************************************************************)
(* Theorems about the libp2p proof nodes, for any number of nodes,         *)
(* connections and processes, with and without faults: the types, one      *)
(* request per peer, every request in one place, and that the nodes        *)
(* implement PeerExchange, step by step.                                   *)
(***************************************************************************)
EXTENDS NodeProperties, SequenceTheorems, TLAPS

-----------------------------------------------------------------------------
(* Connections.                                                            *)

\* A connection of a node has exactly one other end, whose peer is the node.
LEMMA BothEnds ==
  ASSUME Links, NEW n \in Node, NEW k \in Mine(n)
  PROVE  /\ k \in Conn
         /\ k \in DOMAIN links
         /\ Peer(n, k) \in Node
         /\ Peer(n, k) # n
         /\ links[k].ends = {n, Peer(n, k)}
         /\ k \in Mine(Peer(n, k))
         /\ Peer(Peer(n, k), k) = n
<1>1. k \in DOMAIN links /\ n \in links[k].ends
  BY DEF Mine
<1>2. PICK a, b \in Node : a # b /\ links[k].ends = {a, b}
  BY <1>1 DEF Links
<1>3. k \in Conn
  BY <1>1, MaxDialsAssumption DEF Links, Conn
<1>4. Peer(n, k) \in links[k].ends /\ Peer(n, k) # n
  BY <1>1, <1>2 DEF Peer
<1>5. links[k].ends = {n, Peer(n, k)}
  BY <1>1, <1>2, <1>4
<1>6. Peer(Peer(n, k), k) \in links[k].ends /\ Peer(Peer(n, k), k) # Peer(n, k)
  BY <1>1, <1>2, <1>4 DEF Peer
<1> QED BY <1>1, <1>2, <1>3, <1>4, <1>5, <1>6 DEF Mine

\* Connections keep their ends when they end.
SameEnds ==
  /\ DOMAIN links' = DOMAIN links
  /\ \A k \in DOMAIN links : links'[k].ends = links[k].ends

\* Whose connections they are does not change as long as their ends do not.
LEMMA EndsStay ==
  ASSUME SameEnds
  PROVE  /\ \A n : Mine(n)' = Mine(n)
         /\ \A n : \A k \in DOMAIN links : Peer(n, k)' = Peer(n, k)
BY DEF SameEnds, Mine, Peer

\* Closing connections changes nothing of them but that they are live.
LEMMA CutLinks ==
  ASSUME Links, NEW cut,
         links' = [k \in DOMAIN links |->
                    IF k \in cut THEN [links[k] EXCEPT !.live = FALSE] ELSE links[k]]
  PROVE  /\ Links'
         /\ SameEnds
         /\ \A k \in DOMAIN links : links'[k].live <=> links[k].live /\ k \notin cut
<1>1. links \in Seq(Link)
  BY DEF Links
<1>2. \A k \in DOMAIN links : links[k] \in Link
  <2>1. DOMAIN links = 1 .. Len(links)
    BY <1>1
  <2> QED BY <1>1, <2>1, ElementOfSeq
<1>3. \A k \in DOMAIN links : /\ links'[k] \in Link
                              /\ links'[k].ends = links[k].ends
                              /\ links'[k].live <=> links[k].live /\ k \notin cut
  BY <1>2 DEF Link
<1>4. DOMAIN links' = 1 .. Len(links) /\ DOMAIN links = 1 .. Len(links) /\ Len(links) \in Nat
  BY <1>1
<1>5. links' \in Seq(Link) /\ Len(links') = Len(links)
  <2>1. links' \in [1 .. Len(links) -> Link]
    BY <1>3, <1>4
  <2> QED BY <2>1, <1>4
<1> QED BY <1>3, <1>4, <1>5 DEF Links, SameEnds

\* A new connection is one of both its ends, and changes no other.
LEMMA NewLink ==
  ASSUME Links, NEW n \in Node, NEW m \in Node, n # m, Len(links) < MaxDials,
         links' = Append(links, [ends |-> {n, m}, live |-> TRUE])
  PROVE  /\ Links'
         /\ DOMAIN links' = DOMAIN links \cup {Len(links) + 1}
         /\ Len(links) + 1 \notin DOMAIN links
         /\ \A k \in DOMAIN links : links'[k] = links[k]
         /\ links'[Len(links) + 1] = [ends |-> {n, m}, live |-> TRUE]
         /\ \A i : Mine(i)' = Mine(i) \cup (IF i \in {n, m} THEN {Len(links) + 1} ELSE {})
         /\ \A i : \A k \in DOMAIN links : Peer(i, k)' = Peer(i, k)
<1> DEFINE new == [ends |-> {n, m}, live |-> TRUE]
<1>1. links \in Seq(Link) /\ new \in Link
  BY DEF Links, Link
<1>2. /\ links' \in Seq(Link)
      /\ Len(links') = Len(links) + 1
      /\ Len(links) \in Nat
      /\ DOMAIN links' = 1 .. Len(links) + 1
      /\ DOMAIN links = 1 .. Len(links)
      /\ \A k \in 1 .. Len(links) : links'[k] = links[k]
      /\ links'[Len(links) + 1] = new
  BY <1>1
<1>3. DOMAIN links' = DOMAIN links \cup {Len(links) + 1} /\ Len(links) + 1 \notin DOMAIN links
  BY <1>2
<1>4. Links'
  BY <1>2, <1>3, MaxDialsAssumption DEF Links
<1>5. \A i : Mine(i)' = Mine(i) \cup (IF i \in {n, m} THEN {Len(links) + 1} ELSE {})
  BY <1>2, <1>3 DEF Mine
<1>6. \A i : \A k \in DOMAIN links : Peer(i, k)' = Peer(i, k)
  BY <1>2 DEF Peer
<1> QED BY <1>2, <1>3, <1>4, <1>5, <1>6

-----------------------------------------------------------------------------
(* The types.                                                              *)

\* The types: the initial state, then one lemma per event.
LEMMA InitTypes == Init => TypeOK
<1> SUFFICES ASSUME Init PROVE TypeOK
  OBVIOUS
<1>1. links = <<>> /\ DOMAIN links = {} /\ Len(links) = 0
  BY DEF Init
<1>2. Links
  BY <1>1, MaxDialsAssumption DEF Links
<1>3. Types
  BY MaxStartsAssumption DEF Init, Types, NoAsks, AskState
<1>4. ASSUME NEW n \in Node PROVE Keeps(n)
  BY <1>1 DEF Init, Keeps, Mine, NoAsks
<1> QED BY <1>2, <1>3, <1>4 DEF TypeOK

\* A process starts with empty tables.
LEMMA StartTypes ==
  ASSUME TypeOK, NEW n \in Node, Start(n)
  PROVE  TypeOK'
<1>1. Links'
  BY DEF TypeOK, Links, Start
<1>2. Types'
  BY MaxStartsAssumption DEF TypeOK, Types, Start
<1>3. ASSUME NEW i \in Node PROVE Keeps(i)'
  BY DEF TypeOK, Types, Keeps, Mine, Start
<1> QED BY <1>1, <1>2, <1>3 DEF TypeOK

\* A process ends and its connections with it.
LEMMA EndTypes ==
  ASSUME TypeOK, NEW n \in Node, End(n)
  PROVE  TypeOK'
<1>1. /\ Links' /\ SameEnds
      /\ \A k \in DOMAIN links : links'[k].live <=> links[k].live /\ k \notin Mine(n)
  BY CutLinks DEF TypeOK, End
<1>2. \A i : Mine(i)' = Mine(i)
  BY <1>1, EndsStay
<1>3. PICK lost \in SUBSET Mine(n) :
        inbox' = [m \in Node |-> IF m = n THEN {} ELSE inbox[m] \ lost]
  BY DEF End
<1>4. Mine(n) \subseteq Conn
  BY BothEnds DEF TypeOK
<1>5. Types'
  BY <1>3, <1>4 DEF TypeOK, Types, End, NoAsks, AskState
<1>6. ASSUME NEW i \in Node PROVE Keeps(i)'
  <2>1. CASE i = n
    BY <1>1, <1>2, <1>3, <2>1 DEF TypeOK, Types, End, Keeps, NoAsks, Mine
  <2>2. CASE i # n
    BY <1>1, <1>2, <1>3, <2>2 DEF TypeOK, Types, End, Keeps, Mine
  <2> QED BY <2>1, <2>2
<1> QED BY <1>1, <1>5, <1>6 DEF TypeOK

\* A connection closes.
LEMMA CloseTypes ==
  ASSUME TypeOK, NEW k \in DOMAIN links, Close(k)
  PROVE  TypeOK'
<1>1. /\ Links' /\ SameEnds
      /\ \A j \in DOMAIN links : links'[j].live <=> links[j].live /\ j \notin {k}
  BY CutLinks DEF TypeOK, Close, Cut
<1>2. \A i : Mine(i)' = Mine(i)
  BY <1>1, EndsStay
<1>3. PICK lost \in SUBSET {k} : inbox' = [m \in Node |-> inbox[m] \ lost]
  BY DEF Close, Cut
<1>4. Types'
  BY <1>3 DEF TypeOK, Types, Close
<1>5. ASSUME NEW i \in Node PROVE Keeps(i)'
  BY <1>1, <1>2, <1>3 DEF TypeOK, Types, Close, Keeps, Mine
<1> QED BY <1>1, <1>4, <1>5 DEF TypeOK

\* A dial makes a connection.
LEMMA DialTypes ==
  ASSUME TypeOK, NEW n \in Node, NEW m \in Node, Dial(n, m)
  PROVE  TypeOK'
<1>1. /\ Links'
      /\ DOMAIN links' = DOMAIN links \cup {Len(links) + 1}
      /\ \A k \in DOMAIN links : links'[k] = links[k]
      /\ \A i : Mine(i)' = Mine(i) \cup (IF i \in {n, m} THEN {Len(links) + 1} ELSE {})
  BY NewLink DEF TypeOK, Dial
<1>2. Types'
  BY DEF TypeOK, Types, Dial
<1>3. ASSUME NEW i \in Node PROVE Keeps(i)'
  <2>1. ~up[i] => i \notin {n, m}
    BY DEF Dial, Polling
  <2>2. Keeps(i) /\ Mine(i) \subseteq DOMAIN links
    BY DEF TypeOK, Mine
  <2> QED BY <1>1, <2>1, <2>2 DEF Dial, Keeps
<1> QED BY <1>1, <1>2, <1>3 DEF TypeOK

\* A connection is established: a request is sent, or the peer was asked before.
LEMMA HandleEstablishedTypes ==
  ASSUME TypeOK, NEW n \in Node, NEW k \in Mine(n), HandleEstablished(n, k)
  PROVE  TypeOK'
<1> DEFINE m == Peer(n, k)
<1>1. k \in Conn /\ k \in DOMAIN links /\ m \in Node /\ m # n /\ k \in Mine(m)
  BY BothEnds DEF TypeOK
<1> HIDE DEF m
<1>2. Links'
  BY DEF TypeOK, Links, HandleEstablished
<1>3. CASE m \in peer_ids[n] /\ UNCHANGED <<peer_ids, ask, inbox>>
  <2>1. Types'
    BY <1>1, <1>3 DEF TypeOK, Types, HandleEstablished
  <2>2. ASSUME NEW i \in Node PROVE Keeps(i)'
    BY <1>1, <1>3 DEF TypeOK, Types, Keeps, Mine, HandleEstablished, Polling
  <2> QED BY <1>2, <2>1, <2>2 DEF TypeOK
<1>4. CASE SendRequest(n, k) /\ peer_ids' = [peer_ids EXCEPT ![n] = @ \cup {m}]
  <2>1. /\ ask' = [ask EXCEPT ![n][k] = "sent"]
        /\ inbox' = IF links[k].live THEN [inbox EXCEPT ![m] = @ \cup {k}] ELSE inbox
    BY <1>4 DEF SendRequest, m
  <2>2. links[k].live => up[m]
    BY <1>1 DEF TypeOK, Keeps
  <2>3. Types'
    BY <1>1, <1>4, <2>1 DEF TypeOK, Types, HandleEstablished, AskState
  <2>4. ASSUME NEW i \in Node PROVE Keeps(i)'
    <3>1. CASE i = n
      BY <1>1, <1>4, <2>1, <3>1 DEF TypeOK, Types, Keeps, Mine, HandleEstablished, Polling
    <3>2. CASE i # n
      BY <1>1, <1>4, <2>1, <2>2, <3>2 DEF TypeOK, Types, Keeps, Mine, HandleEstablished
    <3> QED BY <3>1, <3>2
  <2> QED BY <1>2, <2>3, <2>4 DEF TypeOK
<1> QED BY <1>3, <1>4 DEF HandleEstablished, m

\* The client's other events: ask moves on, and the inbox of a peer may shrink.
LEMMA ClientTypes ==
  ASSUME TypeOK, NEW n \in Node, NEW k \in Mine(n),
         HandleResponse(n, k) \/ RequestFails(n, k) \/ RequestTimesOut(n, k)
  PROVE  TypeOK'
<1>1. k \in Conn /\ Peer(n, k) \in Node
  BY BothEnds DEF TypeOK
<1>2. /\ ask[n][k] # "none" /\ up[n]
      /\ \E state \in {"done", "failed"} : ask' = [ask EXCEPT ![n][k] = state]
      /\ UNCHANGED <<up, starts, links, seen, peer_ids, wait>>
  BY DEF HandleResponse, RequestFails, RequestTimesOut, Polling
<1>3. inbox' \in {inbox, [inbox EXCEPT ![Peer(n, k)] = @ \ {k}]}
  BY DEF HandleResponse, RequestFails, RequestTimesOut
<1>4. Links'
  BY <1>2 DEF TypeOK, Links
<1>5. Types'
  <2>1. inbox' \in [Node -> SUBSET Conn]
    BY <1>1, <1>3 DEF TypeOK, Types
  <2>2. ask' \in [Node -> [Conn -> AskState]]
    BY <1>1, <1>2 DEF TypeOK, Types, AskState
  <2> QED BY <1>2, <2>1, <2>2 DEF TypeOK, Types
<1>6. ASSUME NEW i \in Node PROVE Keeps(i)'
  BY <1>1, <1>2, <1>3, SMTT(30) DEF TypeOK, Types, Keeps, Mine
<1> QED BY <1>4, <1>5, <1>6 DEF TypeOK

\* The event loop passes a peer's request on and waits.
LEMMA HandleRequestTypes ==
  ASSUME TypeOK, NEW n \in Node, NEW k \in Mine(n), HandleRequest(n, k)
  PROVE  TypeOK'
<1>1. k \in Conn
  BY BothEnds DEF TypeOK
<1>2. Links'
  BY DEF TypeOK, Links, HandleRequest
<1>3. Types'
  BY <1>1 DEF TypeOK, Types, HandleRequest, Reply
<1>4. ASSUME NEW i \in Node PROVE Keeps(i)'
  BY <1>1 DEF TypeOK, Types, Keeps, Mine, HandleRequest, Polling, Waiting
<1> QED BY <1>2, <1>3, <1>4 DEF TypeOK

\* What a loop waits for is a request that came over one of its connections.
LEMMA WaitsFor ==
  ASSUME TypeOK, NEW n \in Node, wait[n].reply # "none"
  PROVE  /\ wait[n] # NoRequest
         /\ wait[n].conn \in Mine(n)
         /\ wait[n].reply \in Reply
         /\ wait[n] = Waiting(wait[n].conn, wait[n].reply)
<1>1. wait[n] # NoRequest
  BY DEF NoRequest
<1>2. \E k \in Conn, reply \in Reply : wait[n] = Waiting(k, reply)
  BY <1>1 DEF TypeOK, Types
<1> QED BY <1>1, <1>2 DEF TypeOK, Keeps, Waiting

\* The event loop has the proof and sends it.
LEMMA SendResponseTypes ==
  ASSUME TypeOK, NEW n \in Node, SendResponse(n)
  PROVE  TypeOK'
<1> DEFINE k == wait[n].conn
           m == Peer(n, k)
<1>1. k \in Mine(n)
  BY WaitsFor DEF SendResponse
<1>2. k \in Conn /\ m \in Node
  BY <1>1, BothEnds DEF TypeOK
<1>3. /\ ask' = IF links[k].live /\ ask[m][k] = "sent" THEN [ask EXCEPT ![m][k] = "answered"] ELSE ask
      /\ wait' = [wait EXCEPT ![n] = NoRequest]
      /\ UNCHANGED <<up, starts, links, seen, peer_ids, inbox>>
  BY DEF SendResponse
<1> HIDE DEF k, m
<1>4. Links'
  BY <1>3 DEF TypeOK, Links
<1>5. Types'
  BY <1>2, <1>3 DEF TypeOK, Types, AskState
<1>6. ASSUME NEW i \in Node PROVE Keeps(i)'
  BY <1>2, <1>3 DEF TypeOK, Types, Keeps, Mine, NoAsks
<1> QED BY <1>4, <1>5, <1>6 DEF TypeOK

\* The proof task serves the request, or drops it.
LEMMA WorkTypes ==
  ASSUME TypeOK, NEW n \in Node, Work(n)
  PROVE  TypeOK'
<1>1. /\ wait[n].reply = "pending"
      /\ \E reply \in Reply : wait' = [wait EXCEPT ![n].reply = reply]
      /\ UNCHANGED <<up, starts, links, seen, peer_ids, ask, inbox>>
  BY DEF Work, WorkerAnswers, WorkerSkips, Reply
<1>2. /\ wait[n] # NoRequest
      /\ wait[n].conn \in Mine(n)
      /\ wait[n] = Waiting(wait[n].conn, wait[n].reply)
  BY <1>1, WaitsFor
<1>3. wait[n].conn \in Conn
  BY <1>2, BothEnds DEF TypeOK
<1>4. \E reply \in Reply : wait' = [wait EXCEPT ![n] = Waiting(wait[n].conn, reply)]
  BY <1>1, <1>2 DEF Waiting
<1>5. Links'
  BY <1>1 DEF TypeOK, Links
<1>6. Types'
  BY <1>3, <1>4, <1>1 DEF TypeOK, Types
<1>7. ASSUME NEW i \in Node PROVE Keeps(i)'
  BY <1>1, <1>2, <1>4 DEF TypeOK, Types, Keeps, Mine, Waiting
<1> QED BY <1>5, <1>6, <1>7 DEF TypeOK

-----------------------------------------------------------------------------
(* One request per peer.                                                   *)

\* A step after which the same requests have been made, to the same peers.
LEMMA SameAsks ==
  ASSUME TypeOK, OncePerPeer, SameEnds, peer_ids' = peer_ids,
         \A n \in Node, k \in Conn : Asked(n, k)' <=> Asked(n, k)
  PROVE  OncePerPeer'
<1>1. ASSUME NEW n \in Node
      PROVE  /\ Mine(n)' = Mine(n)
             /\ \A k \in Mine(n) : Peer(n, k)' = Peer(n, k) /\ (Asked(n, k)' <=> Asked(n, k))
  BY EndsStay, BothEnds DEF TypeOK
<1>2. ASSUME NEW n \in Node
      PROVE  {Peer(n, k) : k \in {j \in Mine(n) : Asked(n, j)}}' =
             {Peer(n, k) : k \in {j \in Mine(n) : Asked(n, j)}}
  BY <1>1
<1>3. ASSUME NEW n \in Node
      PROVE  (\A j, k \in Mine(n) : Asked(n, j) /\ Asked(n, k) /\ Peer(n, j) = Peer(n, k) => j = k)'
  BY <1>1 DEF OncePerPeer
<1> QED BY <1>2, <1>3 DEF OncePerPeer

\* A process that ends takes its requests and its peer_ids with it.
LEMMA EndOnce ==
  ASSUME TypeOK, OncePerPeer, NEW n \in Node, End(n)
  PROVE  OncePerPeer'
<1>1. SameEnds
  BY CutLinks DEF TypeOK, End
<1>2. ASSUME NEW i \in Node
      PROVE  /\ Mine(i)' = Mine(i)
             /\ \A k \in Mine(i) : Peer(i, k)' = Peer(i, k) /\ k \in Conn
  BY <1>1, EndsStay, BothEnds DEF TypeOK
<1>3. \A k \in Mine(n) : ~Asked(n, k)'
  BY <1>2 DEF End, Asked, NoAsks, TypeOK, Types
<1>4. \A i \in Node \ {n} : \A k : Asked(i, k)' <=> Asked(i, k)
  BY DEF End, Asked, TypeOK, Types
<1>5. ASSUME NEW i \in Node
      PROVE  (/\ peer_ids[i] = {Peer(i, k) : k \in {j \in Mine(i) : Asked(i, j)}}
              /\ \A j, k \in Mine(i) : Asked(i, j) /\ Asked(i, k) /\ Peer(i, j) = Peer(i, k) => j = k)'
  <2>1. CASE i = n
    BY <1>2, <1>3, <2>1 DEF End, TypeOK, Types
  <2>2. CASE i # n
    BY <1>2, <1>4, <2>2 DEF OncePerPeer, End, TypeOK, Types
  <2> QED BY <2>1, <2>2
<1> QED BY <1>5 DEF OncePerPeer

\* A new connection has no request yet.
LEMMA DialOnce ==
  ASSUME TypeOK, OncePerPeer, NEW n \in Node, NEW m \in Node, Dial(n, m)
  PROVE  OncePerPeer'
<1>1. /\ Len(links) + 1 \notin DOMAIN links
      /\ \A i : Mine(i)' = Mine(i) \cup (IF i \in {n, m} THEN {Len(links) + 1} ELSE {})
      /\ \A i : \A k \in DOMAIN links : Peer(i, k)' = Peer(i, k)
  BY NewLink DEF TypeOK, Dial
<1>2. ASSUME NEW i \in Node, NEW k, k = Len(links) + 1
      PROVE  ~Asked(i, k)'
  <2>1. k \in Conn
    BY <1>2, MaxDialsAssumption DEF TypeOK, Links, Dial, Conn
  <2> QED BY <1>1, <1>2, <2>1 DEF TypeOK, Keeps, Asked, Mine, Dial
<1>3. ASSUME NEW i \in Node
      PROVE  {j \in Mine(i) : Asked(i, j)}' = {j \in Mine(i) : Asked(i, j)}
  <2>1. \A j : Asked(i, j)' <=> Asked(i, j)
    BY DEF Dial, Asked
  <2> QED BY <1>1, <1>2, <2>1
<1>4. ASSUME NEW i \in Node, NEW k \in {j \in Mine(i) : Asked(i, j)}
      PROVE  Peer(i, k)' = Peer(i, k)
  BY <1>1 DEF Mine
<1>5. peer_ids' = peer_ids
  BY DEF Dial
<1> QED BY <1>3, <1>4, <1>5 DEF OncePerPeer

\* A request goes to a peer that was not asked before.
LEMMA SendRequestOnce ==
  ASSUME TypeOK, OncePerPeer, NEW n \in Node, NEW k \in Mine(n), HandleEstablished(n, k)
  PROVE  OncePerPeer'
<1>1. k \in Conn /\ k \in DOMAIN links /\ Peer(n, k) \in Node /\ ~Asked(n, k)
  <2>1. k \in Conn /\ k \in DOMAIN links /\ Peer(n, k) \in Node
    BY BothEnds DEF TypeOK
  <2> QED BY <2>1 DEF TypeOK, Keeps, Asked, HandleEstablished
<1>2. SameEnds
  BY DEF HandleEstablished, SameEnds
<1>3. \A i : Mine(i)' = Mine(i) /\ \A j : Peer(i, j)' = Peer(i, j)
  BY DEF HandleEstablished, Mine, Peer
<1>4. CASE UNCHANGED <<peer_ids, ask, inbox>>
  BY <1>2, <1>4, SameAsks DEF Asked
<1>5. CASE /\ Peer(n, k) \notin peer_ids[n]
           /\ SendRequest(n, k)
           /\ peer_ids' = [peer_ids EXCEPT ![n] = @ \cup {Peer(n, k)}]
  <2>1. \A i \in Node : \A j \in Conn : Asked(i, j)' <=> Asked(i, j) \/ (i = n /\ j = k)
    BY <1>1, <1>5 DEF SendRequest, Asked, TypeOK, Types
  <2>2. ASSUME NEW i \in Node
        PROVE  (/\ peer_ids[i] = {Peer(i, l) : l \in {j \in Mine(i) : Asked(i, j)}}
                /\ \A j, l \in Mine(i) : Asked(i, j) /\ Asked(i, l) /\ Peer(i, j) = Peer(i, l) => j = l)'
    <3>1. \A j \in Mine(i) : j \in Conn
      BY BothEnds DEF TypeOK
    <3>2. CASE i = n
      <4>1. {j \in Mine(i) : Asked(i, j)}' = {j \in Mine(i) : Asked(i, j)} \cup {k}
        BY <1>3, <2>1, <3>1, <3>2
      <4>2. peer_ids'[i] = peer_ids[i] \cup {Peer(i, k)} /\ Peer(i, k) \notin peer_ids[i]
        BY <1>5, <3>2 DEF TypeOK, Types
      <4>3. peer_ids[i] = {Peer(i, l) : l \in {j \in Mine(i) : Asked(i, j)}}
        BY DEF OncePerPeer
      <4>4. \A j, l \in Mine(i) : Asked(i, j) /\ Asked(i, l) /\ Peer(i, j) = Peer(i, l) => j = l
        BY DEF OncePerPeer
      <4>5. (peer_ids[i] = {Peer(i, l) : l \in {j \in Mine(i) : Asked(i, j)}})'
        BY <1>3, <4>1, <4>2, <4>3
      <4>6. (\A j, l \in Mine(i) : Asked(i, j) /\ Asked(i, l) /\ Peer(i, j) = Peer(i, l) => j = l)'
        BY <1>3, <2>1, <3>1, <3>2, <4>2, <4>3, <4>4
      <4> QED BY <4>5, <4>6
    <3>3. CASE i # n
      BY <1>3, <1>5, <2>1, <3>1, <3>3 DEF OncePerPeer, TypeOK, Types
    <3> QED BY <3>2, <3>3
  <2> QED BY <2>2 DEF OncePerPeer
<1> QED BY <1>4, <1>5 DEF HandleEstablished

-----------------------------------------------------------------------------
(* Every request in one place.                                             *)

\* RequestInOnePlace of one request, with the other end as a parameter.
InOnePlace(n, k, m) ==
  links[k].live =>
    /\ ask[n][k] = "sent" => (k \in inbox[m] \/ Serves(m, k))
    /\ k \in inbox[m] => ~Serves(m, k)
    /\ k \in inbox[m] \/ Serves(m, k) => ask[n][k] \in {"sent", "failed"}

\* RequestInOnePlace, one connection's end at a time.
LEMMA InOnePlaceIs ==
  RequestInOnePlace <=> \A n \in Node : \A k \in Mine(n) : InOnePlace(n, k, Peer(n, k))
BY DEF RequestInOnePlace, InOnePlace

\* It is enough to look at connections that a node has had before.
LEMMA PlacesKept ==
  ASSUME TypeOK, SameEnds,
         \A n \in Node : \A k \in Mine(n) : InOnePlace(n, k, Peer(n, k))'
  PROVE  RequestInOnePlace'
<1>1. \A n : Mine(n)' = Mine(n)
  BY EndsStay
<1> QED BY <1>1 DEF RequestInOnePlace, InOnePlace

\* A step after which every live connection was live and has its requests
\* where they were.
LEMMA SamePlaces ==
  ASSUME TypeOK, RequestInOnePlace, SameEnds,
         \A n \in Node : \A k \in Mine(n) : links'[k].live =>
           /\ links[k].live
           /\ ask'[n][k] = ask[n][k]
           /\ k \in inbox'[n] <=> k \in inbox[n]
           /\ Serves(n, k)' <=> Serves(n, k)
  PROVE  RequestInOnePlace'
<1>1. ASSUME NEW n \in Node, NEW k \in Mine(n)
      PROVE  InOnePlace(n, k, Peer(n, k))'
  <2>1. Peer(n, k)' = Peer(n, k) /\ Peer(n, k) \in Node /\ k \in Mine(Peer(n, k))
    BY EndsStay, BothEnds DEF TypeOK
  <2>2. InOnePlace(n, k, Peer(n, k))
    BY InOnePlaceIs
  <2> QED BY <2>1, <2>2 DEF InOnePlace
<1> QED BY <1>1, PlacesKept

\* A process that ends: none of its connections is live any more.
LEMMA EndPlaces ==
  ASSUME TypeOK, RequestInOnePlace, NEW n \in Node, End(n)
  PROVE  RequestInOnePlace'
<1>1. /\ SameEnds
      /\ \A k \in DOMAIN links : links'[k].live <=> links[k].live /\ k \notin Mine(n)
  BY CutLinks DEF TypeOK, End
<1>2. ASSUME NEW i \in Node, NEW k \in Mine(i), links'[k].live
      PROVE  /\ links[k].live
             /\ ask'[i][k] = ask[i][k]
             /\ k \in inbox'[i] <=> k \in inbox[i]
             /\ Serves(i, k)' <=> Serves(i, k)
  <2>1. links[k].live /\ k \notin Mine(n) /\ i # n
    BY <1>1, <1>2 DEF Mine
  <2> QED BY <2>1 DEF End, Serves, TypeOK, Types
<1> QED BY <1>1, <1>2, SamePlaces

\* Nor is a connection that closes.
LEMMA ClosePlaces ==
  ASSUME TypeOK, RequestInOnePlace, NEW k \in DOMAIN links, Close(k)
  PROVE  RequestInOnePlace'
<1>1. /\ SameEnds
      /\ \A j \in DOMAIN links : links'[j].live <=> links[j].live /\ j \notin {k}
  BY CutLinks DEF TypeOK, Close, Cut
<1>2. ASSUME NEW i \in Node, NEW j \in Mine(i), links'[j].live
      PROVE  /\ links[j].live
             /\ ask'[i][j] = ask[i][j]
             /\ j \in inbox'[i] <=> j \in inbox[i]
             /\ Serves(i, j)' <=> Serves(i, j)
  BY <1>1, <1>2 DEF Close, Cut, Serves, Mine
<1> QED BY <1>1, <1>2, SamePlaces

\* On a new connection nothing is sent and nothing served.
LEMMA DialPlaces ==
  ASSUME TypeOK, RequestInOnePlace, NEW n \in Node, NEW m \in Node, Dial(n, m)
  PROVE  RequestInOnePlace'
<1> SUFFICES ASSUME NEW i \in Node, NEW k \in Mine(i)'
             PROVE  InOnePlace(i, k, Peer(i, k))'
  BY DEF RequestInOnePlace, InOnePlace
<1>1. /\ Links'
      /\ Len(links) + 1 \notin DOMAIN links
      /\ \A j \in DOMAIN links : links'[j] = links[j]
      /\ Mine(i)' = Mine(i) \cup (IF i \in {n, m} THEN {Len(links) + 1} ELSE {})
      /\ links'[Len(links) + 1].ends = {n, m} /\ n # m
      /\ \A j \in DOMAIN links : Peer(i, j)' = Peer(i, j)
  BY NewLink DEF TypeOK, Dial
<1>2. UNCHANGED <<ask, inbox, wait, seen>>
  BY DEF Dial
<1>4. CASE k \in Mine(i)
  BY <1>1, <1>2, <1>4, InOnePlaceIs DEF InOnePlace, Mine, Serves
<1>5. CASE k = Len(links) + 1
  <2>1. ASSUME NEW p \in Node PROVE k \notin seen[p] /\ k \notin inbox[p]
    BY <1>1, <1>5 DEF TypeOK, Keeps, Mine
  <2>2. k \in Conn
    BY <1>5, MaxDialsAssumption DEF TypeOK, Links, Dial, Conn
  <2>3. ask[i][k] = "none"
    BY <2>1, <2>2 DEF TypeOK, Keeps
  <2>4. i \in {n, m} /\ \E p \in {n, m} : p # i
    BY <1>1, <1>5 DEF Mine
  <2>5. Peer(i, k)' \in Node
    BY <1>1, <1>5, <2>4 DEF Peer
  <2>6. ASSUME NEW p \in Node PROVE ~Serves(p, k)'
    BY <1>2, <2>1 DEF Serves, TypeOK, Keeps
  <2> QED BY <1>2, <2>1, <2>3, <2>5, <2>6 DEF InOnePlace
<1> QED BY <1>1, <1>4, <1>5

\* A request that is sent is in the peer's inbox, and there only.
LEMMA SendRequestPlaces ==
  ASSUME TypeOK, RequestInOnePlace, NEW n \in Node, NEW k \in Mine(n), HandleEstablished(n, k)
  PROVE  RequestInOnePlace'
<1>1. /\ k \in Conn /\ Peer(n, k) \in Node /\ Peer(n, k) # n /\ Peer(Peer(n, k), k) = n
      /\ links[k].ends = {n, Peer(n, k)}
  BY BothEnds DEF TypeOK
<1>2. SameEnds /\ links' = links /\ \A i, j : Peer(i, j)' = Peer(i, j)
  BY DEF HandleEstablished, SameEnds, Peer
<1>3. CASE UNCHANGED <<peer_ids, ask, inbox>>
  BY <1>2, <1>3, SamePlaces DEF HandleEstablished, Serves
<1>4. CASE SendRequest(n, k)
  <2>1. ask[n][k] = "none"
    BY <1>1 DEF TypeOK, Keeps, HandleEstablished
  <2>2. InOnePlace(n, k, Peer(n, k))
    BY InOnePlaceIs
  <2>3. \A i : wait'[i] = wait[i]
    BY DEF HandleEstablished
  <2>4. ASSUME NEW i \in Node, NEW j \in Mine(i)
        PROVE  InOnePlace(i, j, Peer(i, j))'
    <3>1. Peer(i, j) \in Node /\ j \in Conn /\ links[j].ends = {i, Peer(i, j)} /\ InOnePlace(i, j, Peer(i, j))
      BY BothEnds, InOnePlaceIs DEF TypeOK
    <3>2. CASE i = n /\ j = k
      BY <1>1, <1>2, <1>4, <2>1, <2>2, <2>3, <3>2 DEF SendRequest, InOnePlace, Serves, TypeOK, Types
    <3>3. CASE i # n /\ j = k
      <4>1. i = Peer(n, k) /\ Peer(i, j) = n
        BY <1>1, <3>1, <3>3
      <4> QED BY <1>1, <1>2, <1>4, <2>3, <3>1, <3>3, <4>1
              DEF SendRequest, InOnePlace, Serves, TypeOK, Types
    <3>4. CASE j # k
      BY <1>1, <1>2, <1>4, <2>3, <3>1, <3>4 DEF SendRequest, InOnePlace, Serves, TypeOK, Types
    <3> QED BY <3>2, <3>3, <3>4
  <2> QED BY <1>2, <2>4, PlacesKept
<1> QED BY <1>3, <1>4 DEF HandleEstablished

\* A request ends as done only if it is no longer with the peer.
LEMMA ClientPlaces ==
  ASSUME TypeOK, RequestInOnePlace, NEW n \in Node, NEW k \in Mine(n),
         HandleResponse(n, k) \/ RequestFails(n, k) \/ RequestTimesOut(n, k)
  PROVE  RequestInOnePlace'
<1>1. /\ k \in Conn /\ Peer(n, k) \in Node /\ Peer(n, k) # n /\ Peer(Peer(n, k), k) = n
      /\ links[k].ends = {n, Peer(n, k)}
  BY BothEnds DEF TypeOK
<1>2. /\ SameEnds /\ links' = links /\ \A i, j : Peer(i, j)' = Peer(i, j)
      /\ wait' = wait
  BY DEF HandleResponse, RequestFails, RequestTimesOut, SameEnds, Peer
<1>3. inbox' \in {inbox, [inbox EXCEPT ![Peer(n, k)] = @ \ {k}]}
  BY DEF HandleResponse, RequestFails, RequestTimesOut
<1>4. \/ ask[n][k] = "answered" /\ ask' = [ask EXCEPT ![n][k] = "done"]
      \/ ask[n][k] \in {"sent", "answered"} /\ ask' = [ask EXCEPT ![n][k] = "failed"]
  BY DEF HandleResponse, RequestFails, RequestTimesOut
<1>5. ASSUME NEW i \in Node, NEW j \in Mine(i)
      PROVE  InOnePlace(i, j, Peer(i, j))'
  <2>1. Peer(i, j) \in Node /\ j \in Conn /\ links[j].ends = {i, Peer(i, j)} /\ InOnePlace(i, j, Peer(i, j))
    BY BothEnds, InOnePlaceIs DEF TypeOK
  <2>2. CASE i = n /\ j = k
    BY <1>1, <1>2, <1>3, <1>4, <2>1, <2>2 DEF InOnePlace, Serves, TypeOK, Types
  <2>3. CASE i # n /\ j = k
    <3>1. i = Peer(n, k) /\ Peer(i, j) = n
      BY <1>1, <2>1, <2>3
    <3> QED BY <1>1, <1>2, <1>3, <1>4, <2>1, <2>3, <3>1 DEF InOnePlace, Serves, TypeOK, Types
  <2>4. CASE j # k
    <3>1. ask'[i][j] = ask[i][j]
      BY <1>1, <1>4, <2>1, <2>4 DEF TypeOK, Types
    <3>2. j \in inbox'[Peer(i, j)] <=> j \in inbox[Peer(i, j)]
      BY <1>1, <1>3, <2>1, <2>4 DEF TypeOK, Types
    <3> QED BY <1>2, <2>1, <3>1, <3>2 DEF InOnePlace, Serves
  <2> QED BY <2>2, <2>3, <2>4
<1> QED BY <1>2, <1>5, PlacesKept

\* A request that leaves the inbox is served.
LEMMA HandleRequestPlaces ==
  ASSUME TypeOK, RequestInOnePlace, NEW n \in Node, NEW k \in Mine(n), HandleRequest(n, k)
  PROVE  RequestInOnePlace'
<1>1. k \in Conn
  BY BothEnds DEF TypeOK
<1>2. /\ SameEnds /\ links' = links /\ ask' = ask /\ \A i, j : Peer(i, j)' = Peer(i, j)
      /\ wait[n] = NoRequest /\ k \in inbox[n]
      /\ inbox' = [inbox EXCEPT ![n] = @ \ {k}]
      /\ wait' = [wait EXCEPT ![n] = Waiting(k, "pending")]
  BY DEF HandleRequest, Polling, SameEnds, Peer
<1>3. Waiting(k, "pending") # NoRequest /\ Waiting(k, "pending").conn = k
  BY DEF Waiting, NoRequest
<1>4. ASSUME NEW i \in Node, NEW j \in Mine(i)
      PROVE  InOnePlace(i, j, Peer(i, j))'
  <2>1. Peer(i, j) \in Node /\ InOnePlace(i, j, Peer(i, j))
    BY BothEnds, InOnePlaceIs DEF TypeOK
  <2>2. CASE Peer(i, j) = n
    BY <1>2, <1>3, <2>1, <2>2 DEF InOnePlace, Serves, TypeOK, Types
  <2>3. CASE Peer(i, j) # n
    BY <1>2, <2>1, <2>3 DEF InOnePlace, Serves, TypeOK, Types
  <2> QED BY <2>2, <2>3
<1> QED BY <1>2, <1>4, PlacesKept

\* An answered request is neither served nor "sent".
LEMMA SendResponsePlaces ==
  ASSUME TypeOK, RequestInOnePlace, NEW n \in Node, SendResponse(n)
  PROVE  RequestInOnePlace'
<1> DEFINE k == wait[n].conn
           m == Peer(n, k)
<1>1. k \in Mine(n) /\ Serves(n, k)
  BY WaitsFor DEF SendResponse, Serves
<1>2. /\ k \in Conn /\ m \in Node /\ m # n /\ Peer(m, k) = n
      /\ links[k].ends = {n, m} /\ k \in Mine(m)
  BY <1>1, BothEnds DEF TypeOK
<1>3. /\ ask' = IF links[k].live /\ ask[m][k] = "sent" THEN [ask EXCEPT ![m][k] = "answered"] ELSE ask
      /\ wait' = [wait EXCEPT ![n] = NoRequest]
      /\ UNCHANGED <<links, inbox>>
  BY DEF SendResponse
<1>4. SameEnds /\ \A i, j : Peer(i, j)' = Peer(i, j)
  BY <1>3 DEF SameEnds, Peer
<1>5. \A j : Serves(n, j) => j = k
  BY DEF Serves
<1> HIDE DEF k, m
<1>6. InOnePlace(m, k, n)
  BY <1>2, InOnePlaceIs
<1>7. ASSUME NEW i \in Node, NEW j \in Mine(i)
      PROVE  InOnePlace(i, j, Peer(i, j))'
  <2>1. Peer(i, j) \in Node /\ links[j].ends = {i, Peer(i, j)} /\ InOnePlace(i, j, Peer(i, j)) /\ j \in Conn
    BY BothEnds, InOnePlaceIs DEF TypeOK
  <2>2. ~Serves(n, j)'
    BY <1>3 DEF Serves, TypeOK, Types
  <2>3. \A p \in Node : p # n => (Serves(p, j)' <=> Serves(p, j))
    BY <1>3 DEF Serves, TypeOK, Types
  <2>4. CASE i = m /\ j = k
    BY <1>1, <1>2, <1>3, <1>4, <1>6, <2>2, <2>4 DEF InOnePlace, TypeOK, Types
  <2>5. CASE ~(i = m /\ j = k)
    <3>1. ask'[i][j] = ask[i][j]
      BY <1>2, <1>3, <2>1, <2>5 DEF TypeOK, Types
    <3>2. Peer(i, j) = n => j # k
      BY <1>2, <2>1, <2>5
    <3> QED BY <1>3, <1>4, <1>5, <2>1, <2>2, <2>3, <3>1, <3>2 DEF InOnePlace
  <2> QED BY <2>4, <2>5
<1> QED BY <1>4, <1>7, PlacesKept

\* The proof task does not move the request.
LEMMA WorkPlaces ==
  ASSUME TypeOK, RequestInOnePlace, NEW n \in Node, Work(n)
  PROVE  RequestInOnePlace'
<1>1. /\ wait[n].reply = "pending"
      /\ \E reply \in Reply : wait' = [wait EXCEPT ![n].reply = reply]
      /\ UNCHANGED <<links, ask, inbox>>
  BY DEF Work, WorkerAnswers, WorkerSkips, Reply
<1>2. wait[n] # NoRequest /\ wait[n] = Waiting(wait[n].conn, wait[n].reply)
  BY <1>1, WaitsFor
<1>3. \E reply \in Reply : wait' = [wait EXCEPT ![n] = Waiting(wait[n].conn, reply)]
  BY <1>1, <1>2 DEF Waiting
<1>4. \A k : Serves(n, k)' <=> Serves(n, k)
  <2>1. PICK reply \in Reply : wait'[n] = Waiting(wait[n].conn, reply)
    BY <1>3 DEF TypeOK, Types
  <2>2. wait'[n] # NoRequest /\ wait'[n].conn = wait[n].conn
    BY <2>1 DEF Waiting, NoRequest, Reply
  <2> QED BY <1>2, <2>2 DEF Serves
<1>5. \A i \in Node \ {n} : \A k : Serves(i, k)' <=> Serves(i, k)
  BY <1>3 DEF Serves, TypeOK, Types
<1>6. SameEnds
  BY <1>1 DEF SameEnds
<1> QED BY <1>1, <1>4, <1>5, <1>6, SamePlaces

-----------------------------------------------------------------------------
(* What faults alone can do.                                               *)

\* No request is skipped unless the database fails, and without faults a
\* connection ends only when nobody waits for an answer on it.
NothingLost ==
  /\ ~DbFaults => \A n \in Node : wait[n].reply # "dropped"
  /\ ~DbFaults /\ ~NetFaults => \A k \in DOMAIN links : links[k].live \/ Quiet(k)

\* The inductive invariant.
NodeInv == TypeOK /\ OncePerPeer /\ RequestInOnePlace /\ NothingLost

\* The steps, each with what it takes.
LEMMA StepKinds ==
  ASSUME [Next]_vars
  PROVE  \/ UNCHANGED vars
         \/ \E n \in Node : Start(n) \/ Stop(n) \/ SendResponse(n) \/ ReplyDropped(n) \/ Work(n)
         \/ \E n \in Node : \E k \in Mine(n) :
              \/ HandleEstablished(n, k) \/ HandleRequest(n, k)
              \/ HandleResponse(n, k) \/ RequestFails(n, k) \/ RequestTimesOut(n, k)
         \/ \E n, m \in Node : Dial(n, m)
         \/ \E k \in DOMAIN links : Close(k)
BY DEF Next, Loop

\* The invariants, over all events.
LEMMA TypesInductive == ASSUME TypeOK, [Next]_vars PROVE TypeOK'
<1>1. CASE UNCHANGED vars
  BY <1>1 DEF vars, TypeOK, Links, Types, Keeps, Mine
<1>2. ASSUME NEW n \in Node, Start(n) \/ Stop(n) \/ SendResponse(n) \/ ReplyDropped(n) \/ Work(n)
      PROVE  TypeOK'
  BY <1>2, StartTypes, EndTypes, SendResponseTypes, WorkTypes DEF Stop, ReplyDropped
<1>3. ASSUME NEW n \in Node, NEW k \in Mine(n),
             \/ HandleEstablished(n, k) \/ HandleRequest(n, k)
             \/ HandleResponse(n, k) \/ RequestFails(n, k) \/ RequestTimesOut(n, k)
      PROVE  TypeOK'
  BY <1>3, HandleEstablishedTypes, HandleRequestTypes, ClientTypes
<1> QED BY <1>1, <1>2, <1>3, DialTypes, CloseTypes, StepKinds

\* At most one request to each peer.
LEMMA OnceInductive == ASSUME TypeOK, OncePerPeer, [Next]_vars PROVE OncePerPeer'
<1>1. CASE UNCHANGED vars
  BY <1>1, SameAsks DEF vars, SameEnds, Asked
<1>2. ASSUME NEW n \in Node, Start(n) \/ Work(n)
      PROVE  OncePerPeer'
  BY <1>2, SameAsks DEF Start, Work, WorkerAnswers, WorkerSkips, SameEnds, Asked
<1>3. ASSUME NEW n \in Node, SendResponse(n)
      PROVE  OncePerPeer'
  <2>1. Peer(n, wait[n].conn) \in Node /\ wait[n].conn \in Conn
    BY <1>3, WaitsFor, BothEnds DEF SendResponse, TypeOK
  <2>2. \A i \in Node, k \in Conn : Asked(i, k)' <=> Asked(i, k)
    BY <1>3, <2>1 DEF SendResponse, Asked, TypeOK, Types
  <2> QED BY <1>3, <2>2, SameAsks DEF SendResponse, SameEnds
<1>4. ASSUME NEW n \in Node, NEW k \in Mine(n), HandleRequest(n, k)
      PROVE  OncePerPeer'
  BY <1>4, SameAsks DEF HandleRequest, SameEnds, Asked
<1>5. ASSUME NEW n \in Node, NEW k \in Mine(n),
             HandleResponse(n, k) \/ RequestFails(n, k) \/ RequestTimesOut(n, k)
      PROVE  OncePerPeer'
  <2>1. /\ ask[n][k] # "none"
        /\ \E state \in {"done", "failed"} : ask' = [ask EXCEPT ![n][k] = state]
        /\ UNCHANGED <<links, peer_ids>>
    BY <1>5 DEF HandleResponse, RequestFails, RequestTimesOut
  <2>2. \A i \in Node, j \in Conn : Asked(i, j)' <=> Asked(i, j)
    BY <2>1 DEF Asked, TypeOK, Types
  <2> QED BY <2>1, <2>2, SameAsks DEF SameEnds
<1>6. ASSUME NEW k \in DOMAIN links, Close(k)
      PROVE  OncePerPeer'
  BY <1>6, CutLinks, SameAsks DEF Close, Cut, Asked, TypeOK
<1>7. ASSUME NEW n \in Node, Stop(n) \/ ReplyDropped(n)
      PROVE  OncePerPeer'
  BY <1>7, EndOnce DEF Stop, ReplyDropped
<1> QED BY <1>1, <1>2, <1>3, <1>4, <1>5, <1>6, <1>7, DialOnce, SendRequestOnce, StepKinds

\* Each request in one place.
LEMMA PlacesInductive == ASSUME TypeOK, RequestInOnePlace, [Next]_vars PROVE RequestInOnePlace'
<1>1. CASE UNCHANGED vars
  BY <1>1, SamePlaces DEF vars, SameEnds, Serves
<1>2. ASSUME NEW n \in Node, Start(n)
      PROVE  RequestInOnePlace'
  BY <1>2, SamePlaces DEF Start, SameEnds, Serves
<1>3. ASSUME NEW n \in Node, Stop(n) \/ ReplyDropped(n)
      PROVE  RequestInOnePlace'
  BY <1>3, EndPlaces DEF Stop, ReplyDropped
<1> QED BY <1>1, <1>2, <1>3, SendResponsePlaces, WorkPlaces, SendRequestPlaces, HandleRequestPlaces,
           ClientPlaces, DialPlaces, ClosePlaces, StepKinds

\* Without faults nothing is dropped, and no busy connection closed.
LEMMA LostInductive == ASSUME TypeOK, NothingLost, [Next]_vars PROVE NothingLost'
<1>1. ASSUME ~DbFaults, NEW i \in Node PROVE wait'[i].reply # "dropped"
  <2>1. wait[i].reply # "dropped" /\ NoRequest.reply # "dropped"
    BY <1>1 DEF NothingLost, NoRequest
  <2>2. CASE UNCHANGED vars
    BY <2>1, <2>2 DEF vars
  <2>3. ASSUME NEW n \in Node, Start(n) \/ Stop(n) \/ SendResponse(n) \/ ReplyDropped(n)
        PROVE  wait'[i].reply # "dropped"
    <3>1. wait' \in {wait, [wait EXCEPT ![n] = NoRequest]}
      BY <2>3 DEF Start, Stop, SendResponse, ReplyDropped, End
    <3> QED BY <2>1, <3>1, SMTT(30) DEF TypeOK, Types
  <2>4. ASSUME NEW n \in Node, Work(n)
        PROVE  wait'[i].reply # "dropped"
    <3>1. wait[n] = Waiting(wait[n].conn, wait[n].reply) /\ wait' = [wait EXCEPT ![n].reply = "answered"]
      BY <1>1, <2>4, WaitsFor DEF Work, WorkerAnswers, WorkerSkips
    <3> QED BY <2>1, <3>1 DEF Waiting, TypeOK, Types
  <2>5. ASSUME NEW n \in Node, NEW k \in Mine(n),
               \/ HandleEstablished(n, k) \/ HandleRequest(n, k)
               \/ HandleResponse(n, k) \/ RequestFails(n, k) \/ RequestTimesOut(n, k)
        PROVE  wait'[i].reply # "dropped"
    BY <2>1, <2>5, SMTT(30) DEF HandleEstablished, HandleRequest, HandleResponse, RequestFails, RequestTimesOut,
                      Waiting, TypeOK, Types
  <2>6. ASSUME NEW n \in Node, NEW m \in Node, Dial(n, m)
        PROVE  wait'[i].reply # "dropped"
    BY <2>1, <2>6 DEF Dial
  <2>7. ASSUME NEW k \in DOMAIN links, Close(k)
        PROVE  wait'[i].reply # "dropped"
    BY <2>1, <2>7 DEF Close
  <2> QED BY <2>2, <2>3, <2>4, <2>5, <2>6, <2>7, StepKinds
<1>2. ASSUME ~DbFaults, ~NetFaults, NEW k \in DOMAIN links'
      PROVE  links'[k].live \/ Quiet(k)'
  <2> DEFINE Stays ==
        /\ links'[k].ends = links[k].ends
        /\ links'[k].live <=> links[k].live
        /\ \A n \in Node :
             /\ seen[n] \subseteq seen'[n]
             /\ ask'[n][k] \in {"sent", "answered"} =>
                  ask[n][k] \in {"sent", "answered"} \/ links[k].live \/ k \notin seen[n]
  <2> k \in Conn
    BY TypesInductive, MaxDialsAssumption DEF TypeOK, Links, Conn
  <2>1. ASSUME k \in DOMAIN links, Stays
        PROVE  links'[k].live \/ Quiet(k)'
    <3>1. links[k].ends \subseteq Node
      BY <2>1 DEF TypeOK, Links
    <3> QED BY <1>2, <2>1, <3>1 DEF NothingLost, Quiet
  <2>2. CASE UNCHANGED vars
    BY <2>1, <2>2 DEF vars
  <2>3. ASSUME NEW n \in Node, Start(n) \/ Work(n)
        PROVE  links'[k].live \/ Quiet(k)'
    BY <2>1, <2>3 DEF Start, Work, WorkerAnswers, WorkerSkips
  <2>4. ASSUME NEW n \in Node, Stop(n) \/ ReplyDropped(n)
        PROVE  FALSE
    BY <1>2, <2>4 DEF Stop, ReplyDropped, NothingLost
  <2>5. ASSUME NEW n \in Node, SendResponse(n)
        PROVE  links'[k].live \/ Quiet(k)'
    <3>1. /\ links' = links /\ seen' = seen
          /\ ask' \in {ask, [ask EXCEPT ![Peer(n, wait[n].conn)][wait[n].conn] = "answered"]}
          /\ ask' # ask => links[wait[n].conn].live
      BY <2>5 DEF SendResponse
    <3>2. Peer(n, wait[n].conn) \in Node /\ wait[n].conn \in Conn
      BY <2>5, WaitsFor, BothEnds DEF SendResponse, TypeOK
    <3>3. PICK j \in Conn, m \in Node :
            ask' = ask \/ (ask' = [ask EXCEPT ![m][j] = "answered"] /\ links[j].live)
      BY <3>1, <3>2
    <3>4. \A i \in Node : ask'[i][k] = ask[i][k] \/ links[k].live
      BY <3>3 DEF TypeOK, Types
    <3> QED BY <2>1, <3>1, <3>4
  <2>6. ASSUME NEW n \in Node, NEW j \in Mine(n), HandleEstablished(n, j) \/ HandleRequest(n, j)
        PROVE  links'[k].live \/ Quiet(k)'
    <3>1. links' = links /\ \A i \in Node : seen[i] \subseteq seen'[i]
      BY <2>6 DEF HandleEstablished, HandleRequest, TypeOK, Types
    <3>2. j \in Conn
      BY BothEnds DEF TypeOK
    <3>3. ask' = ask \/ (ask' = [ask EXCEPT ![n][j] = "sent"] /\ j \notin seen[n])
      BY <2>6 DEF HandleEstablished, HandleRequest, SendRequest
    <3>4. \A i \in Node : ask'[i][k] = ask[i][k] \/ (i = n /\ k = j /\ k \notin seen[i])
      BY <3>2, <3>3 DEF TypeOK, Types
    <3> QED BY <2>1, <3>1, <3>4
  <2>7. ASSUME NEW n \in Node, NEW j \in Mine(n),
               HandleResponse(n, j) \/ RequestFails(n, j) \/ RequestTimesOut(n, j)
        PROVE  links'[k].live \/ Quiet(k)'
    <3>1. links' = links /\ seen' = seen
          /\ \E state \in {"done", "failed"} : ask' = [ask EXCEPT ![n][j] = state]
      BY <2>7 DEF HandleResponse, RequestFails, RequestTimesOut
    <3>2. \A i \in Node : ask'[i][k] = ask[i][k] \/ ask'[i][k] \in {"done", "failed"}
      BY <3>1 DEF TypeOK, Types
    <3> QED BY <2>1, <3>1, <3>2
  <2>8. ASSUME NEW n \in Node, NEW m \in Node, Dial(n, m)
        PROVE  links'[k].live \/ Quiet(k)'
    <3>1. /\ DOMAIN links' = DOMAIN links \cup {Len(links) + 1}
          /\ \A j \in DOMAIN links : links'[j] = links[j]
          /\ links'[Len(links) + 1].live
          /\ UNCHANGED <<seen, ask>>
      BY <2>8, NewLink DEF Dial, TypeOK
    <3> QED BY <2>1, <3>1
  <2>9. ASSUME NEW j \in DOMAIN links, Close(j)
        PROVE  links'[k].live \/ Quiet(k)'
    <3>1. /\ SameEnds
          /\ \A i \in DOMAIN links : links'[i].live <=> links[i].live /\ i \notin {j}
          /\ UNCHANGED <<seen, ask>>
      BY <2>9, CutLinks DEF Close, Cut, TypeOK
    <3>2. Quiet(j)
      BY <1>2, <2>9 DEF Close
    <3>3. Quiet(j)'
      BY <3>1, <3>2 DEF Quiet, SameEnds
    <3> QED BY <2>1, <3>1, <3>3 DEF SameEnds
  <2> QED BY <2>2, <2>3, <2>4, <2>5, <2>6, <2>7, <2>8, <2>9, StepKinds
<1> QED BY <1>1, <1>2 DEF NothingLost

\* All four together.
LEMMA NodeInvHolds == Spec => []NodeInv
<1>1. Init => NodeInv
  <2> SUFFICES ASSUME Init PROVE NodeInv
    OBVIOUS
  <2>1. DOMAIN links = {} /\ \A n : Mine(n) = {}
    BY DEF Init, Mine
  <2>2. OncePerPeer /\ RequestInOnePlace
    BY <2>1 DEF Init, OncePerPeer, RequestInOnePlace
  <2>3. NothingLost
    BY <2>1 DEF Init, NothingLost, NoRequest
  <2> QED BY <2>2, <2>3, InitTypes DEF NodeInv
<1>2. NodeInv /\ [Next]_vars => NodeInv'
  BY TypesInductive, OnceInductive, PlacesInductive, LostInductive DEF NodeInv
<1> QED BY <1>1, <1>2, PTL DEF Spec

\* What a node keeps is about its own connections, and a node that is down
\* keeps nothing, whichever processes and connections end at which moment.
THEOREM NodeTypesHold == Spec => []TypeOK
BY NodeInvHolds, PTL DEF NodeInv

\* peer_ids does what its comment says: over however many connections, a
\* process asks a peer at most once, and has asked those it has recorded.
THEOREM OneRequestPerPeer == Spec => []OncePerPeer
BY NodeInvHolds, PTL DEF NodeInv

\* A request over a live connection is in one place until it is answered or
\* given up, and none is handled that was not asked.
THEOREM RequestsKeepTheirPlace == Spec => []RequestInOnePlace
BY NodeInvHolds, PTL DEF NodeInv

-----------------------------------------------------------------------------
(* The nodes implement PeerExchange.                                       *)

\* What a request's state says of the proof.
Outcome(state) ==
  CASE state \in {"sent", "answered"} -> "asked"
    [] state = "done"                 -> "known"
    [] state = "failed"               -> "lost"

\* Since a peer is asked once, one request decides what is known of its proof.
OneDecides ==
  \A n, m \in Node :
    /\ \A k \in Mine(n) : Peer(n, k) = m /\ Asked(n, k) => Knowledge(n, m) = Outcome(ask[n][k])
    /\ (\A k \in Mine(n) : Peer(n, k) = m => ~Asked(n, k)) => Knowledge(n, m) = "wanted"

\* At most one request decides, because no peer is asked twice.
LEMMA KnowledgeIs == NodeInv => OneDecides
<1> SUFFICES ASSUME NodeInv, NEW n \in Node, NEW m \in Node
             PROVE  /\ \A k \in Mine(n) : Peer(n, k) = m /\ Asked(n, k) => Knowledge(n, m) = Outcome(ask[n][k])
                    /\ (\A k \in Mine(n) : Peer(n, k) = m => ~Asked(n, k)) => Knowledge(n, m) = "wanted"
  BY DEF OneDecides
<1> DEFINE states == {ask[n][k] : k \in {j \in Mine(n) : Peer(n, j) = m}}
<1>1. Knowledge(n, m) = CASE states \cap {"sent", "answered"} # {} -> "asked"
                          [] "done" \in states                     -> "known"
                          [] "failed" \in states                   -> "lost"
                          [] OTHER                                 -> "wanted"
  BY DEF Knowledge
<1>2. ASSUME NEW k \in Mine(n), Peer(n, k) = m, Asked(n, k)
      PROVE  Knowledge(n, m) = Outcome(ask[n][k])
  <2>1. \A j \in Mine(n) : Peer(n, j) = m /\ Asked(n, j) => j = k
    BY <1>2 DEF NodeInv, OncePerPeer
  <2>2. ask[n][k] \in states /\ states \subseteq {"none", ask[n][k]}
    BY <1>2, <2>1 DEF Asked
  <2>3. ask[n][k] \in {"sent", "answered", "done", "failed"}
    BY <1>2, BothEnds DEF NodeInv, TypeOK, Types, AskState, Asked
  <2> HIDE DEF states
  <2>4. CASE ask[n][k] \in {"sent", "answered"}
    <3>1. states \cap {"sent", "answered"} # {} /\ "done" \notin states /\ "failed" \notin states
      BY <2>2, <2>4
    <3> QED BY <1>1, <2>4, <3>1 DEF Outcome
  <2>5. CASE ask[n][k] = "done"
    <3>1. states \cap {"sent", "answered"} = {} /\ "done" \in states /\ "failed" \notin states
      BY <2>2, <2>5
    <3> QED BY <1>1, <2>5, <3>1 DEF Outcome
  <2>6. CASE ask[n][k] = "failed"
    <3>1. states \cap {"sent", "answered"} = {} /\ "done" \notin states /\ "failed" \in states
      BY <2>2, <2>6
    <3> QED BY <1>1, <2>6, <3>1 DEF Outcome
  <2> QED BY <2>3, <2>4, <2>5, <2>6
<1>3. ASSUME \A k \in Mine(n) : Peer(n, k) = m => ~Asked(n, k)
      PROVE  Knowledge(n, m) = "wanted"
  <2>1. states \subseteq {"none"}
    BY <1>3 DEF Asked
  <2> HIDE DEF states
  <2>2. states \cap {"sent", "answered"} = {} /\ "done" \notin states /\ "failed" \notin states
    BY <2>1
  <2> QED BY <1>1, <2>2
<1> QED BY <1>2, <1>3

\* A request that has been made, and no other was, keeps what is known.
LEMMA SameKnowledge ==
  ASSUME OneDecides, OneDecides', NEW n \in Node, NEW m \in Node,
         \A k \in Mine(n) :
           k \in Mine(n)' /\ Peer(n, k)' = Peer(n, k) /\ (Asked(n, k)' <=> Asked(n, k)),
         \A k \in Mine(n)' : Asked(n, k)' => k \in Mine(n),
         \A k \in Mine(n) : Peer(n, k) = m => Outcome(ask'[n][k]) = Outcome(ask[n][k])
  PROVE  Knowledge(n, m)' = Knowledge(n, m)
<1>1. CASE \E k \in Mine(n) : Peer(n, k) = m /\ Asked(n, k)
  <2>1. PICK k \in Mine(n) : Peer(n, k) = m /\ Asked(n, k)
    BY <1>1
  <2>2. Knowledge(n, m) = Outcome(ask[n][k])
    BY <2>1 DEF OneDecides
  <2>3. Knowledge(n, m)' = Outcome(ask'[n][k])
    BY <2>1 DEF OneDecides
  <2> QED BY <2>1, <2>2, <2>3
<1>2. CASE \A k \in Mine(n) : Peer(n, k) = m => ~Asked(n, k)
  BY <1>2 DEF OneDecides
<1> QED BY <1>1, <1>2

\* A request of n gets another state.
Turns(n, k, state) == ask' = [ask EXCEPT ![n][k] = state] /\ links' = links

\* What n then knows of the proof, before and after.
LEMMA RequestMoves ==
  ASSUME NodeInv, OneDecides, OneDecides', NEW n \in Node, NEW k \in Mine(n),
         NEW state \in {"sent", "answered", "done", "failed"}, Turns(n, k, state),
         ask[n][k] = "none" => Peer(n, k) \notin peer_ids[n]
  PROVE  /\ Knowledge(n, Peer(n, k)) = (IF ask[n][k] = "none" THEN "wanted" ELSE Outcome(ask[n][k]))
         /\ \A i, m \in Node :
              Knowledge(i, m)' = IF i = n /\ m = Peer(n, k) THEN Outcome(state) ELSE Knowledge(i, m)
<1>1. k \in Conn /\ Peer(n, k) \in Node
  BY BothEnds DEF NodeInv, TypeOK
<1>2. ask'[n][k] = state
  BY <1>1 DEF Turns, NodeInv, TypeOK, Types
<1>3. ASSUME NEW i \in Node, NEW j \in Mine(i), ~(i = n /\ j = k)
      PROVE  ask'[i][j] = ask[i][j]
  <2>1. j \in Conn
    BY BothEnds DEF NodeInv, TypeOK
  <2> QED BY <1>1, <1>3, <2>1 DEF Turns, NodeInv, TypeOK, Types
<1>4. \A i : Mine(i)' = Mine(i) /\ \A j : Peer(i, j)' = Peer(i, j)
  BY DEF Turns, Mine, Peer
<1>5. Knowledge(n, Peer(n, k)) = (IF ask[n][k] = "none" THEN "wanted" ELSE Outcome(ask[n][k]))
  <2>1. CASE ask[n][k] = "none"
    <3>1. \A j \in Mine(n) : Peer(n, j) = Peer(n, k) => ~Asked(n, j)
      BY <2>1 DEF NodeInv, OncePerPeer
    <3> QED BY <1>1, <2>1, <3>1 DEF OneDecides
  <2>2. CASE ask[n][k] # "none"
    BY <1>1, <2>2 DEF OneDecides, Asked
  <2> QED BY <2>1, <2>2
<1>6. ASSUME NEW m \in Node, m = Peer(n, k)
      PROVE  Knowledge(n, m)' = Outcome(state)
  <2>1. Asked(n, k)' /\ k \in Mine(n)' /\ Peer(n, k)' = m
    BY <1>2, <1>4, <1>6 DEF Asked
  <2>2. Knowledge(n, m)' = Outcome(ask'[n][k])
    BY <2>1 DEF OneDecides
  <2> QED BY <1>2, <2>2
<1>7. ASSUME NEW i \in Node, NEW m \in Node, ~(i = n /\ m = Peer(n, k))
      PROVE  Knowledge(i, m)' = Knowledge(i, m)
  <2>1. \A j \in Mine(i) : Peer(i, j) = m => ask'[i][j] = ask[i][j]
    BY <1>3, <1>7
  <2>2. {ask[i][j] : j \in {l \in Mine(i) : Peer(i, l) = m}}' = {ask[i][j] : j \in {l \in Mine(i) : Peer(i, l) = m}}
    BY <1>4, <2>1
  <2> QED BY <2>2 DEF Knowledge
<1> QED BY <1>5, <1>6, <1>7

\* The proofs of PeerExchange, as the nodes know of them.
Proofs == [n \in Node |-> [m \in Node |-> Knowledge(n, m)]]

\* A step that changes nothing of what is known of any proof.
KnowsTheSame == \A n, m \in Node : Knowledge(n, m)' = Knowledge(n, m)

\* Nothing the exchange sees changes.
LEMMA Stutters ==
  ASSUME KnowsTheSame, up' = up
  PROVE  UNCHANGED <<up, Proofs>>
BY DEF KnowsTheSame, Proofs

\* A step that changes what one node knows of one proof.
LEMMA Moves ==
  ASSUME NEW n \in Node, NEW m \in Node, NEW to, up' = up,
         \A i, j \in Node : Knowledge(i, j)' = IF i = n /\ j = m THEN to ELSE Knowledge(i, j)
  PROVE  Proofs' = [Proofs EXCEPT ![n][m] = to] /\ Proofs[n][m] = Knowledge(n, m)
BY DEF Proofs

\* Steps that leave the requests alone leave what is known.
LEMMA AsksStay ==
  ASSUME NodeInv, OneDecides, OneDecides', SameEnds, ask' = ask
  PROVE  KnowsTheSame
<1>1. ASSUME NEW n \in Node, NEW m \in Node
      PROVE  Knowledge(n, m)' = Knowledge(n, m)
  <2>1. \A k \in Mine(n) : Peer(n, k)' = Peer(n, k) /\ k \in DOMAIN links
    BY EndsStay DEF Mine
  <2>2. Mine(n)' = Mine(n)
    BY EndsStay
  <2>3. \A k : Asked(n, k)' <=> Asked(n, k)
    BY DEF Asked
  <2> QED BY <2>1, <2>2, <2>3, SameKnowledge
<1> QED BY <1>1 DEF KnowsTheSame

\* So does an answer on its way: only handling it makes the proof known.
LEMMA AnswerStutters ==
  ASSUME NodeInv, OneDecides, OneDecides', NEW n \in Node, NEW k \in Mine(n),
         ask[n][k] = "sent", Turns(n, k, "answered")
  PROVE  KnowsTheSame
<1>1. Knowledge(n, Peer(n, k)) = Outcome(ask[n][k])
  BY RequestMoves
<1>2. /\ Knowledge(n, Peer(n, k)) = (IF ask[n][k] = "none" THEN "wanted" ELSE Outcome(ask[n][k]))
      /\ \A i, j \in Node :
           Knowledge(i, j)' = IF i = n /\ j = Peer(n, k) THEN Outcome("answered") ELSE Knowledge(i, j)
  BY RequestMoves
<1> QED BY <1>1, <1>2 DEF KnowsTheSame, Outcome

\* So does a dial: a new connection has no request.
LEMMA DialStutters ==
  ASSUME NodeInv, OneDecides, OneDecides', NEW n \in Node, NEW m \in Node, Dial(n, m)
  PROVE  KnowsTheSame
<1>1. /\ Len(links) + 1 \notin DOMAIN links
      /\ \A i : Mine(i)' = Mine(i) \cup (IF i \in {n, m} THEN {Len(links) + 1} ELSE {})
      /\ \A i : \A k \in DOMAIN links : Peer(i, k)' = Peer(i, k)
  BY NewLink DEF NodeInv, TypeOK, Dial
<1>2. ask' = ask
  BY DEF Dial
<1>3. ASSUME NEW i \in Node, NEW k, k = Len(links) + 1
      PROVE  ~Asked(i, k)'
  <2>1. k \in Conn
    BY <1>3, MaxDialsAssumption DEF NodeInv, TypeOK, Links, Dial, Conn
  <2> QED BY <1>1, <1>2, <1>3, <2>1 DEF NodeInv, TypeOK, Keeps, Asked, Mine
<1>4. ASSUME NEW i \in Node, NEW j \in Node
      PROVE  Knowledge(i, j)' = Knowledge(i, j)
  <2>1. \A k \in Mine(i) : k \in Mine(i)' /\ Peer(i, k)' = Peer(i, k)
    BY <1>1 DEF Mine
  <2>2. \A k : Asked(i, k)' <=> Asked(i, k)
    BY <1>2 DEF Asked
  <2>3. \A k \in Mine(i)' : Asked(i, k)' => k \in Mine(i)
    BY <1>1, <1>3
  <2> QED BY <1>2, <2>1, <2>2, <2>3, SameKnowledge
<1> QED BY <1>4 DEF KnowsTheSame

\* A process that ends forgets what it knew, and only that.
LEMMA EndForgets ==
  ASSUME NodeInv, OneDecides, OneDecides', NEW n \in Node, End(n)
  PROVE  \A i, m \in Node : Knowledge(i, m)' = IF i = n THEN "wanted" ELSE Knowledge(i, m)
<1>1. SameEnds
  BY CutLinks DEF NodeInv, TypeOK, End
<1>2. \A i : Mine(i)' = Mine(i) /\ \A k \in Mine(i) : Peer(i, k)' = Peer(i, k)
  BY <1>1, EndsStay DEF Mine
<1>3. ASSUME NEW m \in Node PROVE Knowledge(n, m)' = "wanted"
  <2>1. \A k \in Mine(n) : ~Asked(n, k)'
    BY BothEnds DEF End, Asked, NoAsks, NodeInv, TypeOK, Types
  <2> QED BY <1>2, <2>1 DEF OneDecides
<1>4. ASSUME NEW i \in Node, NEW m \in Node, i # n
      PROVE  Knowledge(i, m)' = Knowledge(i, m)
  <2>1. ask'[i] = ask[i]
    BY <1>4 DEF End, NodeInv, TypeOK, Types
  <2>2. \A k : Asked(i, k)' <=> Asked(i, k)
    BY <2>1 DEF Asked
  <2> QED BY <1>2, <2>1, <2>2, SameKnowledge
<1> QED BY <1>3, <1>4

\* Such steps are stutters of the exchange.
LEMMA ExchangeStutters ==
  ASSUME KnowsTheSame, up' = up
  PROVE  [Exchange!Next]_(Exchange!vars)
BY Stutters DEF Proofs, Exchange!vars

\* A step that moves one peer's entry is Ask, Answer or Lose.
LEMMA ExchangeMoves ==
  ASSUME NEW n \in Node, NEW m \in Node, NEW from, NEW to,
         up' = up, up \in [Node -> BOOLEAN], up[n], n # m,
         Knowledge(n, m) = from,
         \A i, j \in Node : Knowledge(i, j)' = IF i = n /\ j = m THEN to ELSE Knowledge(i, j),
         \/ from = "wanted" /\ to = "asked"
         \/ from = "asked" /\ to = "known"
         \/ from = "asked" /\ to = "lost" /\ (NetFaults \/ DbFaults)
  PROVE  [Exchange!Next]_(Exchange!vars)
<1>1. Exchange!Move(n, m, from, to)
  <2>1. Proofs' = [Proofs EXCEPT ![n][m] = to]
    BY Moves
  <2>2. Proofs[n][m] = from
    BY Moves
  <2> QED BY <2>1, <2>2, Zenon DEF Proofs, Exchange!Move
<1>2. Exchange!Ask(n, m) \/ Exchange!Answer(n, m) \/ Exchange!Lose(n, m)
  BY <1>1 DEF Exchange!Ask, Exchange!Answer, Exchange!Lose
<1> QED BY <1>2 DEF Exchange!Next

\* Every step of the nodes is a step of the exchange, or none.
LEMMA ExchangeStep ==
  ASSUME NodeInv, OneDecides, OneDecides', [Next]_vars
  PROVE  [Exchange!Next]_(Exchange!vars)
<1> TypeOK /\ Types
  BY DEF NodeInv, TypeOK
<1> up \in [Node -> BOOLEAN]
  BY DEF Types
<1>1. CASE UNCHANGED vars
  BY <1>1, AsksStay, ExchangeStutters DEF vars, SameEnds
<1>2. ASSUME NEW n \in Node, Start(n)
      PROVE  [Exchange!Next]_(Exchange!vars)
  <2>1. KnowsTheSame /\ up' = [up EXCEPT ![n] = TRUE]
    BY <1>2, AsksStay DEF Start, SameEnds
  <2>2. UNCHANGED Proofs
    BY <2>1 DEF KnowsTheSame, Proofs
  <2>3. Exchange!Start(n)
    BY <2>1, <2>2 DEF Proofs, Exchange!Start
  <2> QED BY <2>3 DEF Exchange!Next
<1>3. ASSUME NEW n \in Node, Stop(n) \/ ReplyDropped(n)
      PROVE  [Exchange!Next]_(Exchange!vars)
  <2>1. End(n) /\ (NetFaults \/ DbFaults)
    BY <1>3 DEF Stop, ReplyDropped, NodeInv, NothingLost
  <2>2. up' = [up EXCEPT ![n] = FALSE]
    BY <2>1 DEF End
  <2>3. Proofs' = [Proofs EXCEPT ![n] = [m \in Node |-> "wanted"]]
    BY <2>1, EndForgets DEF Proofs
  <2>4. Exchange!Stop(n)
    BY <2>1, <2>2, <2>3 DEF Proofs, Exchange!Stop
  <2> QED BY <2>4 DEF Exchange!Next
<1>4. ASSUME NEW n \in Node, Work(n)
      PROVE  [Exchange!Next]_(Exchange!vars)
  BY <1>4, AsksStay, ExchangeStutters DEF Work, WorkerAnswers, WorkerSkips, SameEnds
<1>5. ASSUME NEW n \in Node, SendResponse(n)
      PROVE  [Exchange!Next]_(Exchange!vars)
  <2>1. PICK p \in Node, k \in Conn : k \in Mine(p) /\ p = Peer(n, k) /\ k = wait[n].conn
    BY <1>5, WaitsFor, BothEnds DEF SendResponse, TypeOK
  <2>2. /\ links' = links /\ up' = up
        /\ ask' = ask \/ (ask[p][k] = "sent" /\ ask' = [ask EXCEPT ![p][k] = "answered"])
    BY <1>5, <2>1 DEF SendResponse
  <2>3. CASE ask' = ask
    BY <2>2, <2>3, AsksStay, ExchangeStutters DEF SameEnds
  <2>4. CASE ask[p][k] = "sent" /\ ask' = [ask EXCEPT ![p][k] = "answered"]
    <3>1. KnowsTheSame
      BY <2>1, <2>2, <2>4, AnswerStutters DEF Turns
    <3> QED BY <2>2, <3>1, ExchangeStutters
  <2> QED BY <2>2, <2>3, <2>4
<1>6. ASSUME NEW n \in Node, NEW k \in Mine(n), HandleEstablished(n, k)
      PROVE  [Exchange!Next]_(Exchange!vars)
  <2>1. Peer(n, k) \in Node /\ Peer(n, k) # n /\ k \in Conn
    BY BothEnds DEF TypeOK
  <2>2. up' = up /\ links' = links /\ up[n]
    BY <1>6 DEF HandleEstablished, Polling
  <2>3. CASE UNCHANGED <<peer_ids, ask, inbox>>
    BY <2>2, <2>3, AsksStay, ExchangeStutters DEF SameEnds
  <2>4. CASE Peer(n, k) \notin peer_ids[n] /\ SendRequest(n, k)
    <3>1. ask[n][k] = "none"
      BY <1>6, <2>1 DEF HandleEstablished, TypeOK, Keeps
    <3>2. /\ Knowledge(n, Peer(n, k)) = "wanted"
          /\ \A i, j \in Node :
               Knowledge(i, j)' = IF i = n /\ j = Peer(n, k) THEN Outcome("sent") ELSE Knowledge(i, j)
      BY <2>2, <2>4, <3>1, RequestMoves DEF SendRequest, Turns
    <3>3. Outcome("sent") = "asked"
      BY DEF Outcome
    <3> QED BY <2>1, <2>2, <3>2, <3>3, ExchangeMoves
  <2> QED BY <1>6, <2>3, <2>4 DEF HandleEstablished
<1>7. ASSUME NEW n \in Node, NEW k \in Mine(n), HandleRequest(n, k)
      PROVE  [Exchange!Next]_(Exchange!vars)
  BY <1>7, AsksStay, ExchangeStutters DEF HandleRequest, SameEnds
<1>8. ASSUME NEW n \in Node, NEW k \in Mine(n),
             HandleResponse(n, k) \/ RequestFails(n, k) \/ RequestTimesOut(n, k)
      PROVE  [Exchange!Next]_(Exchange!vars)
  <2>1. Peer(n, k) \in Node /\ Peer(n, k) # n /\ links[k].ends = {n, Peer(n, k)} /\ k \in DOMAIN links
    BY BothEnds DEF TypeOK
  <2>2. up' = up /\ links' = links /\ up[n]
    BY <1>8 DEF HandleResponse, RequestFails, RequestTimesOut, Polling
  <2>3. ask[n][k] \in {"sent", "answered"}
    BY <1>8 DEF HandleResponse, RequestFails, RequestTimesOut
  <2>4. \/ ask' = [ask EXCEPT ![n][k] = "done"]
        \/ ask' = [ask EXCEPT ![n][k] = "failed"] /\ (NetFaults \/ DbFaults)
    <3>1. RequestFails(n, k) => NetFaults \/ DbFaults
      BY <2>1, <2>3 DEF RequestFails, NodeInv, NothingLost, Quiet
    <3> QED BY <1>8, <3>1 DEF HandleResponse, RequestFails, RequestTimesOut
  <2>5. /\ Outcome(ask[n][k]) = "asked"
        /\ Outcome("done") = "known"
        /\ Outcome("failed") = "lost"
    BY <2>3 DEF Outcome
  <2>6. CASE ask' = [ask EXCEPT ![n][k] = "done"]
    <3>1. /\ Knowledge(n, Peer(n, k)) = "asked"
          /\ \A i, j \in Node :
               Knowledge(i, j)' = IF i = n /\ j = Peer(n, k) THEN Outcome("done") ELSE Knowledge(i, j)
      BY <2>2, <2>3, <2>5, <2>6, RequestMoves DEF Turns
    <3> QED BY <2>1, <2>2, <2>5, <3>1, ExchangeMoves
  <2>7. CASE ask' = [ask EXCEPT ![n][k] = "failed"] /\ (NetFaults \/ DbFaults)
    <3>1. /\ Knowledge(n, Peer(n, k)) = "asked"
          /\ \A i, j \in Node :
               Knowledge(i, j)' = IF i = n /\ j = Peer(n, k) THEN Outcome("failed") ELSE Knowledge(i, j)
      BY <2>2, <2>3, <2>5, <2>7, RequestMoves DEF Turns
    <3> QED BY <2>1, <2>2, <2>5, <2>7, <3>1, ExchangeMoves
  <2> QED BY <2>4, <2>6, <2>7
<1>9. ASSUME NEW n \in Node, NEW m \in Node, Dial(n, m)
      PROVE  [Exchange!Next]_(Exchange!vars)
  <2>1. up' = up
    BY <1>9 DEF Dial
  <2> QED BY <1>9, <2>1, DialStutters, ExchangeStutters
<1>10. ASSUME NEW k \in DOMAIN links, Close(k)
       PROVE  [Exchange!Next]_(Exchange!vars)
  <2>1. SameEnds
    BY <1>10, CutLinks DEF Close, Cut, TypeOK
  <2> QED BY <1>10, <2>1, AsksStay, ExchangeStutters DEF Close
<1> QED BY <1>1, <1>2, <1>3, <1>4, <1>5, <1>6, <1>7, <1>8, <1>9, <1>10, StepKinds

\* The nodes keep the promise of PeerExchange: no reconnection, late answer or
\* restart of a peer repeats a request or revives one that was lost, and what
\* is lost was lost to a fault.
THEOREM NodesImplementExchange == Spec => ImplementsPeerExchange
<1>1. Init => Exchange!Init
  <2> SUFFICES ASSUME Init PROVE Exchange!Init
    OBVIOUS
  <2>1. DOMAIN links = {} /\ \A n : Mine(n) = {}
    BY DEF Init, Mine
  <2>2. \A n, m \in Node : {ask[n][k] : k \in {j \in Mine(n) : Peer(n, j) = m}} = {}
    BY <2>1
  <2>3. \A n, m \in Node : Knowledge(n, m) = "wanted"
    BY <2>2 DEF Knowledge
  <2> QED BY <2>3 DEF Init, Exchange!Init
<1>2. NodeInv /\ OneDecides /\ OneDecides' /\ [Next]_vars => [Exchange!Next]_(Exchange!vars)
  BY ExchangeStep
<1> QED BY <1>1, <1>2, NodeInvHolds, KnowledgeIs, PTL DEF Spec, ImplementsPeerExchange, Exchange!Spec
=============================================================================
