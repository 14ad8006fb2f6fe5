--------------------------- MODULE NodeProperties ---------------------------
(***************************************************************************)
(* What makes the libp2p proof nodes correct.                              *)
(***************************************************************************)
EXTENDS ProofNode

AskState == {"none", "sent", "answered", "done", "failed"}
Reply    == {"pending", "answered", "dropped"}

Link == [ends : SUBSET Node, live : BOOLEAN]

Links ==
  /\ links \in Seq(Link)
  /\ Len(links) <= MaxDials
  /\ \A k \in DOMAIN links : \E n, m \in Node : n # m /\ links[k].ends = {n, m}

Types ==
  /\ up \in [Node -> BOOLEAN]
  /\ starts \in [Node -> 0 .. MaxStarts]
  /\ seen \in [Node -> SUBSET Conn]
  /\ peer_ids \in [Node -> SUBSET Node]
  /\ ask \in [Node -> [Conn -> AskState]]
  /\ inbox \in [Node -> SUBSET Conn]
  /\ wait \in [Node -> {NoRequest} \cup {Waiting(k, reply) : k \in Conn, reply \in Reply}]

\* What a node keeps.
Keeps(n) ==
  /\ seen[n] \cup inbox[n] \subseteq Mine(n)
  /\ \A k \in Conn : ask[n][k] # "none" => k \in seen[n]
  /\ wait[n] # NoRequest => wait[n].conn \in seen[n]
  /\ ~up[n] => /\ peer_ids[n] = {} /\ ask[n] = NoAsks /\ inbox[n] = {} /\ wait[n] = NoRequest
               /\ \A k \in Mine(n) : ~links[k].live

\* Type invariant: what a node keeps is about its own connections; a node that
\* is down keeps nothing, and has no live connection.
TypeOK == Links /\ Types /\ \A n \in Node : Keeps(n)

Asked(n, k) == ask[n][k] # "none"

\* "Use peer_ids to make sure that the proof_request is sent only once": over
\* however many connections two nodes have, dialled by either, at once or one
\* after another, a process asks a peer at most once; and it has asked exactly
\* the peers it has recorded.
OncePerPeer ==
  \A n \in Node :
    /\ peer_ids[n] = {Peer(n, k) : k \in {j \in Mine(n) : Asked(n, j)}}
    /\ \A j, k \in Mine(n) : Asked(n, j) /\ Asked(n, k) /\ Peer(n, j) = Peer(n, k) => j = k

Serves(n, k) == wait[n] # NoRequest /\ wait[n].conn = k

\* While a connection lives, a request sent over it is with the peer, in one
\* place: it has arrived, or the peer's loop waits for it.  And what is there
\* was asked, although its sender may have given up since.
RequestInOnePlace ==
  \A n \in Node : \A k \in Mine(n) :
    LET m == Peer(n, k)
    IN  links[k].live =>
          /\ ask[n][k] = "sent" => (k \in inbox[m] \/ Serves(m, k))
          /\ k \in inbox[m] => ~Serves(m, k)
          /\ k \in inbox[m] \/ Serves(m, k) => ask[n][k] \in {"sent", "failed"}

\* Every request comes to an end, whatever fails: the loop of the peer, which
\* holds up all events while it waits for a proof, gets to it, or the sender
\* learns that the connection is gone.
RequestsSettle ==
  \A n \in Node, k \in Conn : ask[n][k] \in {"sent", "answered"} ~>
                              ask[n][k] \notin {"sent", "answered"}

\* No loop waits for its proof task for ever: nodes that are client and server
\* of each other do not wait in a circle, and a request that is skipped is
\* noticed.
LoopsPoll == \A n \in Node : wait[n] # NoRequest ~> wait[n] = NoRequest

\* "We handle all errors inside the while loop": when the network does its part,
\* an error of the database ends no node.
NodesStayUp == \A n \in Node : starts[n] > 0 => up[n]

\* What a node knows of the proof it wants from a peer.
Knowledge(n, m) ==
  LET states == {ask[n][k] : k \in {j \in Mine(n) : Peer(n, j) = m}}
  IN  CASE states \cap {"sent", "answered"} # {} -> "asked"
        [] "done" \in states                     -> "known"
        [] "failed" \in states                   -> "lost"
        [] OTHER                                 -> "wanted"

\* When nothing fails, nodes that have been connected get each other's proof,
\* whichever of them dialled, and whatever else their loops have to do.
PeersAnswered ==
  \A n, m \in Node : (\E k \in Mine(n) : Peer(n, k) = m) ~> Knowledge(n, m) = "known"

Exchange == INSTANCE PeerExchange WITH
              proofs  <- [n \in Node |-> [m \in Node |-> Knowledge(n, m)]],
              MayFail <- NetFaults \/ DbFaults

\* The nodes keep the promise: reconnections, answers that come too late and
\* restarts of a peer neither repeat a request nor revive one that was lost.
ImplementsPeerExchange == Exchange!Spec
=============================================================================
