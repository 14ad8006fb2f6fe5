------------------------------ MODULE ProofNode ------------------------------
(***************************************************************************)
(* The libp2p proof nodes, src/examples/libp2p_node.  Every node is client *)
(* and server at once: it asks each peer it gets a connection to for one   *)
(* proof, and answers what its peers ask.  All of this is one event loop,  *)
(* which polls the swarm for an event and handles it; a request is handed  *)
(* to the task that owns the trie (process_proof_request), and until that  *)
(* task is done with it the loop polls no further event.                   *)
(*                                                                         *)
(* libp2p is external and modelled by what the loop sees of it: two peers  *)
(* may have several connections; the swarm reports a connection before     *)
(* what arrives over it; a request that times out, cannot be read or loses *)
(* its connection fails, once; a connection without requests is closed     *)
(* after a while.  Nodes are honest: they send requests that convert.      *)
(***************************************************************************)
EXTENDS Naturals, Sequences

CONSTANTS Node,
          DbFaults,   \* get_proof may return an error
          NetFaults,  \* connections break, requests time out, nodes are stopped
          MaxDials,   \* bound on the connections of a behaviour
          MaxStarts   \* bound on the processes a node is run as

ASSUME DbFaultsAssumption == DbFaults \in BOOLEAN
ASSUME NetFaultsAssumption == NetFaults \in BOOLEAN
ASSUME MaxDialsAssumption == MaxDials \in Nat
ASSUME MaxStartsAssumption == MaxStarts \in Nat

Conn == 1 .. MaxDials

VARIABLES
  up,        \* is the node's process running?
  starts,    \* how often it was started, for MaxStarts
  links,     \* the connections so far: their two ends, and whether they are live
  seen,      \* connections whose ConnectionEstablished a node has handled
  peer_ids,  \* the peers a node has asked
  ask,       \* what became of the request a node sent over a connection
  inbox,     \* connections with a request of the peer that the loop has not polled
  wait       \* the request the loop waits for: its connection, its one-shot channel

vars == <<up, starts, links, seen, peer_ids, ask, inbox, wait>>

NoRequest == [reply |-> "none"]
Waiting(k, reply) == [conn |-> k, reply |-> reply]

NoAsks == [k \in Conn |-> "none"]

\* The connections of a node, and the peer at the other end of one.
Mine(n) == {k \in DOMAIN links : n \in links[k].ends}
Peer(n, k) == CHOOSE m \in links[k].ends : m # n

\* The loop is in `swarm.select_next_some()'.
Polling(n) == up[n] /\ wait[n] = NoRequest

Init ==
  /\ up = [n \in Node |-> FALSE]
  /\ starts = [n \in Node |-> 0]
  /\ links = <<>>
  /\ seen = [n \in Node |-> {}]
  /\ peer_ids = [n \in Node |-> {}]
  /\ ask = [n \in Node |-> NoAsks]
  /\ inbox = [n \in Node |-> {}]
  /\ wait = [n \in Node |-> NoRequest]

-----------------------------------------------------------------------------
(* Processes and connections.                                              *)

\* The set-up of main up to the loop; a node that is started again keeps its
\* identity if it has a secret_key_seed.
Start(n) ==
  /\ ~up[n]
  /\ starts[n] < MaxStarts
  /\ up' = [up EXCEPT ![n] = TRUE]
  /\ starts' = [starts EXCEPT ![n] = @ + 1]
  /\ UNCHANGED <<links, seen, peer_ids, ask, inbox, wait>>

\* Connections end.  Of the requests that had arrived over them, a loop may
\* still get the event.
Cut(cut) ==
  /\ links' = [k \in DOMAIN links |->
                 IF k \in cut THEN [links[k] EXCEPT !.live = FALSE] ELSE links[k]]
  /\ \E lost \in SUBSET cut : inbox' = [n \in Node |-> inbox[n] \ lost]

\* main returns or is killed: the task that owns the trie ends, and with the
\* swarm all connections of the node.
End(n) ==
  /\ up' = [up EXCEPT ![n] = FALSE]
  /\ links' = [k \in DOMAIN links |->
                 IF k \in Mine(n) THEN [links[k] EXCEPT !.live = FALSE] ELSE links[k]]
  /\ \E lost \in SUBSET Mine(n) :
       inbox' = [m \in Node |-> IF m = n THEN {} ELSE inbox[m] \ lost]
  /\ seen' = [seen EXCEPT ![n] = Mine(n)]
  /\ peer_ids' = [peer_ids EXCEPT ![n] = {}]
  /\ ask' = [ask EXCEPT ![n] = NoAsks]
  /\ wait' = [wait EXCEPT ![n] = NoRequest]
  /\ UNCHANGED starts

\* The process is killed, or `swarm.dial(..)?' returns an error.
Stop(n) == NetFaults /\ up[n] /\ End(n)

\* A peer that mDNS has discovered, or that was given to dial, is dialled,
\* also if there is a connection to it, and the connection is established.
Dial(n, m) ==
  /\ up[m]
  /\ Polling(n)
  /\ n # m
  /\ Len(links) < MaxDials
  /\ links' = Append(links, [ends |-> {n, m}, live |-> TRUE])
  /\ UNCHANGED <<up, starts, seen, peer_ids, ask, inbox, wait>>

\* Both ends have handled the connection, and none waits for an answer on it.
Quiet(k) ==
  \A n \in links[k].ends : k \in seen[n] /\ ask[n][k] \notin {"sent", "answered"}

\* A connection is closed after its keep-alive, or breaks at any time.
Close(k) ==
  /\ links[k].live
  /\ NetFaults \/ Quiet(k)
  /\ Cut({k})
  /\ UNCHANGED <<up, starts, seen, peer_ids, ask, wait>>

-----------------------------------------------------------------------------
(* The client's side of the event loop.                                    *)

\* send_request over connection k; on a dead connection it goes nowhere.
SendRequest(n, k) ==
  /\ ask' = [ask EXCEPT ![n][k] = "sent"]
  /\ inbox' = IF links[k].live THEN [inbox EXCEPT ![Peer(n, k)] = @ \cup {k}] ELSE inbox

\* Faulty variants: the peer is not looked up in peer_ids; the connection is
\* recorded in place of the peer.
HandleEstablished_AsksAgain(n, k) ==
  /\ Polling(n)
  /\ k \in Mine(n) \ seen[n]
  /\ seen' = [seen EXCEPT ![n] = @ \cup {k}]
  /\ SendRequest(n, k)
  /\ peer_ids' = [peer_ids EXCEPT ![n] = @ \cup {Peer(n, k)}]
  /\ UNCHANGED <<up, starts, links, wait>>

HandleEstablished_RecordsConnection(n, k) ==
  /\ Polling(n)
  /\ k \in Mine(n) \ seen[n]
  /\ seen' = [seen EXCEPT ![n] = @ \cup {k}]
  /\ SendRequest(n, k)
  /\ peer_ids' = [peer_ids EXCEPT ![n] = @ \cup {k}]
  /\ UNCHANGED <<up, starts, links, wait>>

\* ConnectionEstablished: a peer that was not asked yet is asked.
HandleEstablished(n, k) ==
  /\ Polling(n)
  /\ k \in Mine(n) \ seen[n]
  /\ seen' = [seen EXCEPT ![n] = @ \cup {k}]
  /\ \/ /\ Peer(n, k) \in peer_ids[n]
        /\ UNCHANGED <<peer_ids, ask, inbox>>
     \/ /\ Peer(n, k) \notin peer_ids[n]
        /\ SendRequest(n, k)
        /\ peer_ids' = [peer_ids EXCEPT ![n] = @ \cup {Peer(n, k)}]
  /\ UNCHANGED <<up, starts, links, wait>>

\* Message::Response.  An honest peer's proof verifies: ProofSufficient.
HandleResponse(n, k) ==
  /\ Polling(n)
  /\ ask[n][k] = "answered"
  /\ ask' = [ask EXCEPT ![n][k] = "done"]
  /\ UNCHANGED <<up, starts, links, seen, peer_ids, inbox, wait>>

\* Event::OutboundFailure, which the loop ignores: the connection is gone.
RequestFails(n, k) ==
  /\ Polling(n)
  /\ ask[n][k] \in {"sent", "answered"}
  /\ ~links[k].live
  /\ ask' = [ask EXCEPT ![n][k] = "failed"]
  /\ UNCHANGED <<up, starts, links, seen, peer_ids, inbox, wait>>

\* The same for a request that timed out or could not be read.  In the first
\* case the peer may still handle it.
RequestTimesOut(n, k) ==
  /\ NetFaults
  /\ Polling(n)
  /\ ask[n][k] \in {"sent", "answered"}
  /\ ask' = [ask EXCEPT ![n][k] = "failed"]
  /\ inbox' \in {inbox, [inbox EXCEPT ![Peer(n, k)] = @ \ {k}]}
  /\ UNCHANGED <<up, starts, links, seen, peer_ids, wait>>

-----------------------------------------------------------------------------
(* The server's side of the event loop.                                    *)

\* Faulty variant: the loop does not wait, and forgets a request it waits for.
HandleRequest_Overtakes(n, k) ==
  /\ up[n]
  /\ k \in inbox[n] \cap seen[n]
  /\ inbox' = [inbox EXCEPT ![n] = @ \ {k}]
  /\ wait' = [wait EXCEPT ![n] = Waiting(k, "pending")]
  /\ UNCHANGED <<up, starts, links, seen, peer_ids, ask>>

\* Message::Request: it is put into the queue, which is empty since only this
\* loop fills it, and the loop waits for the answer.
HandleRequest(n, k) ==
  /\ Polling(n)
  /\ k \in inbox[n] \cap seen[n]
  /\ inbox' = [inbox EXCEPT ![n] = @ \ {k}]
  /\ wait' = [wait EXCEPT ![n] = Waiting(k, "pending")]
  /\ UNCHANGED <<up, starts, links, seen, peer_ids, ask>>

\* Faulty variant: the answer goes into the wrong place, none is sent.
SendResponse_Unsent(n) ==
  /\ wait[n].reply = "answered"
  /\ wait' = [wait EXCEPT ![n] = NoRequest]
  /\ UNCHANGED <<up, starts, links, seen, peer_ids, ask, inbox>>

\* Faulty variant: an answer is taken for a request that has failed.
SendResponse_Late(n) ==
  /\ wait[n].reply = "answered"
  /\ LET k == wait[n].conn
         m == Peer(n, k)
     IN  ask' = IF links[k].live THEN [ask EXCEPT ![m][k] = "answered"] ELSE ask
  /\ wait' = [wait EXCEPT ![n] = NoRequest]
  /\ UNCHANGED <<up, starts, links, seen, peer_ids, inbox>>

\* The answer goes to the peer that asked, if it can still take it.
SendResponse(n) ==
  /\ wait[n].reply = "answered"
  /\ LET k == wait[n].conn
         m == Peer(n, k)
     IN  ask' = IF links[k].live /\ ask[m][k] = "sent"
                THEN [ask EXCEPT ![m][k] = "answered"]
                ELSE ask
  /\ wait' = [wait EXCEPT ![n] = NoRequest]
  /\ UNCHANGED <<up, starts, links, seen, peer_ids, inbox>>

\* `res_receiver.await?': the sender was dropped, and main returns.
ReplyDropped(n) == wait[n].reply = "dropped" /\ End(n)

-----------------------------------------------------------------------------
(* process_proof_request                                                   *)

WorkerAnswers(n) ==
  /\ wait[n].reply = "pending"
  /\ wait' = [wait EXCEPT ![n].reply = "answered"]
  /\ UNCHANGED <<up, starts, links, seen, peer_ids, ask, inbox>>

\* Faulty variant: the sender is kept, and the loop waits for ever.
WorkerSkips_KeepsSender(n) ==
  /\ DbFaults
  /\ wait[n].reply = "pending"
  /\ wait' = [wait EXCEPT ![n].reply = "forgotten"]
  /\ UNCHANGED <<up, starts, links, seen, peer_ids, ask, inbox>>

\* `continue': get_proof fails, and the sender is dropped.
WorkerSkips(n) ==
  /\ DbFaults
  /\ wait[n].reply = "pending"
  /\ wait' = [wait EXCEPT ![n].reply = "dropped"]
  /\ UNCHANGED <<up, starts, links, seen, peer_ids, ask, inbox>>

-----------------------------------------------------------------------------

\* The events a loop handles, and what it does when its wait is over.
Loop(n) ==
  \/ \E k \in Mine(n) :
       HandleEstablished(n, k) \/ HandleResponse(n, k) \/ RequestFails(n, k) \/ HandleRequest(n, k)
  \/ SendResponse(n)
  \/ ReplyDropped(n)
Work(n) == WorkerAnswers(n) \/ WorkerSkips(n)

Next ==
  \/ \E n \in Node : Start(n) \/ Stop(n) \/ Loop(n) \/ Work(n)
  \/ \E n, m \in Node : Dial(n, m)
  \/ \E n \in Node : \E k \in Mine(n) : RequestTimesOut(n, k)
  \/ \E k \in DOMAIN links : Close(k)

Spec == Init /\ [][Next]_vars

\* Every node polls its swarm and its tasks; nobody need dial anybody.
FairSpec == Spec /\ \A n \in Node : WF_vars(Loop(n)) /\ WF_vars(Work(n))
=============================================================================
