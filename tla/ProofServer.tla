----------------------------- MODULE ProofServer -----------------------------
(***************************************************************************)
(* The TCP proof server, src/examples/tcp_server.rs, and its clients.      *)
(* Every connection has a task of its own (process_stream) which reads a   *)
(* request, puts it into one unbounded queue together with the sender of a *)
(* one-shot channel, and waits for that channel; one task                  *)
(* (process_proof_request) owns the trie and works the queue off.          *)
(*                                                                         *)
(* The trie is committed before the server listens and never changed       *)
(* after, so that a request has one proof: get_proof is modelled in Trie.  *)
(* The repository's client, src/examples/tcp_client.rs, sends one request  *)
(* on its connection; the server reads on, so a client here may send       *)
(* several, and need not wait for an answer first.                         *)
(***************************************************************************)
EXTENDS Naturals, Sequences

CONSTANTS Conn,     \* connections: every client opens one
          Request,  \* requests for a root hash of 32 bytes and a UTF-8 key
          Held,     \* the requests whose version holds the key
          Invalid,  \* messages that decode as a ProofRequest, but are no such request
          Garbled,  \* frames that do not decode
          Faults,   \* get_proof and accept may return an error
          MaxSent   \* bound on the frames a client sends

ASSUME FramesAssumption ==
  Request \cap Invalid = {} /\ Request \cap Garbled = {} /\ Invalid \cap Garbled = {}
ASSUME HeldAssumption == Held \subseteq Request
ASSUME ServerFaultsAssumption == Faults \in BOOLEAN
ASSUME MaxSentAssumption == MaxSent \in Nat

Frame == Request \cup Invalid \cup Garbled

VARIABLES
  up,      \* main has not returned
  stream,  \* where each connection's process_stream is
  inbox,   \* frames on their way to the server
  outbox,  \* responses written that the client has not taken
  reply,   \* the one-shot channel a connection waits for
  queue,   \* the channel of requests
  worker,  \* the request process_proof_request has taken
  sent,    \* what each client has sent,
  got,     \* what it has learnt from the responses,
  gone     \* and whether it has closed its connection (FIN or reset)

vars == <<up, stream, inbox, outbox, reply, queue, worker, sent, got, gone>>

Idle  == [state |-> "idle"]
Entry(c, request) == [state |-> "busy", from |-> c, request |-> request]

NoReply     == [state |-> "none"]
Pending     == [state |-> "pending"]
Dropped     == [state |-> "dropped"]
Answered(p) == [state |-> "answered", proof |-> p]

\* What get_proof returns for a request, as a response.
Proof(request) == [exists |-> request \in Held, proof_of |-> request]

\* What a client learns: a value that verify_proof finds in the proof, or that
\* there is none.  A proof has the nodes of its own request's path.
ValueOf(request) == [value_of |-> request]
NoValue          == [value_of |-> "none"]
Unverified       == [value_of |-> "unverified"]

Learnt(request, response) ==
  IF ~response.exists THEN NoValue
  ELSE IF response.proof_of = request THEN ValueOf(request) ELSE Unverified

Init ==
  /\ up = TRUE
  /\ stream = [c \in Conn |-> "none"]
  /\ inbox = [c \in Conn |-> <<>>]
  /\ outbox = [c \in Conn |-> <<>>]
  /\ reply = [c \in Conn |-> NoReply]
  /\ queue = <<>>
  /\ worker = Idle
  /\ sent = [c \in Conn |-> <<>>]
  /\ got = [c \in Conn |-> <<>>]
  /\ gone = [c \in Conn |-> FALSE]

-----------------------------------------------------------------------------
(* Clients.                                                                *)

\* The listener accepts a connection and starts its task.
Accept(c) ==
  /\ up
  /\ stream[c] = "none"
  /\ stream' = [stream EXCEPT ![c] = "reading"]
  /\ UNCHANGED <<up, inbox, outbox, reply, queue, worker, sent, got, gone>>

Send(c, frame) ==
  /\ stream[c] \in {"reading", "waiting"}
  /\ ~gone[c]
  /\ Len(sent[c]) < MaxSent
  /\ sent' = [sent EXCEPT ![c] = Append(@, frame)]
  /\ inbox' = [inbox EXCEPT ![c] = Append(@, frame)]
  /\ UNCHANGED <<up, stream, outbox, reply, queue, worker, got, gone>>

\* A client takes the next response for that to the first request it has no
\* response to, and verifies the proof against this request.
ClientReceive(c) ==
  /\ ~gone[c]
  /\ outbox[c] # <<>>
  /\ Len(got[c]) < Len(sent[c])
  /\ got' = [got EXCEPT ![c] = Append(@, Learnt(sent[c][Len(@) + 1], Head(outbox[c])))]
  /\ outbox' = [outbox EXCEPT ![c] = Tail(@)]
  /\ UNCHANGED <<up, stream, inbox, reply, queue, worker, sent, gone>>

\* A client closes or resets its connection: what it sent may still arrive, and
\* it takes no more responses.
Leave(c) ==
  /\ stream[c] # "none"
  /\ ~gone[c]
  /\ gone' = [gone EXCEPT ![c] = TRUE]
  /\ inbox' \in {inbox, [inbox EXCEPT ![c] = <<>>]}
  /\ UNCHANGED <<up, stream, outbox, reply, queue, worker, sent, got>>

-----------------------------------------------------------------------------
(* process_stream                                                          *)

\* process_stream returns: the socket is closed, and if it is closed with
\* frames unread, what was written last may not arrive either.
HangUp(c, unread) ==
  /\ stream' = [stream EXCEPT ![c] = "closed"]
  /\ inbox' = [inbox EXCEPT ![c] = <<>>]
  /\ reply' = [reply EXCEPT ![c] = NoReply]
  /\ \/ UNCHANGED outbox
     \/ unread # <<>> /\ outbox' = [outbox EXCEPT ![c] = <<>>]
  /\ UNCHANGED <<up, queue, worker, sent, got, gone>>

ReadRequest(c) ==
  /\ stream[c] = "reading"
  /\ inbox[c] # <<>>
  /\ Head(inbox[c]) \notin Garbled
  /\ stream' = [stream EXCEPT ![c] = "waiting"]
  /\ inbox' = [inbox EXCEPT ![c] = Tail(@)]
  /\ reply' = [reply EXCEPT ![c] = Pending]
  /\ queue' = Append(queue, Entry(c, Head(inbox[c])))
  /\ UNCHANGED <<up, outbox, worker, sent, got, gone>>

ReadGarbled(c) ==
  /\ stream[c] = "reading"
  /\ inbox[c] # <<>>
  /\ Head(inbox[c]) \in Garbled
  /\ HangUp(c, Tail(inbox[c]))

\* Faulty variant: the end of the stream is not noticed.
ReadEnd_Unnoticed(c) == FALSE

ReadEnd(c) ==
  /\ stream[c] = "reading"
  /\ inbox[c] = <<>>
  /\ gone[c]
  /\ HangUp(c, <<>>)

\* The response is written, whether or not the client is still there.
Respond(c) ==
  /\ stream[c] = "waiting"
  /\ reply[c].state = "answered"
  /\ stream' = [stream EXCEPT ![c] = "reading"]
  /\ reply' = [reply EXCEPT ![c] = NoReply]
  /\ outbox' = [outbox EXCEPT ![c] = Append(@, reply[c].proof)]
  /\ UNCHANGED <<up, inbox, queue, worker, sent, got, gone>>

\* The write fails once the socket knows that the client is gone.
RespondFails(c) ==
  /\ stream[c] = "waiting"
  /\ reply[c].state = "answered"
  /\ gone[c]
  /\ HangUp(c, inbox[c])

\* res_receiver returns Canceled: no answer will come.
ReplyDropped(c) ==
  /\ stream[c] = "waiting"
  /\ reply[c] = Dropped
  /\ HangUp(c, inbox[c])

-----------------------------------------------------------------------------
(* process_proof_request                                                   *)

\* Faulty variant: the request is left in the queue.
WorkerTake_LeavesHead ==
  /\ worker = Idle
  /\ queue # <<>>
  /\ worker' = Head(queue)
  /\ UNCHANGED <<up, stream, inbox, outbox, reply, queue, sent, got, gone>>

WorkerTake ==
  /\ worker = Idle
  /\ queue # <<>>
  /\ worker' = Head(queue)
  /\ queue' = Tail(queue)
  /\ UNCHANGED <<up, stream, inbox, outbox, reply, sent, got, gone>>

\* The task is done with its request: `answer' is what is left in its channel.
Finish(answer) ==
  /\ worker # Idle
  /\ reply' = [reply EXCEPT ![worker.from] = answer]
  /\ worker' = Idle
  /\ UNCHANGED <<up, stream, inbox, outbox, queue, sent, got, gone>>

\* Faulty variant: a message that does not convert is answered too.
WorkerAnswers_Unconverted ==
  /\ worker # Idle
  /\ Finish(Answered(Proof(worker.request)))

\* The proof is sent as the response.
WorkerAnswers ==
  /\ worker # Idle
  /\ worker.request \in Request
  /\ Finish(Answered(Proof(worker.request)))

\* Faulty variants: the sender is kept, so that its receiver waits for ever;
\* an error ends the loop, and every sender in the queue is dropped.
WorkerSkips_KeepsSender ==
  /\ worker # Idle
  /\ worker.request \in Invalid \/ Faults
  /\ Finish(Pending)

WorkerSkips_EndsLoop ==
  /\ worker # Idle
  /\ worker.request \in Invalid \/ Faults
  /\ reply' = [c \in Conn |-> IF reply[c] = Pending THEN Dropped ELSE reply[c]]
  /\ queue' = <<>>
  /\ worker' = Idle
  /\ UNCHANGED <<up, stream, inbox, outbox, sent, got, gone>>

\* `continue': the message is no request or get_proof fails, and the sender of
\* its channel is dropped.
WorkerSkips ==
  /\ worker # Idle
  /\ worker.request \in Invalid \/ Faults
  /\ Finish(Dropped)

-----------------------------------------------------------------------------
(* accept returns an error: main returns, and the runtime drops every task. *)

ServerStops ==
  /\ Faults
  /\ up
  /\ up' = FALSE
  /\ stream' = [c \in Conn |-> IF stream[c] = "none" THEN "none" ELSE "closed"]
  /\ inbox' = [c \in Conn |-> <<>>]
  /\ \E lost \in SUBSET {c \in Conn : inbox[c] # <<>>} :
       outbox' = [c \in Conn |-> IF c \in lost THEN <<>> ELSE outbox[c]]
  /\ reply' = [c \in Conn |-> NoReply]
  /\ queue' = <<>>
  /\ worker' = Idle
  /\ UNCHANGED <<sent, got, gone>>

-----------------------------------------------------------------------------

\* The steps of one connection's task, and of the task that owns the trie.
Serve(c) ==
  ReadRequest(c) \/ ReadGarbled(c) \/ ReadEnd(c) \/ Respond(c) \/ RespondFails(c) \/ ReplyDropped(c)
Work == WorkerTake \/ WorkerAnswers \/ WorkerSkips

Next ==
  \/ \E c \in Conn : Accept(c) \/ ClientReceive(c) \/ Leave(c) \/ Serve(c)
  \/ \E c \in Conn, frame \in Frame : Send(c, frame)
  \/ Work
  \/ ServerStops

Spec == Init /\ [][Next]_vars

\* The runtime polls every task that can go on; what is written arrives.
FairSpec ==
  /\ Spec
  /\ \A c \in Conn : WF_vars(Serve(c)) /\ WF_vars(ClientReceive(c))
  /\ WF_vars(Work)
=============================================================================
