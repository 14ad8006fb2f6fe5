--------------------------- MODULE ServerProperties ---------------------------
(***************************************************************************)
(* What makes the proof server correct.                                    *)
(***************************************************************************)
EXTENDS ProofServer, FiniteSets

Entries   == {Entry(c, request) : c \in Conn, request \in Request \cup Invalid}
Responses == {Proof(request) : request \in Request}
Lessons   == {NoValue, Unverified} \cup {ValueOf(frame) : frame \in Frame}
Replies   == {NoReply, Pending, Dropped} \cup {Answered(p) : p \in Responses}

\* Type invariant.  A response is always to a message that converted into a
\* request: one that did not (Invalid) goes no further than the proof task, and
\* no one-shot channel and no socket ever holds a response to it.
TypeOK ==
  /\ up \in BOOLEAN
  /\ stream \in [Conn -> {"none", "reading", "waiting", "closed"}]
  /\ inbox \in [Conn -> Seq(Frame)]
  /\ outbox \in [Conn -> Seq(Responses)]
  /\ reply \in [Conn -> Replies]
  /\ queue \in Seq(Entries)
  /\ worker \in {Idle} \cup Entries
  /\ sent \in [Conn -> Seq(Frame)]
  /\ got \in [Conn -> Seq(Lessons)]
  /\ gone \in [Conn -> BOOLEAN]

\* The places where the request of connection c can be while it waits.
Places(c) ==
  {<<"queue", i>> : i \in {j \in DOMAIN queue : queue[j].from = c}}
    \cup (IF worker # Idle /\ worker.from = c THEN {<<"worker">>} ELSE {})
    \cup (IF reply[c].state \in {"answered", "dropped"} THEN {<<"reply">>} ELSE {})

\* A connection that waits has one request, in one place: in the queue, with
\* the task that owns the trie, or answered or dropped.  One that does not
\* wait has none, so the queue, unbounded as it is, never holds more than one
\* request per connection, and no answer is left over for a later request.
OneRequestEach ==
  \A c \in Conn : IF stream[c] = "waiting"
                  THEN Cardinality(Places(c)) = 1 /\ reply[c] # NoReply
                  ELSE Places(c) = {} /\ reply[c] = NoReply

\* A request is answered or its connection closed, whatever else is asked of
\* the server: a request that is skipped does not leave anyone waiting.
Settled(c, n) == Len(got[c]) >= n \/ stream[c] = "closed" \/ gone[c]

RequestsSettled ==
  \A c \in Conn, n \in 1 .. MaxSent : Len(sent[c]) >= n ~> Settled(c, n)

\* The server ends the task of a client that has left, also of one that left
\* while its request was in the queue.
ConnectionsFreed == \A c \in Conn : gone[c] ~> stream[c] = "closed"

\* What a version says about a request.
Truth(request) == IF request \in Held THEN ValueOf(request) ELSE NoValue

Service == INSTANCE ProofService WITH
             Fact    <- Truth,
             asked   <- sent,
             open    <- [c \in Conn |-> stream[c] # "closed"],
             left    <- gone,
             MayFail <- Faults

\* The server keeps the promise: every client learns from verified proofs what
\* the versions it names hold under its keys, in the order of its requests, and
\* none is disconnected for what another asked.
ImplementsProofService == Service!Spec
=============================================================================
