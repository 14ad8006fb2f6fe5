----------------------------- MODULE ServerProofs -----------------------------
(***************************************************************************)
(* Theorems about the TCP proof server, for any set of connections and     *)
(* requests, any number of frames, with and without faults: the types, one *)
(* request per connection, and that the server implements ProofService,    *)
(* step by step.                                                           *)
(***************************************************************************)
EXTENDS ServerProperties, FiniteSetTheorems, SequenceTheorems, TLAPS

FromQueue(c) == {i \in DOMAIN queue : queue[i].from = c}
AtWorker(c)  == worker # Idle /\ worker.from = c
Replied(c)   == reply[c].state \in {"answered", "dropped"}

\* OneRequestEach without counting.
OneEach(c) ==
  /\ \A i, j \in FromQueue(c) : i = j
  /\ AtWorker(c) => FromQueue(c) = {}
  /\ Replied(c) => FromQueue(c) = {} /\ ~AtWorker(c)
  /\ stream[c] = "waiting" => /\ reply[c] # NoReply
                              /\ Replied(c) \/ AtWorker(c) \/ FromQueue(c) # {}
  /\ stream[c] # "waiting" => FromQueue(c) = {} /\ ~AtWorker(c) /\ reply[c] = NoReply

\* The request that connection c waits for is this one, wherever it is.
Serves(c, request) ==
  /\ \A i \in FromQueue(c) : queue[i].request = request
  /\ AtWorker(c) => worker.request = request
  /\ reply[c].state = "answered" => request \in Request /\ reply[c].proof = Proof(request)
  /\ reply[c] = Dropped => request \in Invalid \/ Faults

\* The responses o that a client has still to learn are to the requests after
\* those it has learnt the answers g of; Turn is the first without a response.
Answers(g, o, s) ==
  /\ Len(g) + Len(o) <= Len(s)
  /\ \A i \in 1 .. Len(o) : s[Len(g) + i] \in Request /\ o[i] = Proof(s[Len(g) + i])

Turn(g, o) == Len(g) + Len(o) + 1

\* The frames b are the last of s, from the n-th on.
Rest(b, s, n) ==
  /\ Len(b) + n = Len(s) + 1
  /\ \A i \in 1 .. Len(b) : b[i] = s[n + i - 1]

\* From what a client has learnt to what it has just sent, all is in order.
InOrder(c) ==
  ~gone[c] =>
    LET n == Turn(got[c], outbox[c])
    IN  /\ Answers(got[c], outbox[c], sent[c])
        /\ stream[c] = "reading" => Rest(inbox[c], sent[c], n)
        /\ stream[c] = "waiting" => /\ n <= Len(sent[c])
                                    /\ Rest(inbox[c], sent[c], n + 1)
                                    /\ Serves(c, sent[c][n])

\* Before a connection is accepted nothing is on it.
Fresh(c) ==
  stream[c] = "none" => sent[c] = <<>> /\ inbox[c] = <<>> /\ outbox[c] = <<>> /\ ~gone[c]

\* The inductive invariant.
ServerInv == TypeOK /\ \A c \in Conn : Fresh(c) /\ OneEach(c) /\ InOrder(c)

-----------------------------------------------------------------------------
(* The queue.                                                              *)

\* A request joins the end of the queue.
LEMMA QueueAppend ==
  ASSUME queue \in Seq(Entries), NEW e \in Entries, queue' = Append(queue, e)
  PROVE  /\ queue' \in Seq(Entries)
         /\ \A i \in DOMAIN queue : queue'[i] = queue[i]
         /\ queue'[Len(queue) + 1] = e
         /\ Len(queue) + 1 \notin DOMAIN queue
         /\ \A d : FromQueue(d)' = FromQueue(d) \cup (IF e.from = d THEN {Len(queue) + 1} ELSE {})
<1>1. /\ queue' \in Seq(Entries)
      /\ Len(queue') = Len(queue) + 1
      /\ \A i \in 1 .. Len(queue) : queue'[i] = queue[i]
      /\ queue'[Len(queue) + 1] = e
  BY AppendProperties
<1>2. DOMAIN queue = 1 .. Len(queue) /\ DOMAIN queue' = 1 .. Len(queue) + 1 /\ Len(queue) \in Nat
  BY <1>1, LenProperties
<1>3. DOMAIN queue' = DOMAIN queue \cup {Len(queue) + 1} /\ Len(queue) + 1 \notin DOMAIN queue
  BY <1>2
<1> QED BY <1>1, <1>2, <1>3 DEF FromQueue

\* The first request leaves the queue.
LEMMA QueueTail ==
  ASSUME queue \in Seq(Entries), queue # <<>>, queue' = Tail(queue)
  PROVE  /\ queue' \in Seq(Entries)
         /\ 1 \in DOMAIN queue /\ Head(queue) = queue[1] /\ Head(queue) \in Entries
         /\ DOMAIN queue \subseteq Nat
         /\ \A i \in DOMAIN queue' : i \in Nat /\ i + 1 \in DOMAIN queue /\ i + 1 # 1 /\ queue'[i] = queue[i + 1]
         /\ \A i \in DOMAIN queue : i # 1 => i - 1 \in DOMAIN queue' /\ queue'[i - 1] = queue[i]
<1>1. /\ queue' \in Seq(Entries) /\ Head(queue) \in Entries
      /\ Len(queue') = Len(queue) - 1
      /\ \A i \in 1 .. Len(queue') : queue'[i] = queue[i + 1]
  BY HeadTailProperties
<1>2. Len(queue) \in Nat \ {0} /\ DOMAIN queue = 1 .. Len(queue) /\ DOMAIN queue' = 1 .. Len(queue')
  BY <1>1, LenProperties, EmptySeq
<1>3. Head(queue) = queue[1]
  BY DEF Head
<1> QED BY <1>1, <1>2, <1>3

\* A connection has the requests in the queue that it had.
QueueKept(d) ==
  /\ FromQueue(d)' = {} <=> FromQueue(d) = {}
  /\ (\A i, j \in FromQueue(d) : i = j) => (\A i, j \in FromQueue(d)' : i = j)
  /\ \A i \in FromQueue(d)' : \E j \in FromQueue(d) : queue'[i] = queue[j]

\* Another connection's request joins the queue.
LEMMA AppendKeeps ==
  ASSUME queue \in Seq(Entries), NEW e \in Entries, queue' = Append(queue, e), NEW d, e.from # d
  PROVE  QueueKept(d)
<1>1. FromQueue(d)' = FromQueue(d) /\ \A i \in FromQueue(d) : queue'[i] = queue[i]
  BY QueueAppend DEF FromQueue
<1> QED BY <1>1 DEF QueueKept

\* Another connection's request leaves the queue.
LEMMA TailKeeps ==
  ASSUME queue \in Seq(Entries), queue # <<>>, queue' = Tail(queue), NEW d, Head(queue).from # d
  PROVE  QueueKept(d)
<1>1. \A i \in FromQueue(d)' : i \in Nat /\ i + 1 \in FromQueue(d) /\ queue'[i] = queue[i + 1]
  BY QueueTail DEF FromQueue
<1>2. \A i \in FromQueue(d) : i - 1 \in FromQueue(d)'
  BY QueueTail DEF FromQueue
<1>3. FromQueue(d)' = {} <=> FromQueue(d) = {}
  BY <1>1, <1>2
<1>4. ASSUME \A i, j \in FromQueue(d) : i = j, NEW i \in FromQueue(d)', NEW j \in FromQueue(d)'
      PROVE  i = j
  <2>1. i \in Nat /\ j \in Nat /\ i + 1 = j + 1
    BY <1>1, <1>4
  <2> QED BY <2>1
<1> QED BY <1>1, <1>3, <1>4 DEF QueueKept

\* The queue does not change.
LEMMA SameKeeps == ASSUME queue' = queue, NEW d PROVE QueueKept(d)
BY DEF QueueKept, FromQueue

-----------------------------------------------------------------------------
(* What a step leaves alone.                                               *)

\* A connection none of whose parts a step touches.
Untouched(d) ==
  /\ stream'[d] = stream[d] /\ inbox'[d] = inbox[d] /\ outbox'[d] = outbox[d] /\ reply'[d] = reply[d]
  /\ sent'[d] = sent[d] /\ got'[d] = got[d] /\ gone'[d] = gone[d]
  /\ AtWorker(d)' <=> AtWorker(d)
  /\ AtWorker(d) => worker' = worker
  /\ QueueKept(d)

\* So its part of the invariant holds again.
LEMMA UntouchedKeeps ==
  ASSUME NEW d, Untouched(d), OneEach(d), InOrder(d)
  PROVE  OneEach(d)' /\ InOrder(d)'
<1>1. Replied(d)' <=> Replied(d)
  BY DEF Untouched, Replied
<1>2. OneEach(d)'
  BY <1>1 DEF Untouched, QueueKept, OneEach
<1>3. \A n : Serves(d, n) => Serves(d, n)'
  BY DEF Untouched, QueueKept, Serves
<1>4. InOrder(d)'
  BY <1>3 DEF Untouched, InOrder
<1> QED BY <1>2, <1>4

-----------------------------------------------------------------------------
(* The order of requests and responses.                                    *)

\* A frame that is sent joins those not yet read.
LEMMA RestOfSent ==
  ASSUME NEW S, NEW b \in Seq(S), NEW s \in Seq(S), NEW n \in Nat \ {0}, Rest(b, s, n), NEW f \in S
  PROVE  Rest(Append(b, f), Append(s, f), n)
<1>1. /\ Len(Append(b, f)) = Len(b) + 1 /\ \A i \in 1 .. Len(b) : Append(b, f)[i] = b[i]
      /\ Append(b, f)[Len(b) + 1] = f
      /\ Len(Append(s, f)) = Len(s) + 1 /\ \A i \in 1 .. Len(s) : Append(s, f)[i] = s[i]
      /\ Append(s, f)[Len(s) + 1] = f
      /\ Len(b) \in Nat /\ Len(s) \in Nat
  BY AppendProperties, LenProperties
<1>2. PICK x \in Nat, y \in Nat : x = Len(b) /\ y = Len(s)
  BY <1>1
<1>3. x + n = y + 1 /\ \A i \in 1 .. x : b[i] = s[n + i - 1]
  BY <1>2 DEF Rest
<1>4. ASSUME NEW i \in 1 .. x + 1 PROVE Append(b, f)[i] = Append(s, f)[n + i - 1]
  <2>1. CASE i = x + 1
    BY <1>1, <1>2, <1>3, <2>1
  <2>2. CASE i # x + 1
    <3>1. i \in 1 .. x /\ n + i - 1 \in 1 .. y
      BY <1>3, <2>2
    <3> QED BY <1>1, <1>2, <1>3, <3>1
  <2> QED BY <2>1, <2>2
<1>5. Len(Append(b, f)) = x + 1 /\ Len(Append(s, f)) = y + 1
  BY <1>1, <1>2
<1>6. Len(Append(b, f)) + n = Len(Append(s, f)) + 1
  BY <1>3, <1>5
<1> QED BY <1>4, <1>5, <1>6 DEF Rest

\* The first of the frames not yet read is the one whose turn it is.
LEMMA RestOfRead ==
  ASSUME NEW S, NEW b \in Seq(S), NEW s \in Seq(S), NEW n \in Nat \ {0}, Rest(b, s, n), b # <<>>
  PROVE  Rest(Tail(b), s, n + 1) /\ Head(b) = s[n] /\ n <= Len(s)
<1>1. /\ Len(Tail(b)) = Len(b) - 1 /\ \A i \in 1 .. Len(Tail(b)) : Tail(b)[i] = b[i + 1]
      /\ Head(b) = b[1] /\ Len(b) \in Nat \ {0} /\ Len(s) \in Nat
  BY HeadTailProperties, LenProperties, EmptySeq
<1>2. Head(b) = s[n + 1 - 1] /\ n + 1 - 1 = n
  BY <1>1 DEF Rest
<1>3. ASSUME NEW i \in 1 .. Len(Tail(b)) PROVE Tail(b)[i] = s[(n + 1) + i - 1]
  <2>1. i + 1 \in 1 .. Len(b) /\ n + (i + 1) - 1 = (n + 1) + i - 1
    BY <1>1
  <2>2. b[i + 1] = s[n + (i + 1) - 1]
    BY <2>1 DEF Rest
  <2> QED BY <1>1, <2>1, <2>2
<1> QED BY <1>1, <1>2, <1>3 DEF Rest

\* Turns are counted from one.
LEMMA TurnIsNat ==
  ASSUME NEW g, NEW o, Len(g) \in Nat, Len(o) \in Nat
  PROVE  Turn(g, o) \in Nat \ {0}
BY DEF Turn

\* A frame that is sent changes no earlier frame and no answer.
LEMMA AnswersAfterSend ==
  ASSUME NEW S, NEW s \in Seq(S), NEW f \in S, NEW g, NEW o, Len(g) \in Nat, Len(o) \in Nat,
         Answers(g, o, s)
  PROVE  /\ Answers(g, o, Append(s, f))
         /\ Turn(g, o) \in Nat \ {0}
         /\ Turn(g, o) <= Len(s) + 1
         /\ Len(Append(s, f)) = Len(s) + 1
         /\ \A n \in Nat \ {0} : n <= Len(s) => Append(s, f)[n] = s[n]
<1>1. /\ Len(Append(s, f)) = Len(s) + 1 /\ \A i \in 1 .. Len(s) : Append(s, f)[i] = s[i]
      /\ Len(s) \in Nat
  BY AppendProperties, LenProperties
<1>2. Turn(g, o) \in Nat \ {0} /\ Turn(g, o) <= Len(s) + 1
  BY <1>1 DEF Turn, Answers
<1>3. ASSUME NEW i \in 1 .. Len(o) PROVE Append(s, f)[Len(g) + i] = s[Len(g) + i]
  BY <1>1 DEF Answers
<1>4. Answers(g, o, Append(s, f))
  BY <1>1, <1>3 DEF Answers
<1> QED BY <1>1, <1>2, <1>4

\* An answer a client receives is the one to its next request.
LEMMA AnswersAfterReceive ==
  ASSUME NEW S, NEW T, NEW U, NEW g \in Seq(S), NEW o \in Seq(T), NEW s \in Seq(U), NEW x \in S,
         o # <<>>, Answers(g, o, s)
  PROVE  /\ Answers(Append(g, x), Tail(o), s)
         /\ Turn(Append(g, x), Tail(o)) = Turn(g, o)
         /\ s[Len(g) + 1] \in Request
         /\ Head(o) = Proof(s[Len(g) + 1])
<1>1. /\ Len(Append(g, x)) = Len(g) + 1
      /\ Len(Tail(o)) = Len(o) - 1 /\ \A i \in 1 .. Len(Tail(o)) : Tail(o)[i] = o[i + 1]
      /\ Head(o) = o[1] /\ Len(o) \in Nat \ {0} /\ Len(g) \in Nat /\ Len(s) \in Nat
  BY HeadTailProperties, AppendProperties, LenProperties, EmptySeq
<1>2. ASSUME NEW i \in 1 .. Len(Tail(o))
      PROVE  s[Len(Append(g, x)) + i] \in Request /\ Tail(o)[i] = Proof(s[Len(Append(g, x)) + i])
  <2>1. i + 1 \in 1 .. Len(o) /\ Len(Append(g, x)) + i = Len(g) + (i + 1)
    BY <1>1
  <2>2. s[Len(g) + (i + 1)] \in Request /\ o[i + 1] = Proof(s[Len(g) + (i + 1)])
    BY <2>1 DEF Answers
  <2> QED BY <1>1, <2>1, <2>2
<1>3. Len(Append(g, x)) + Len(Tail(o)) = Len(g) + Len(o)
  BY <1>1
<1>4. 1 \in 1 .. Len(o)
  BY <1>1
<1> QED BY <1>1, <1>2, <1>3, <1>4 DEF Answers, Turn

\* An answer that is written is to the request whose turn it is.
LEMMA AnswersAfterRespond ==
  ASSUME NEW T, NEW U, NEW g, Len(g) \in Nat, NEW o \in Seq(T), NEW s \in Seq(U), NEW p \in T,
         Answers(g, o, s), Turn(g, o) <= Len(s), s[Turn(g, o)] \in Request, p = Proof(s[Turn(g, o)])
  PROVE  Answers(g, Append(o, p), s) /\ Turn(g, Append(o, p)) = Turn(g, o) + 1
<1>1. /\ Len(Append(o, p)) = Len(o) + 1 /\ \A i \in 1 .. Len(o) : Append(o, p)[i] = o[i]
      /\ Append(o, p)[Len(o) + 1] = p /\ Len(o) \in Nat /\ Len(s) \in Nat
  BY AppendProperties, LenProperties
<1>2. Turn(g, o) = Len(g) + (Len(o) + 1)
  BY <1>1 DEF Turn
<1>3. Len(g) + (Len(o) + 1) <= Len(s) /\ s[Len(g) + (Len(o) + 1)] \in Request /\ p = Proof(s[Len(g) + (Len(o) + 1)])
  BY <1>2
<1>4. ASSUME NEW i \in 1 .. Len(Append(o, p))
      PROVE  s[Len(g) + i] \in Request /\ Append(o, p)[i] = Proof(s[Len(g) + i])
  <2>1. CASE i \in 1 .. Len(o)
    BY <1>1, <2>1 DEF Answers
  <2>2. CASE i = Len(o) + 1
    BY <1>1, <1>3, <2>2
  <2> QED BY <1>1, <2>1, <2>2
<1>5. Turn(g, Append(o, p)) = Turn(g, o) + 1
  BY <1>1 DEF Turn
<1>6. Len(g) + Len(Append(o, p)) <= Len(s)
  BY <1>1, <1>3
<1> QED BY <1>4, <1>5, <1>6 DEF Answers

\* Answers that are never delivered leave those that were.
LEMMA AnswersLost ==
  ASSUME NEW g, NEW o, NEW s, Len(g) \in Nat, Len(o) \in Nat, Len(s) \in Nat, Answers(g, o, s)
  PROVE  Answers(g, <<>>, s)
<1>1. Len(<<>>) = 0
  OBVIOUS
<1> QED BY <1>1 DEF Answers

-----------------------------------------------------------------------------
(* Clients.                                                                *)

\* One lemma per action.  A connection is accepted with nothing on it.
LEMMA AcceptStep ==
  ASSUME ServerInv, NEW c \in Conn, Accept(c)
  PROVE  ServerInv'
<1>1. TypeOK'
  BY DEF ServerInv, TypeOK, Accept
<1>2. ASSUME NEW d \in Conn PROVE Fresh(d)' /\ OneEach(d)' /\ InOrder(d)'
  <2>1. OneEach(d) /\ InOrder(d) /\ Fresh(d)
    BY DEF ServerInv
  <2>2. CASE d # c
    <3>1. Untouched(d)
      BY <2>2, SameKeeps DEF Accept, Untouched, AtWorker, ServerInv, TypeOK
    <3> QED BY <2>1, <2>2, <3>1, UntouchedKeeps DEF Accept, Fresh, Untouched
  <2>3. CASE d = c
    <3>1. /\ stream[c] = "none" /\ stream'[c] = "reading" /\ up' = up /\ up
          /\ inbox[c] = <<>> /\ outbox[c] = <<>> /\ sent[c] = <<>>
          /\ UNCHANGED <<inbox, outbox, reply, queue, worker, sent, got, gone>>
      BY <2>1, <2>3 DEF Accept, ServerInv, TypeOK, Fresh
    <3>2. Fresh(c)'
      BY <2>1, <2>3, <3>1 DEF Fresh
    <3>3. OneEach(c)'
      BY <2>1, <2>3, <3>1 DEF OneEach, FromQueue, AtWorker, Replied
    <3>4. Len(got[c]) \in Nat /\ Len(<<>>) = 0
      BY LenProperties DEF ServerInv, TypeOK
    <3>5. InOrder(c)'
      <4>1. ASSUME NEW g, g = got[c], Len(g) \in Nat, Answers(g, <<>>, <<>>)
            PROVE  Rest(<<>>, <<>>, Turn(g, <<>>))
        BY <3>4, <4>1 DEF Answers, Rest, Turn
      <4>2. ~gone[c] => Answers(got[c], <<>>, <<>>)
        BY <2>1, <2>3, <3>1 DEF InOrder
      <4> QED BY <3>1, <3>4, <4>1, <4>2 DEF InOrder
    <3> QED BY <2>3, <3>2, <3>3, <3>5
  <2> QED BY <2>2, <2>3
<1> QED BY <1>1, <1>2 DEF ServerInv

\* A client sends a frame.
LEMMA SendStep ==
  ASSUME ServerInv, NEW c \in Conn, NEW frame \in Frame, Send(c, frame)
  PROVE  ServerInv'
<1> TypeOK /\ sent[c] \in Seq(Frame) /\ inbox[c] \in Seq(Frame)
  BY DEF ServerInv, TypeOK
<1>1. /\ sent' = [sent EXCEPT ![c] = Append(sent[c], frame)]
      /\ inbox' = [inbox EXCEPT ![c] = Append(inbox[c], frame)]
      /\ stream[c] # "none" /\ ~gone[c]
      /\ UNCHANGED <<up, stream, outbox, reply, queue, worker, got, gone>>
  BY DEF Send
<1>2. TypeOK'
  BY <1>1, AppendProperties DEF TypeOK
<1>3. ASSUME NEW d \in Conn PROVE Fresh(d)' /\ OneEach(d)' /\ InOrder(d)'
  <2>1. OneEach(d) /\ InOrder(d) /\ Fresh(d)
    BY DEF ServerInv
  <2>2. CASE d # c
    <3>1. Untouched(d)
      BY <1>1, <2>2, SameKeeps DEF Untouched, AtWorker, TypeOK
    <3> QED BY <1>1, <2>1, <3>1, UntouchedKeeps DEF Fresh, Untouched
  <2>3. CASE d = c
    <3>1. Fresh(c)' /\ OneEach(c)'
      BY <1>1, <2>1, <2>3 DEF Fresh, OneEach, FromQueue, AtWorker, Replied
    <3>2. /\ sent'[c] = Append(sent[c], frame) /\ inbox'[c] = Append(inbox[c], frame)
          /\ got'[c] = got[c] /\ outbox'[c] = outbox[c] /\ stream'[c] = stream[c]
      BY <1>1 DEF TypeOK
    <3>3. Len(got[c]) \in Nat /\ Len(outbox[c]) \in Nat
      BY LenProperties DEF TypeOK
    <3>4. \A r : Serves(c, r) => Serves(c, r)'
      BY <1>1 DEF Serves, FromQueue, AtWorker
    <3>5. PICK n : n = Turn(got[c], outbox[c])
      OBVIOUS
    <3>6. /\ Answers(got[c], outbox[c], sent[c])
          /\ stream[c] = "reading" => Rest(inbox[c], sent[c], n)
          /\ stream[c] = "waiting" => n <= Len(sent[c]) /\ Rest(inbox[c], sent[c], n + 1) /\ Serves(c, sent[c][n])
      BY <1>1, <2>1, <2>3, <3>5 DEF InOrder
    <3>7. /\ Answers(got[c], outbox[c], sent'[c])
          /\ n \in Nat \ {0} /\ n + 1 \in Nat \ {0}
          /\ n <= Len(sent[c]) => n <= Len(sent'[c]) /\ sent'[c][n] = sent[c][n]
      <4>1. PICK l \in Nat, m \in Nat : l = Len(sent[c]) /\ m = Len(sent'[c]) /\ m = l + 1
        BY <3>2, AppendProperties, LenProperties
      <4>2. /\ Answers(got[c], outbox[c], sent'[c])
            /\ n \in Nat \ {0}
            /\ \A i \in Nat \ {0} : i <= l => sent'[c][i] = sent[c][i]
        BY <3>2, <3>3, <3>5, <3>6, <4>1, AnswersAfterSend
      <4> QED BY <4>1, <4>2
    <3>8. \A i \in Nat \ {0} : Rest(inbox[c], sent[c], i) => Rest(inbox'[c], sent'[c], i)
      BY <3>2, RestOfSent
    <3> QED BY <2>3, <3>1, <3>2, <3>4, <3>5, <3>6, <3>7, <3>8 DEF InOrder
  <2> QED BY <2>2, <2>3
<1> QED BY <1>2, <1>3 DEF ServerInv

\* A client receives an answer.
LEMMA ClientReceiveStep ==
  ASSUME ServerInv, NEW c \in Conn, ClientReceive(c)
  PROVE  ServerInv'
<1> TypeOK /\ sent[c] \in Seq(Frame) /\ outbox[c] \in Seq(Responses) /\ got[c] \in Seq(Lessons)
  BY DEF ServerInv, TypeOK
<1>1. PICK x : x = Learnt(sent[c][Len(got[c]) + 1], Head(outbox[c]))
  OBVIOUS
<1>2. /\ got' = [got EXCEPT ![c] = Append(got[c], x)]
      /\ outbox' = [outbox EXCEPT ![c] = Tail(outbox[c])]
      /\ ~gone[c] /\ outbox[c] # <<>>
      /\ UNCHANGED <<up, stream, inbox, reply, queue, worker, sent, gone>>
  BY <1>1 DEF ClientReceive
<1>3. x \in Lessons
  <2>1. PICK g \in Nat, l \in Nat : g = Len(got[c]) /\ l = Len(sent[c])
    BY LenProperties
  <2>2. g + 1 \in 1 .. Len(sent[c])
    BY <2>1 DEF ClientReceive
  <2>3. sent[c][Len(got[c]) + 1] \in Frame
    BY <2>1, <2>2, ElementOfSeq
  <2> QED BY <1>1, <2>3 DEF Learnt, Lessons
<1>4. TypeOK'
  BY <1>2, <1>3, AppendProperties, HeadTailProperties DEF TypeOK
<1>5. ASSUME NEW d \in Conn PROVE Fresh(d)' /\ OneEach(d)' /\ InOrder(d)'
  <2>1. OneEach(d) /\ InOrder(d) /\ Fresh(d)
    BY DEF ServerInv
  <2>2. CASE d # c
    <3>1. Untouched(d)
      BY <1>2, <2>2, SameKeeps DEF Untouched, AtWorker, TypeOK
    <3> QED BY <1>2, <2>1, <3>1, UntouchedKeeps DEF Fresh, Untouched
  <2>3. CASE d = c
    <3>1. ~gone[c] /\ stream[c] # "none"
      BY <1>2, <2>1, <2>3 DEF Fresh
    <3>2. Fresh(c)' /\ OneEach(c)'
      BY <1>2, <2>1, <2>3, <3>1 DEF Fresh, OneEach, FromQueue, AtWorker, Replied
    <3>3. got'[c] = Append(got[c], x) /\ outbox'[c] = Tail(outbox[c])
      BY <1>2 DEF TypeOK
    <3>4. Answers(got[c], outbox[c], sent[c])
      BY <2>1, <2>3, <3>1 DEF InOrder
    <3>5. Answers(got'[c], outbox'[c], sent[c]) /\ Turn(got'[c], outbox'[c]) = Turn(got[c], outbox[c])
      BY <1>2, <1>3, <3>3, <3>4, AnswersAfterReceive
    <3>6. \A r : Serves(c, r) => Serves(c, r)'
      BY <1>2 DEF Serves, FromQueue, AtWorker
    <3>7. InOrder(c)'
      BY <1>2, <2>1, <2>3, <3>1, <3>5, <3>6 DEF InOrder
    <3> QED BY <2>3, <3>2, <3>7
  <2> QED BY <2>2, <2>3
<1> QED BY <1>4, <1>5 DEF ServerInv

\* A client leaves, and takes no more responses.
LEMMA LeaveStep ==
  ASSUME ServerInv, NEW c \in Conn, Leave(c)
  PROVE  ServerInv'
<1> TypeOK
  BY DEF ServerInv
<1>1. /\ gone' = [gone EXCEPT ![c] = TRUE]
      /\ inbox' \in {inbox, [inbox EXCEPT ![c] = <<>>]}
      /\ stream[c] # "none"
      /\ UNCHANGED <<up, stream, outbox, reply, queue, worker, sent, got>>
  BY DEF Leave
<1>2. TypeOK'
  <2>1. inbox' \in [Conn -> Seq(Frame)]
    BY <1>1, EmptySeq DEF TypeOK
  <2> QED BY <1>1, <2>1 DEF TypeOK
<1>3. ASSUME NEW d \in Conn PROVE Fresh(d)' /\ OneEach(d)' /\ InOrder(d)'
  <2>1. OneEach(d) /\ InOrder(d) /\ Fresh(d)
    BY DEF ServerInv
  <2>2. CASE d # c
    <3>1. inbox'[d] = inbox[d]
      BY <1>1, <2>2 DEF TypeOK
    <3>2. Untouched(d)
      BY <1>1, <2>2, <3>1, SameKeeps DEF Untouched, AtWorker, TypeOK
    <3> QED BY <1>1, <2>1, <3>2, UntouchedKeeps DEF Fresh, Untouched
  <2>3. CASE d = c
    BY <1>1, <2>1, <2>3 DEF TypeOK, Fresh, OneEach, FromQueue, AtWorker, Replied, InOrder
  <2> QED BY <2>2, <2>3
<1> QED BY <1>2, <1>3 DEF ServerInv

-----------------------------------------------------------------------------
(* process_stream.                                                         *)

\* A connection ends with its request answered, dropped, or not asked.
LEMMA HangUpStep ==
  ASSUME ServerInv, NEW c \in Conn, NEW unread, HangUp(c, unread),
         stream[c] = "reading" \/ (stream[c] = "waiting" /\ Replied(c))
  PROVE  ServerInv'
<1> TypeOK
  BY DEF ServerInv
<1>1. /\ stream' = [stream EXCEPT ![c] = "closed"]
      /\ inbox' = [inbox EXCEPT ![c] = <<>>]
      /\ reply' = [reply EXCEPT ![c] = NoReply]
      /\ outbox' \in {outbox, [outbox EXCEPT ![c] = <<>>]}
      /\ UNCHANGED <<up, queue, worker, sent, got, gone>>
  BY DEF HangUp
<1>2. TypeOK'
  <2>1. outbox' \in [Conn -> Seq(Responses)]
    BY <1>1, EmptySeq DEF TypeOK
  <2>2. inbox' \in [Conn -> Seq(Frame)]
    BY <1>1, EmptySeq DEF TypeOK
  <2>3. reply' \in [Conn -> Replies]
    BY <1>1 DEF TypeOK, Replies
  <2> QED BY <1>1, <2>1, <2>2, <2>3 DEF TypeOK
<1>3. ASSUME NEW d \in Conn PROVE Fresh(d)' /\ OneEach(d)' /\ InOrder(d)'
  <2>1. OneEach(d) /\ InOrder(d) /\ Fresh(d)
    BY DEF ServerInv
  <2>2. CASE d # c
    <3>1. outbox'[d] = outbox[d]
      BY <1>1, <2>2 DEF TypeOK
    <3>2. Untouched(d)
      BY <1>1, <2>2, <3>1, SameKeeps DEF Untouched, AtWorker, TypeOK
    <3> QED BY <1>1, <2>1, <3>2, UntouchedKeeps DEF Fresh, Untouched
  <2>3. CASE d = c
    <3>1. /\ stream'[c] = "closed" /\ inbox'[c] = <<>> /\ reply'[c] = NoReply
          /\ outbox'[c] \in {outbox[c], <<>>}
      BY <1>1 DEF TypeOK
    <3>2. Fresh(c)'
      BY <1>1, <2>1, <2>3, <3>1 DEF Fresh
    <3>3. FromQueue(c) = {} /\ ~AtWorker(c)
      BY <2>1, <2>3 DEF OneEach
    <3>4. OneEach(c)'
      BY <1>1, <3>1, <3>3 DEF OneEach, FromQueue, AtWorker, Replied, NoReply
    <3>5. ~gone[c] => Answers(got[c], outbox'[c], sent[c])
      <4>1. Len(got[c]) \in Nat /\ Len(outbox[c]) \in Nat /\ Len(sent[c]) \in Nat
        BY LenProperties DEF TypeOK
      <4> QED BY <2>1, <2>3, <3>1, <4>1, AnswersLost DEF InOrder
    <3>6. InOrder(c)'
      BY <1>1, <3>1, <3>5 DEF InOrder
    <3> QED BY <2>3, <3>2, <3>4, <3>6
  <2> QED BY <2>2, <2>3
<1> QED BY <1>2, <1>3 DEF ServerInv

\* A connection's task reads a request into the queue and waits.
LEMMA ReadRequestStep ==
  ASSUME ServerInv, NEW c \in Conn, ReadRequest(c)
  PROVE  ServerInv'
<1> TypeOK /\ inbox[c] \in Seq(Frame) /\ sent[c] \in Seq(Frame) /\ queue \in Seq(Entries)
  BY DEF ServerInv, TypeOK
<1>1. PICK e, r : r = Head(inbox[c]) /\ e = Entry(c, r)
  OBVIOUS
<1>2. /\ stream' = [stream EXCEPT ![c] = "waiting"]
      /\ inbox' = [inbox EXCEPT ![c] = Tail(inbox[c])]
      /\ reply' = [reply EXCEPT ![c] = Pending]
      /\ queue' = Append(queue, e)
      /\ stream[c] = "reading" /\ inbox[c] # <<>> /\ r \notin Garbled
      /\ UNCHANGED <<up, outbox, worker, sent, got, gone>>
  BY <1>1 DEF ReadRequest
<1>3. e \in Entries /\ e.from = c /\ e.request = r
  <2>1. r \in Frame
    BY <1>1, <1>2, HeadTailProperties
  <2> QED BY <1>1, <1>2, <2>1 DEF Entries, Entry, Frame
<1>4. TypeOK'
  <2>1. inbox' \in [Conn -> Seq(Frame)]
    BY <1>2, HeadTailProperties DEF TypeOK
  <2>2. reply' \in [Conn -> Replies]
    BY <1>2 DEF TypeOK, Replies
  <2>3. queue' \in Seq(Entries)
    BY <1>2, <1>3, QueueAppend
  <2> QED BY <1>2, <2>1, <2>2, <2>3 DEF TypeOK
<1>5. ASSUME NEW d \in Conn PROVE Fresh(d)' /\ OneEach(d)' /\ InOrder(d)'
  <2>1. OneEach(d) /\ InOrder(d) /\ Fresh(d)
    BY DEF ServerInv
  <2>2. CASE d # c
    <3>1. QueueKept(d)
      BY <1>2, <1>3, <2>2, AppendKeeps
    <3>2. Untouched(d)
      BY <1>2, <2>2, <3>1 DEF Untouched, AtWorker, TypeOK
    <3> QED BY <1>2, <2>1, <3>2, UntouchedKeeps DEF Fresh, Untouched
  <2>3. CASE d = c
    <3>1. /\ stream'[c] = "waiting" /\ inbox'[c] = Tail(inbox[c]) /\ reply'[c] = Pending
          /\ outbox'[c] = outbox[c] /\ got'[c] = got[c] /\ sent'[c] = sent[c] /\ gone'[c] = gone[c]
      BY <1>2 DEF TypeOK
    <3>2. FromQueue(c) = {} /\ ~AtWorker(c)
      BY <1>2, <2>1, <2>3 DEF OneEach
    <3>3. FromQueue(c)' = {Len(queue) + 1} /\ queue'[Len(queue) + 1] = e
      BY <1>2, <1>3, <3>2, QueueAppend
    <3>4. ~AtWorker(c)' /\ ~Replied(c)' /\ reply'[c] # NoReply /\ reply'[c].state # "answered" /\ reply'[c] # Dropped
      BY <1>2, <3>1, <3>2 DEF AtWorker, Replied, Pending, NoReply, Dropped
    <3>5. Fresh(c)'
      BY <1>2, <2>1, <2>3, <3>1 DEF Fresh
    <3>6. OneEach(c)'
      BY <3>1, <3>3, <3>4 DEF OneEach
    <3>7. Serves(c, r)'
      BY <1>3, <3>3, <3>4 DEF Serves
    <3>8. ~gone[c] => /\ Turn(got[c], outbox[c]) <= Len(sent[c])
                     /\ Rest(inbox'[c], sent[c], Turn(got[c], outbox[c]) + 1)
                     /\ r = sent[c][Turn(got[c], outbox[c])]
      <4>1. PICK n : n = Turn(got[c], outbox[c])
        OBVIOUS
      <4>2. n \in Nat \ {0}
        <5>1. Len(got[c]) \in Nat /\ Len(outbox[c]) \in Nat
          BY LenProperties DEF TypeOK
        <5> QED BY <4>1, <5>1, TurnIsNat
      <4>3. ~gone[c] => Rest(inbox[c], sent[c], n)
        BY <1>2, <2>1, <2>3, <4>1 DEF InOrder
      <4> QED BY <1>1, <1>2, <3>1, <4>1, <4>2, <4>3, RestOfRead, SMTT(30)
    <3>9. InOrder(c)'
      BY <2>1, <2>3, <3>1, <3>7, <3>8 DEF InOrder
    <3> QED BY <2>3, <3>5, <3>6, <3>9
  <2> QED BY <2>2, <2>3
<1> QED BY <1>4, <1>5 DEF ServerInv

\* A connection's task writes the answer it waited for.
LEMMA RespondStep ==
  ASSUME ServerInv, NEW c \in Conn, Respond(c)
  PROVE  ServerInv'
<1> TypeOK /\ outbox[c] \in Seq(Responses)
  BY DEF ServerInv, TypeOK
<1>1. PICK p : p = reply[c].proof
  OBVIOUS
<1>2. /\ stream' = [stream EXCEPT ![c] = "reading"]
      /\ reply' = [reply EXCEPT ![c] = NoReply]
      /\ outbox' = [outbox EXCEPT ![c] = Append(outbox[c], p)]
      /\ stream[c] = "waiting" /\ reply[c].state = "answered"
      /\ UNCHANGED <<up, inbox, queue, worker, sent, got, gone>>
  BY <1>1 DEF Respond
<1>3. p \in Responses
  <2>1. reply[c] \in Replies
    BY DEF TypeOK
  <2>2. PICK q \in Responses : reply[c] = Answered(q)
    BY <1>2, <2>1 DEF Replies, NoReply, Pending, Dropped
  <2> QED BY <1>1, <2>2 DEF Answered
<1>4. TypeOK'
  <2>1. outbox' \in [Conn -> Seq(Responses)]
    BY <1>2, <1>3, AppendProperties DEF TypeOK
  <2>2. reply' \in [Conn -> Replies]
    BY <1>2 DEF TypeOK, Replies
  <2> QED BY <1>2, <2>1, <2>2 DEF TypeOK
<1>5. ASSUME NEW d \in Conn PROVE Fresh(d)' /\ OneEach(d)' /\ InOrder(d)'
  <2>1. OneEach(d) /\ InOrder(d) /\ Fresh(d)
    BY DEF ServerInv
  <2>2. CASE d # c
    <3>1. Untouched(d)
      BY <1>2, <2>2, SameKeeps DEF Untouched, AtWorker, TypeOK
    <3> QED BY <1>2, <2>1, <3>1, UntouchedKeeps DEF Fresh, Untouched
  <2>3. CASE d = c
    <3>1. /\ stream'[c] = "reading" /\ reply'[c] = NoReply
          /\ outbox'[c] = Append(outbox[c], p)
      BY <1>2 DEF TypeOK
    <3>2. Fresh(c)'
      BY <1>2, <2>1, <2>3, <3>1 DEF Fresh
    <3>3. FromQueue(c) = {} /\ ~AtWorker(c)
      BY <1>2, <2>1, <2>3 DEF OneEach, Replied
    <3>4. OneEach(c)'
      BY <1>2, <3>1, <3>3 DEF OneEach, FromQueue, AtWorker, Replied, NoReply
    <3>5. ASSUME ~gone[c]
          PROVE  /\ Answers(got[c], outbox'[c], sent[c])
                 /\ Turn(got[c], outbox'[c]) = Turn(got[c], outbox[c]) + 1
      <4>1. PICK g, o, s : g = got[c] /\ o = outbox[c] /\ s = sent[c]
        OBVIOUS
      <4>2. Answers(g, o, s) /\ Turn(g, o) <= Len(s)
            /\ s[Turn(g, o)] \in Request /\ p = Proof(s[Turn(g, o)])
        BY <1>1, <1>2, <2>1, <2>3, <3>5, <4>1, Zenon DEF InOrder, Serves
      <4>3. Len(g) \in Nat /\ o \in Seq(Responses) /\ s \in Seq(Frame)
        BY <4>1, LenProperties DEF TypeOK
      <4>4. Answers(g, Append(o, p), s) /\ Turn(g, Append(o, p)) = Turn(g, o) + 1
        BY <1>3, <4>2, <4>3, AnswersAfterRespond
      <4> QED BY <3>1, <4>1, <4>4
    <3>6. InOrder(c)'
      BY <1>2, <2>1, <2>3, <3>1, <3>5 DEF InOrder
    <3> QED BY <2>3, <3>2, <3>4, <3>6
  <2> QED BY <2>2, <2>3
<1> QED BY <1>4, <1>5 DEF ServerInv

-----------------------------------------------------------------------------
(* process_proof_request, and the end of the server.                       *)

\* The proof task takes the first request of the queue.
LEMMA WorkerTakeStep ==
  ASSUME ServerInv, WorkerTake
  PROVE  ServerInv'
<1> TypeOK /\ queue \in Seq(Entries)
  BY DEF ServerInv, TypeOK
<1>1. /\ worker = Idle /\ queue # <<>> /\ queue' = Tail(queue)
      /\ UNCHANGED <<up, stream, inbox, outbox, reply, sent, got, gone>>
  BY DEF WorkerTake
<1>2. PICK e \in Entries : e = Head(queue) /\ worker' = e /\ 1 \in DOMAIN queue /\ queue[1] = e
  BY <1>1, QueueTail DEF WorkerTake
<1>3. e # Idle
  BY DEF Entries, Entry, Idle
<1>4. TypeOK'
  BY <1>1, <1>2, QueueTail DEF TypeOK
<1>5. ASSUME NEW d \in Conn PROVE Fresh(d)' /\ OneEach(d)' /\ InOrder(d)'
  <2>1. OneEach(d) /\ InOrder(d) /\ Fresh(d)
    BY DEF ServerInv
  <2>2. Fresh(d)' /\ ~AtWorker(d)
    BY <1>1, <2>1 DEF Fresh, AtWorker
  <2>3. CASE e.from # d
    <3>1. QueueKept(d)
      BY <1>1, <1>2, <2>3, TailKeeps
    <3>2. Untouched(d)
      BY <1>1, <1>2, <2>2, <2>3, <3>1 DEF Untouched, AtWorker
    <3> QED BY <2>1, <2>2, <3>2, UntouchedKeeps
  <2>4. CASE e.from = d
    <3>1. 1 \in FromQueue(d) /\ \A i \in FromQueue(d) : i = 1
      BY <1>2, <2>1, <2>4 DEF FromQueue, OneEach
    <3>2. FromQueue(d)' = {}
      BY <1>1, <3>1, QueueTail DEF FromQueue
    <3>3. AtWorker(d)'
      BY <1>2, <1>3, <2>4 DEF AtWorker
    <3>4. stream[d] = "waiting" /\ ~Replied(d) /\ reply[d] # NoReply
      BY <2>1, <3>1 DEF OneEach
    <3>5. OneEach(d)'
      BY <1>1, <3>2, <3>3, <3>4 DEF OneEach, Replied
    <3>6. \A r : Serves(d, r) => Serves(d, r)'
      BY <1>1, <1>2, <3>1, <3>2 DEF Serves
    <3>7. InOrder(d)'
      BY <1>1, <2>1, <3>6 DEF InOrder
    <3> QED BY <2>2, <3>5, <3>7
  <2> QED BY <2>3, <2>4
<1> QED BY <1>4, <1>5 DEF ServerInv

\* The proof task answers, or drops the request it skips.
LEMMA FinishStep ==
  ASSUME ServerInv, WorkerAnswers \/ WorkerSkips
  PROVE  ServerInv'
<1> TypeOK
  BY DEF ServerInv
<1>1. PICK answer :
        /\ Finish(answer)
        /\ \/ worker.request \in Request /\ answer = Answered(Proof(worker.request))
           \/ (worker.request \in Invalid \/ Faults) /\ answer = Dropped
  BY DEF WorkerAnswers, WorkerSkips
<1>2. PICK e \in Entries : e = worker
  BY <1>1 DEF Finish, TypeOK
<1>3. e # Idle /\ e.from \in Conn
  BY DEF Entries, Entry, Idle
<1>4. /\ reply' = [reply EXCEPT ![e.from] = answer] /\ worker' = Idle
      /\ UNCHANGED <<up, stream, inbox, outbox, queue, sent, got, gone>>
  BY <1>1, <1>2 DEF Finish
<1>5. answer \in Replies /\ answer # NoReply /\ answer.state \in {"answered", "dropped"}
  BY <1>1 DEF Replies, Responses, Answered, Dropped, NoReply
<1>6. TypeOK'
  BY <1>3, <1>4, <1>5 DEF TypeOK
<1>7. ASSUME NEW d \in Conn PROVE Fresh(d)' /\ OneEach(d)' /\ InOrder(d)'
  <2>1. OneEach(d) /\ InOrder(d) /\ Fresh(d)
    BY DEF ServerInv
  <2>2. Fresh(d)' /\ ~AtWorker(d)'
    BY <1>4, <2>1 DEF Fresh, AtWorker
  <2>3. CASE e.from # d
    <3>1. Untouched(d)
      BY <1>2, <1>4, <2>2, <2>3, SameKeeps DEF Untouched, AtWorker, TypeOK
    <3> QED BY <2>1, <2>2, <3>1, UntouchedKeeps
  <2>4. CASE e.from = d
    <3>1. AtWorker(d) /\ reply'[d] = answer
      BY <1>2, <1>3, <1>4, <2>4 DEF AtWorker, TypeOK
    <3>2. FromQueue(d)' = {} /\ stream[d] = "waiting"
      BY <1>4, <2>1, <3>1 DEF OneEach, FromQueue
    <3>3. OneEach(d)'
      BY <1>4, <1>5, <2>2, <3>1, <3>2 DEF OneEach, Replied
    <3>4. ASSUME NEW r, Serves(d, r) PROVE Serves(d, r)'
      <4>1. worker.request = r
        BY <3>1, <3>4 DEF Serves
      <4>2. answer.state = "answered" => r \in Request /\ answer.proof = Proof(r)
        BY <1>1, <4>1 DEF Answered, Dropped
      <4>3. answer = Dropped => r \in Invalid \/ Faults
        BY <1>1, <4>1 DEF Answered, Dropped
      <4> QED BY <2>2, <3>1, <3>2, <4>2, <4>3 DEF Serves
    <3>5. InOrder(d)'
      BY <1>4, <2>1, <3>4 DEF InOrder
    <3> QED BY <2>2, <3>3, <3>5
  <2> QED BY <2>3, <2>4
<1> QED BY <1>6, <1>7 DEF ServerInv

\* The process stops: every connection is closed.
LEMMA ServerStopsStep ==
  ASSUME ServerInv, ServerStops
  PROVE  ServerInv'
<1> TypeOK
  BY DEF ServerInv
<1>1. /\ up' = FALSE
      /\ stream' = [c \in Conn |-> IF stream[c] = "none" THEN "none" ELSE "closed"]
      /\ inbox' = [c \in Conn |-> <<>>]
      /\ reply' = [c \in Conn |-> NoReply]
      /\ queue' = <<>> /\ worker' = Idle
      /\ UNCHANGED <<sent, got, gone>>
  BY DEF ServerStops
<1>2. PICK lost \in SUBSET Conn : outbox' = [c \in Conn |-> IF c \in lost THEN <<>> ELSE outbox[c]]
  BY DEF ServerStops
<1>3. TypeOK'
  <2>1. outbox' \in [Conn -> Seq(Responses)]
    BY <1>2, EmptySeq DEF TypeOK
  <2>2. inbox' \in [Conn -> Seq(Frame)]
    BY <1>1, EmptySeq
  <2>3. reply' \in [Conn -> Replies]
    BY <1>1 DEF Replies
  <2>4. queue' \in Seq(Entries)
    BY <1>1, EmptySeq
  <2> QED BY <1>1, <2>1, <2>2, <2>3, <2>4 DEF TypeOK
<1>4. ASSUME NEW d \in Conn PROVE Fresh(d)' /\ OneEach(d)' /\ InOrder(d)'
  <2>1. OneEach(d) /\ InOrder(d) /\ Fresh(d)
    BY DEF ServerInv
  <2>2. stream'[d] \in {"none", "closed"} /\ (stream'[d] = "none" => stream[d] = "none")
        /\ outbox'[d] \in {outbox[d], <<>>}
    BY <1>1, <1>2
  <2>3. Fresh(d)'
    BY <1>1, <2>1, <2>2 DEF Fresh
  <2>4. FromQueue(d)' = {} /\ ~AtWorker(d)' /\ reply'[d] = NoReply /\ ~Replied(d)'
    BY <1>1 DEF FromQueue, AtWorker, Replied, NoReply
  <2>5. OneEach(d)'
    BY <2>2, <2>4 DEF OneEach
  <2>6. ~gone[d] => Answers(got[d], outbox'[d], sent[d])
    <3>1. Len(got[d]) \in Nat /\ Len(outbox[d]) \in Nat /\ Len(sent[d]) \in Nat
      BY LenProperties DEF TypeOK
    <3> QED BY <2>1, <2>2, <3>1, AnswersLost DEF InOrder
  <2>7. InOrder(d)'
    BY <1>1, <2>2, <2>6 DEF InOrder
  <2> QED BY <2>3, <2>5, <2>7
<1> QED BY <1>3, <1>4 DEF ServerInv

-----------------------------------------------------------------------------
(* The inductive invariant.                                                *)

\* The initial state.
LEMMA ServerInvStarts == Init => ServerInv
<1> SUFFICES ASSUME Init PROVE ServerInv
  OBVIOUS
<1>1. TypeOK
  <2>1. inbox \in [Conn -> Seq(Frame)] /\ sent \in [Conn -> Seq(Frame)]
    BY EmptySeq DEF Init
  <2>2. outbox \in [Conn -> Seq(Responses)] /\ got \in [Conn -> Seq(Lessons)] /\ queue \in Seq(Entries)
    BY EmptySeq DEF Init
  <2>3. reply \in [Conn -> Replies]
    BY DEF Init, Replies
  <2> QED BY <2>1, <2>2, <2>3 DEF Init, TypeOK
<1>2. ASSUME NEW c \in Conn PROVE Fresh(c) /\ OneEach(c) /\ InOrder(c)
  <2>1. Fresh(c)
    BY DEF Init, Fresh
  <2>2. FromQueue(c) = {} /\ ~AtWorker(c) /\ ~Replied(c)
    BY DEF Init, FromQueue, AtWorker, Replied, NoReply
  <2>3. OneEach(c)
    BY <2>2 DEF Init, OneEach
  <2>4. got[c] = <<>> /\ outbox[c] = <<>> /\ sent[c] = <<>> /\ stream[c] = "none"
    BY DEF Init
  <2>5. Answers(<<>>, <<>>, <<>>)
    <3>1. Len(<<>>) = 0
      OBVIOUS
    <3> QED BY <3>1 DEF Answers
  <2>6. InOrder(c)
    BY <2>4, <2>5 DEF InOrder
  <2> QED BY <2>1, <2>3, <2>6
<1> QED BY <1>1, <1>2 DEF ServerInv

\* Whoever's turn it is, the invariant stays true.
LEMMA ServerInvInductive ==
  ASSUME ServerInv, [Next]_vars
  PROVE  ServerInv'
<1>1. ASSUME NEW c \in Conn, Accept(c) PROVE ServerInv'
  BY <1>1, AcceptStep
<1>2. ASSUME NEW c \in Conn, ClientReceive(c) PROVE ServerInv'
  BY <1>2, ClientReceiveStep
<1>3. ASSUME NEW c \in Conn, Leave(c) PROVE ServerInv'
  BY <1>3, LeaveStep
<1>4. ASSUME NEW c \in Conn, Serve(c) PROVE ServerInv'
  <2>1. CASE ReadRequest(c)
    BY <2>1, ReadRequestStep
  <2>2. CASE ReadGarbled(c)
    BY <2>2, HangUpStep DEF ReadGarbled
  <2>3. CASE ReadEnd(c)
    BY <2>3, HangUpStep DEF ReadEnd
  <2>4. CASE Respond(c)
    BY <2>4, RespondStep
  <2>5. CASE RespondFails(c)
    BY <2>5, HangUpStep DEF RespondFails, Replied
  <2>6. CASE ReplyDropped(c)
    BY <2>6, HangUpStep DEF ReplyDropped, Replied, Dropped
  <2> QED BY <1>4, <2>1, <2>2, <2>3, <2>4, <2>5, <2>6 DEF Serve
<1>5. ASSUME NEW c \in Conn, NEW frame \in Frame, Send(c, frame) PROVE ServerInv'
  BY <1>5, SendStep
<1>6. CASE Work
  BY <1>6, WorkerTakeStep, FinishStep DEF Work
<1>7. CASE ServerStops
  BY <1>7, ServerStopsStep
<1>8. CASE UNCHANGED vars
  <2>1. /\ up' = up /\ stream' = stream /\ inbox' = inbox /\ outbox' = outbox /\ reply' = reply
        /\ queue' = queue /\ worker' = worker /\ sent' = sent /\ got' = got /\ gone' = gone
    BY <1>8 DEF vars
  <2>2. TypeOK'
    BY <2>1 DEF ServerInv, TypeOK
  <2>3. ASSUME NEW d \in Conn PROVE Fresh(d)' /\ OneEach(d)' /\ InOrder(d)'
    <3>1. Untouched(d)
      BY <2>1, SameKeeps DEF Untouched, AtWorker
    <3>2. Fresh(d) /\ OneEach(d) /\ InOrder(d)
      BY DEF ServerInv
    <3> QED BY <2>1, <3>1, <3>2, UntouchedKeeps DEF Fresh
  <2> QED BY <2>2, <2>3 DEF ServerInv
<1> QED BY <1>1, <1>2, <1>3, <1>4, <1>5, <1>6, <1>7, <1>8 DEF Next

\* The invariant, over all actions.
LEMMA ServerInvHolds == Spec => []ServerInv
<1>1. ServerInv /\ [Next]_vars => ServerInv'
  BY ServerInvInductive
<1> QED BY <1>1, ServerInvStarts, PTL DEF Spec

\* Whatever travels between the tasks and to the clients has its type, and so a
\* message that does not convert into a request is never answered.
THEOREM ServerTypesHold == Spec => []TypeOK
<1>1. ServerInv => TypeOK
  BY DEF ServerInv
<1> QED BY <1>1, ServerInvHolds, PTL

\* OneRequestEach counts what OneEach says.
LEMMA OneEachCounts ==
  ASSUME NEW c \in Conn, OneEach(c)
  PROVE  IF stream[c] = "waiting" THEN Cardinality(Places(c)) = 1 /\ reply[c] # NoReply
                                  ELSE Places(c) = {} /\ reply[c] = NoReply
<1>1. Places(c) = {<<"queue", i>> : i \in FromQueue(c)}
                    \cup (IF AtWorker(c) THEN {<<"worker">>} ELSE {})
                    \cup (IF Replied(c) THEN {<<"reply">>} ELSE {})
  BY Zenon DEF Places, FromQueue, AtWorker, Replied
<1>2. CASE stream[c] = "waiting"
  <2>1. \E x : Places(c) = {x}
    <3>1. CASE Replied(c)
      BY <1>1, <3>1 DEF OneEach
    <3>2. CASE AtWorker(c)
      BY <1>1, <3>2 DEF OneEach
    <3>3. CASE ~Replied(c) /\ ~AtWorker(c)
      <4>1. PICK i : FromQueue(c) = {i}
        BY <1>2, <3>3 DEF OneEach
      <4>2. {<<"queue", j>> : j \in {i}} = {<<"queue", i>>}
        OBVIOUS
      <4>3. Places(c) = {<<"queue", i>>}
        BY <1>1, <3>3, <4>1, <4>2
      <4> QED BY <4>3
    <3> QED BY <3>1, <3>2, <3>3
  <2> QED BY <1>2, <2>1, FS_Singleton DEF OneEach
<1>3. CASE stream[c] # "waiting"
  BY <1>1, <1>3 DEF OneEach, Replied, NoReply
<1> QED BY <1>2, <1>3

\* A connection that waits has one request, in one place, and one that does not
\* has none: no answer is left over for a later request.
THEOREM EachWaitsForOne == Spec => []OneRequestEach
<1>1. ServerInv => OneRequestEach
  BY OneEachCounts DEF ServerInv, OneRequestEach
<1> QED BY <1>1, ServerInvHolds, PTL

-----------------------------------------------------------------------------
(* The server implements ProofService, step by step.                       *)

Open == [c \in Conn |-> stream[c] # "closed"]

\* What the service says of the connection alone, one step at a time.
LEMMA ServiceIs ==
  /\ Service!vars = <<sent, got, Open, gone>>
  /\ \A c \in Conn : Open[c] <=> stream[c] # "closed"
BY DEF Service!vars, Open

\* A request that is not answered and has no answer is one the service may
\* close the connection for.
LEMMA HasNoAnswer ==
  ASSUME NEW S, NEW g, NEW o, NEW s \in Seq(S), Len(g) \in Nat, Len(o) \in Nat,
         Turn(g, o) <= Len(s), s[Turn(g, o)] \notin Request
  PROVE  \E n \in DOMAIN s : n > Len(g) /\ s[n] \notin Request
<1>1. Len(s) \in Nat /\ DOMAIN s = 1 .. Len(s)
  BY LenProperties
<1>2. Turn(g, o) \in DOMAIN s /\ Turn(g, o) > Len(g)
  BY <1>1 DEF Turn
<1> QED BY <1>2

\* The next answer a client learns is the truth about its next request.
LEMMA ReceiveImplements ==
  ASSUME ServerInv, NEW c \in Conn, ClientReceive(c)
  PROVE  Service!Answer(c)
<1> TypeOK /\ sent[c] \in Seq(Frame) /\ outbox[c] \in Seq(Responses) /\ got[c] \in Seq(Lessons)
  BY DEF ServerInv, TypeOK
<1>1. ~gone[c] /\ Answers(got[c], outbox[c], sent[c]) /\ outbox[c] # <<>>
  BY DEF ServerInv, Fresh, InOrder, ClientReceive
<1>2. PICK r : r = sent[c][Len(got[c]) + 1]
  OBVIOUS
<1>3. r \in Request /\ Head(outbox[c]) = Proof(r)
  <2>1. NoValue \in Lessons
    BY DEF Lessons
  <2> QED BY <1>1, <1>2, <2>1, AnswersAfterReceive, SMTT(30)
<1>4. Learnt(r, Proof(r)) = Truth(r)
  BY DEF Learnt, Proof, Truth
<1>5. Len(got[c]) + 1 <= Len(sent[c])
  <2>1. PICK g \in Nat, l \in Nat : g = Len(got[c]) /\ l = Len(sent[c])
    BY LenProperties
  <2>2. g < l
    BY <2>1 DEF ClientReceive
  <2>3. g + 1 <= l
    BY <2>1, <2>2
  <2> QED BY <2>1, <2>3
<1>6. got' = [got EXCEPT ![c] = Append(got[c], Truth(r))]
  BY <1>2, <1>3, <1>4 DEF ClientReceive
<1>7. UNCHANGED <<sent, Open, gone>>
  BY DEF ClientReceive, Open
<1> QED BY <1>1, <1>2, <1>3, <1>5, <1>6, <1>7, Zenon DEF Service!Answer, Open

\* A connection is closed when its client is gone, for a request of its own
\* that has no answer, or because something failed.
LEMMA HangUpImplements ==
  ASSUME NEW c \in Conn, NEW unread, HangUp(c, unread), TypeOK, stream[c] # "closed",
         gone[c] \/ Service!Unanswerable(c) \/ Faults
  PROVE  Service!Next
<1>1. Open' = [Open EXCEPT ![c] = FALSE] /\ Open[c] /\ UNCHANGED <<sent, got, gone>>
  BY DEF HangUp, Open, TypeOK
<1>2. CASE gone[c] \/ Service!Unanswerable(c)
  <2>1. Service!Close(c)
    BY <1>1, <1>2 DEF Service!Close, Open
  <2> QED BY <2>1 DEF Service!Next
<1>3. CASE Faults
  <2>1. Open' = [d \in Conn |-> Open[d] /\ d \notin {c}]
    BY <1>1 DEF Open
  <2>2. Service!Fail
    BY <1>1, <1>3, <2>1 DEF Service!Fail, Open
  <2> QED BY <2>2 DEF Service!Next
<1> QED BY <1>2, <1>3

\* The steps of a connection's task are the service's closings, or stutters.
LEMMA ServeImplements ==
  ASSUME ServerInv, NEW c \in Conn, Serve(c)
  PROVE  [Service!Next]_(Service!vars)
<1> TypeOK /\ sent[c] \in Seq(Frame) /\ inbox[c] \in Seq(Frame)
  BY DEF ServerInv, TypeOK
<1>1. PICK g, o, s : g = got[c] /\ o = outbox[c] /\ s = sent[c]
  OBVIOUS
<1>2. Len(g) \in Nat /\ Len(o) \in Nat /\ s \in Seq(Frame) /\ Turn(g, o) \in Nat \ {0}
  <2>1. Len(g) \in Nat /\ Len(o) \in Nat /\ s \in Seq(Frame)
    BY <1>1, LenProperties DEF TypeOK
  <2> QED BY <2>1, TurnIsNat
<1>3. ASSUME Turn(g, o) <= Len(s), s[Turn(g, o)] \notin Request
      PROVE  Service!Unanswerable(c)
  <2>1. \E n \in DOMAIN s : n > Len(g) /\ s[n] \notin Request
    BY <1>2, <1>3, HasNoAnswer
  <2> QED BY <1>1, <2>1 DEF Service!Unanswerable
<1>4. InOrder(c)
  BY DEF ServerInv
<1>5. CASE ReadRequest(c) \/ Respond(c)
  <2>1. Open' = Open /\ UNCHANGED <<sent, got, gone>>
    BY <1>5 DEF ReadRequest, Respond, Open, TypeOK
  <2> QED BY <2>1, ServiceIs DEF Service!vars, Open
<1>6. CASE ReadGarbled(c)
  <2>1. gone[c] \/ Service!Unanswerable(c)
    <3>1. SUFFICES ASSUME ~gone[c] PROVE Service!Unanswerable(c)
      OBVIOUS
    <3>2. Rest(inbox[c], s, Turn(g, o)) /\ inbox[c] # <<>> /\ Head(inbox[c]) \in Garbled
      BY <1>1, <1>4, <1>6, <3>1 DEF InOrder, ReadGarbled
    <3>3. Turn(g, o) <= Len(s) /\ s[Turn(g, o)] \in Garbled
      BY <1>2, <3>2, RestOfRead
    <3> QED BY <1>3, <3>3, FramesAssumption
  <2> QED BY <1>6, <2>1, HangUpImplements DEF ReadGarbled
<1>7. CASE ReadEnd(c) \/ RespondFails(c)
  BY <1>7, HangUpImplements DEF ReadEnd, RespondFails
<1>8. CASE ReplyDropped(c)
  <2>1. gone[c] \/ Service!Unanswerable(c) \/ Faults
    <3>1. SUFFICES ASSUME ~gone[c], ~Faults PROVE Service!Unanswerable(c)
      OBVIOUS
    <3>2. Turn(g, o) <= Len(s) /\ s[Turn(g, o)] \in Invalid
      BY <1>1, <1>4, <1>8, <3>1, Zenon DEF InOrder, ReplyDropped, Serves
    <3> QED BY <1>3, <3>2, FramesAssumption
  <2> QED BY <1>8, <2>1, HangUpImplements DEF ReplyDropped
<1> QED BY <1>5, <1>6, <1>7, <1>8 DEF Serve

\* Every step of the server is a step of the service, or none.
LEMMA ServerStepImplements ==
  ASSUME ServerInv, [Next]_vars
  PROVE  [Service!Next]_(Service!vars)
<1> TypeOK
  BY DEF ServerInv
<1>1. ASSUME UNCHANGED <<sent, got, gone>>, Open' = Open
      PROVE  UNCHANGED Service!vars
  BY <1>1 DEF Service!vars, Open
<1>2. ASSUME NEW c \in Conn, Accept(c) PROVE UNCHANGED Service!vars
  <2>1. Open' = Open
    BY <1>2 DEF Accept, Open, TypeOK
  <2> QED BY <1>1, <1>2, <2>1 DEF Accept
<1>3. ASSUME NEW c \in Conn, ClientReceive(c) PROVE Service!Next
  BY <1>3, ReceiveImplements DEF Service!Next
<1>4. ASSUME NEW c \in Conn, Leave(c) PROVE Service!Next
  <2>1. Service!Leave(c)
    BY <1>4 DEF Leave, Service!Leave, Open
  <2> QED BY <2>1 DEF Service!Next
<1>5. ASSUME NEW c \in Conn, NEW frame \in Frame, Send(c, frame) PROVE Service!Next
  <2>1. Service!Ask(c)
    BY <1>5 DEF Send, Service!Ask, Open
  <2> QED BY <2>1 DEF Service!Next
<1>6. CASE Work
  BY <1>1, <1>6 DEF Work, WorkerTake, WorkerAnswers, WorkerSkips, Finish, Open
<1>7. CASE ServerStops
  <2>1. Open' = [c \in Conn |-> Open[c] /\ c \notin {d \in Conn : stream[d] # "none"}]
    BY <1>7 DEF ServerStops, Open
  <2>2. Service!Fail
    BY <1>7, <2>1 DEF ServerStops, Service!Fail, Open
  <2> QED BY <2>2 DEF Service!Next
<1>8. CASE UNCHANGED vars
  BY <1>1, <1>8 DEF vars, Open
<1> QED BY <1>2, <1>3, <1>4, <1>5, <1>6, <1>7, <1>8, ServeImplements DEF Next

\* Every client learns from verified proofs what the versions it names hold
\* under its keys, in the order of its requests, and none is disconnected for
\* what another asked.
THEOREM ServerImplementsService == Spec => ImplementsProofService
<1>1. Init => Service!Init
  BY DEF Init, Service!Init
<1>2. ServerInv /\ [Next]_vars => [Service!Next]_(Service!vars)
  BY ServerStepImplements
<1> QED BY <1>1, <1>2, ServerInvHolds, PTL DEF Spec, ImplementsProofService, Service!Spec
=============================================================================
