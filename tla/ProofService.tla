---------------------------- MODULE ProofService ----------------------------
(***************************************************************************)
(* What a proof server promises each of its clients: that it learns the    *)
(* truth about its requests, in the order it asked, for as long as the     *)
(* connection is open; and that it is open until the client leaves or asks *)
(* something that has no answer.  What others ask has no part in it.       *)
(***************************************************************************)
EXTENDS Naturals, Sequences

CONSTANTS Conn, Request, Frame,
          Fact(_),   \* the truth about a request
          MayFail    \* the trie or the server may fail

VARIABLES asked, got, open, left

vars == <<asked, got, open, left>>

Init ==
  /\ asked = [c \in Conn |-> <<>>]
  /\ got = [c \in Conn |-> <<>>]
  /\ open = [c \in Conn |-> TRUE]
  /\ left = [c \in Conn |-> FALSE]

Ask(c) ==
  /\ open[c]
  /\ \E frame \in Frame : asked' = [asked EXCEPT ![c] = Append(@, frame)]
  /\ UNCHANGED <<got, open, left>>

\* The next answer arrives, even if the connection was closed meanwhile.
Answer(c) ==
  LET n == Len(got[c]) + 1
  IN  /\ ~left[c]
      /\ n <= Len(asked[c])
      /\ asked[c][n] \in Request
      /\ got' = [got EXCEPT ![c] = Append(@, Fact(asked[c][n]))]
      /\ UNCHANGED <<asked, open, left>>

Unanswerable(c) == \E n \in DOMAIN asked[c] : n > Len(got[c]) /\ asked[c][n] \notin Request

Close(c) ==
  /\ open[c]
  /\ left[c] \/ Unanswerable(c)
  /\ open' = [open EXCEPT ![c] = FALSE]
  /\ UNCHANGED <<asked, got, left>>

\* One connection, or all, when something fails.
Fail ==
  /\ MayFail
  /\ \E failed \in SUBSET Conn : open' = [c \in Conn |-> open[c] /\ c \notin failed]
  /\ UNCHANGED <<asked, got, left>>

Leave(c) ==
  /\ left' = [left EXCEPT ![c] = TRUE]
  /\ UNCHANGED <<asked, got, open>>

Next == Fail \/ \E c \in Conn : Ask(c) \/ Answer(c) \/ Close(c) \/ Leave(c)

Spec == Init /\ [][Next]_vars
=============================================================================
