---------------------------- MODULE PeerExchange ----------------------------
(***************************************************************************)
(* What proof nodes promise each other: a node asks a peer for its proof   *)
(* once in the life of its process, however often they are connected, and  *)
(* gets at most one answer.  A request is lost only if something fails;    *)
(* then it is not asked again, and a late answer does not count.           *)
(***************************************************************************)
CONSTANTS Node,
          MayFail  \* a node or a connection may fail

VARIABLES up, proofs  \* proofs[n][m]: what n knows of the proof it wants from m

vars == <<up, proofs>>

Init ==
  /\ up = [n \in Node |-> FALSE]
  /\ proofs = [n \in Node |-> [m \in Node |-> "wanted"]]

Start(n) ==
  /\ up' = [up EXCEPT ![n] = TRUE]
  /\ UNCHANGED proofs

\* A process that ends takes what it knew with it.
Stop(n) ==
  /\ MayFail
  /\ up' = [up EXCEPT ![n] = FALSE]
  /\ proofs' = [proofs EXCEPT ![n] = [m \in Node |-> "wanted"]]

Move(n, m, from, to) ==
  /\ up[n]
  /\ proofs[n][m] = from
  /\ proofs' = [proofs EXCEPT ![n][m] = to]
  /\ UNCHANGED up

Ask(n, m)    == n # m /\ Move(n, m, "wanted", "asked")
Answer(n, m) == Move(n, m, "asked", "known")
Lose(n, m)   == MayFail /\ Move(n, m, "asked", "lost")

Next ==
  \E n \in Node : Start(n) \/ Stop(n) \/ \E m \in Node : Ask(n, m) \/ Answer(n, m) \/ Lose(n, m)

Spec == Init /\ [][Next]_vars
=============================================================================
