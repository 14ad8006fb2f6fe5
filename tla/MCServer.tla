------------------------------ MODULE MCServer ------------------------------
(* Small instances of the proof server for TLC. *)
EXTENDS ServerProperties, TLC

\* Connections are interchangeable (for safety properties).
Symmetry == Permutations(Conn)
=============================================================================
