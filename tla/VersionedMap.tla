---------------------------- MODULE VersionedMap ----------------------------
(***************************************************************************)
(* What a trie promises its caller: a map from keys to values, and the     *)
(* versions of it that were committed, each under a hash, to go back to.   *)
(* Nothing here knows of nodes, links or a database.                       *)
(*                                                                         *)
(* The promise is the code's, not a textbook's: a call that fails loses    *)
(* the current map (its root was taken and is not put back), and revert    *)
(* accepts a hash that names no version, which leaves a map no key of      *)
(* which can be read.                                                      *)
(***************************************************************************)
CONSTANTS Key, Value, None,
          Unreadable,  \* what a lookup in a map with no stored root yields
          MayLose      \* the database may fail, the process may stop

VARIABLES
  map,      \* the current map
  versions  \* from the hashes commit has returned to the maps they name

vars == <<map, versions>>

EmptyMap      == [k \in Key |-> None]
UnreadableMap == [k \in Key |-> Unreadable]

Init ==
  /\ map = EmptyMap
  /\ versions = [h \in {} |-> EmptyMap]

Put ==
  /\ map # UnreadableMap
  /\ \E k \in Key, v \in Value : map' = [map EXCEPT ![k] = v]
  /\ UNCHANGED versions

\* The current map becomes a version; the hash of an older one names it only
\* if the maps are the same.
Publish ==
  /\ \E h \in DOMAIN versions' :
       /\ h \in DOMAIN versions => versions[h] = map
       /\ versions' = [g \in DOMAIN versions \cup {h} |-> IF g = h THEN map ELSE versions[g]]
  /\ UNCHANGED map

Revert ==
  /\ map' \in {versions[h] : h \in DOMAIN versions} \cup {UnreadableMap}
  /\ UNCHANGED versions

Lose ==
  /\ MayLose \/ map = UnreadableMap
  /\ map' = EmptyMap
  /\ UNCHANGED versions

Next == Put \/ Publish \/ Revert \/ Lose

Spec == Init /\ [][Next]_vars
=============================================================================
