-------------------------- MODULE MCLFLRUHashTable --------------------------
(***************************************************************************)
(* LFLRUHashTable for TLC: hash functions on small key sets and tables     *)
(* that already hold some keys.                                            *)
(***************************************************************************)
EXTENDS LFLRUHashTable

\* An empty table, and keys that share a cluster in its middle.
Nothing == <<>>
ClusterHome == [k \in Keys |-> IF k \in {"a", "b"} THEN 1 ELSE 2]

\* Keys whose cluster starts near the end of the slots and wraps around.
WrapHome == [k \in Keys |-> IF k \in {"a", "b", "c"} THEN HashSize - 2 ELSE 0]

\* A list of five, the shortest from which an element can be taken, whose
\* entries fill the slots 0 to 4; a sixth key probes past all of them.
FiveKeys == <<"a", "b", "c", "d", "e">>
RowHome == [k \in Keys |-> CASE k = "a" -> 0 [] k = "b" -> 1 [] k = "c" -> 2
                             [] k = "d" -> 3 [] k = "e" -> 4 [] OTHER -> 0]
=============================================================================
