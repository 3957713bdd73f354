--------------------------- MODULE MCHashTableCas ---------------------------
(***************************************************************************)
(* HashTableCas for TLC: a key that is there in slot 1, one that is not.   *)
(***************************************************************************)
EXTENDS HashTableCas

OneKey == <<"a">>
SomeHome == [k \in Keys |-> IF k = "a" THEN 1 ELSE 2]
=============================================================================
