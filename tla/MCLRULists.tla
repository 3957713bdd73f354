----------------------------- MODULE MCLRULists -----------------------------
(***************************************************************************)
(* LRULists for TLC.  The constructor gives each thread PerThread elements *)
(* in a free list; the first thread has since inserted all but one of its  *)
(* own.  Its list is long enough for two neighbours to be taken out at     *)
(* once, and its next insertion evicts.                                    *)
(***************************************************************************)
EXTENDS LRULists

PerThread == 7
Owner == 1
AllElements == 1 .. (PerThread * Cardinality(Threads))
Own(t) == [i \in 1 .. PerThread |-> PerThread * (t - 1) + i]

OneLongList == [t \in Threads |-> IF t = Owner THEN Front(Own(t)) ELSE <<>>]
RestFree == [t \in Threads |-> IF t = Owner THEN <<Last(Own(t))>> ELSE Own(t)]
=============================================================================
