------------------------------- MODULE Cache -------------------------------
(***************************************************************************)
(* What the hash table promises the worker threads: a map from keys to     *)
(* values on which every request takes effect at one instant between its   *)
(* call and its return, and from which an entry may be evicted at any      *)
(* time.                                                                   *)
(***************************************************************************)
CONSTANTS Threads, Keys, Values, Absent, NoRequest

VARIABLES cache,   \* key -> value or Absent
          req,     \* thread -> the request that has not taken effect yet
          res      \* thread -> what its last request returned

vars == <<cache, req, res>>

Request == [op : {"get", "remove"}, key : Keys, val : {Absent}]
             \cup [op : {"set", "insert", "insertOrSet"}, key : Keys, val : Values]

Init == /\ cache \in [Keys -> Values \cup {Absent}]
        /\ req = [t \in Threads |-> NoRequest]
        /\ res = [t \in Threads |-> Absent]

Call(t) == /\ req[t] = NoRequest /\ req'[t] # NoRequest
           /\ \E r \in Request : req' = [req EXCEPT ![t] = r]
           /\ UNCHANGED <<cache, res>>

\* get returns the value; set only replaces, insert only adds, insertOrSet
\* does either and tells whether it added; remove writes Absent.
Answer(r) == IF r.op = "get" THEN cache[r.key]
             ELSE (cache[r.key] = Absent) <=> (r.op \notin {"set", "remove"})

Writes(r) == \/ r.op = "insertOrSet"
             \/ r.op = "insert" /\ cache[r.key] = Absent
             \/ r.op \in {"set", "remove"} /\ cache[r.key] # Absent

TakeEffect(t) ==
    /\ req[t] # NoRequest
    /\ req' = [req EXCEPT ![t] = NoRequest]
    /\ cache' = IF Writes(req[t]) THEN [cache EXCEPT ![req[t].key] = req[t].val]
                                  ELSE cache
    /\ res' = [res EXCEPT ![t] = Answer(req[t])]

Evict == /\ UNCHANGED <<req, res>>
         /\ cache' # cache
         /\ \E k \in Keys : cache' = [cache EXCEPT ![k] = Absent]

Next == (\E t \in Threads : Call(t) \/ TakeEffect(t)) \/ Evict

Spec == Init /\ [][Next]_vars
=============================================================================
