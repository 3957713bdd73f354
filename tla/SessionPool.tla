---------------------------- MODULE SessionPool ----------------------------
(***************************************************************************)
(* What a worker's session pool promises its two users.                    *)
(*                                                                         *)
(* ServerThread keeps MAX_CLIENTS_PER_THREAD preallocated sessions.  The   *)
(* listener takes one per accepted connection (addSession); the worker     *)
(* gives it back when the connection ends.  Giving back always succeeds,   *)
(* because the callers ignore the result of push.  Taking may fail, but    *)
(* only when no session was in the pool at the moment of the call.         *)
(***************************************************************************)
CONSTANT Sessions

VARIABLES pool,        \* sessions a pop can return
          held,        \* sessions outside the pool, in use by the worker
          popping,     \* a pop is in progress
          emptyAtPop   \* the pool was empty when that pop was called

vars == <<pool, held, popping, emptyAtPop>>

Init == /\ pool = {}
        /\ held = Sessions
        /\ popping = FALSE
        /\ emptyAtPop = FALSE

Push(s) == /\ s \in held
           /\ held' = held \ {s}
           /\ pool' = pool \cup {s}
           /\ UNCHANGED <<popping, emptyAtPop>>

PopCall == /\ ~popping
           /\ popping' = TRUE
           /\ emptyAtPop' = (pool = {})
           /\ UNCHANGED <<pool, held>>

PopReturn(s) == /\ popping
                /\ s \in pool
                /\ pool' = pool \ {s}
                /\ held' = held \cup {s}
                /\ popping' = FALSE
                /\ UNCHANGED emptyAtPop

PopFail == /\ popping
           /\ emptyAtPop
           /\ popping' = FALSE
           /\ UNCHANGED <<pool, held, emptyAtPop>>

Next == \/ \E s \in Sessions : Push(s) \/ PopReturn(s)
        \/ PopCall
        \/ PopFail

Spec == Init /\ [][Next]_vars
=============================================================================
