---------------------------- MODULE HashTableCas ----------------------------
(***************************************************************************)
(* Compare-and-swap on the hash table: get with casLocks, which keeps the  *)
(* slots it has passed locked, and then set or unlockElement with the same *)
(* locks.  The text protocol does it for "cas", the binary protocol for a  *)
(* REPLACE that carries a ticket.                                          *)
(*                                                                         *)
(* get has locksStart and locksEnd by value.  The range of slots it stores *)
(* there is lost with the call, and its caller goes on with the range that *)
(* it passed in itself: from slot 0 to slot 0.                             *)
(***************************************************************************)
EXTENDS LFLRUHashTable

CONSTANT CasOps   \* a subset of {"casText", "casBinary"}

CasCall(t, o, k, v) ==
    /\ At(t, "idle") /\ ops[t] < MaxOps
    /\ ops' = [ops EXCEPT ![t] = @ + 1]
    /\ th' = [th EXCEPT ![t] = [Idle EXCEPT !.pc = "casProbe", !.op = o, !.key = k,
                                            !.val = v, !.start = Home[k]]]
    /\ UNCHANGED <<slot, key, val, lists, res>>

\* get: nothing is unlocked, whether the key is there or not.
CasProbe(t) ==
    LET me == th[t]
        locks == Locked(t)
        c == Last(locks)
    IN  /\ At(t, "casProbe")
        /\ LockNext(t)
        /\ th' = [th EXCEPT ![t] = [me EXCEPT
              !.locks = locks,
              !.x = IF c # FREE /\ key[c] = me.key THEN c ELSE None,
              !.pc = CASE c = FREE -> "casMissed"
                       [] c # FREE /\ key[c] = me.key -> "casUnlink"
                       [] OTHER -> Advance(locks, "casProbe")]]
        /\ UNCHANGED <<key, val, lists, res, ops>>

\* get moves the element to the front of the thread's list.
CasUnlink(t) ==
    LET x == th[t].x
    IN  /\ At(t, "casUnlink")
        /\ lru' = [o \in Threads |-> IF Unlinkable(lru[o], x) THEN Unlinked(lru[o], x) ELSE lru[o]]
        /\ th' = [th EXCEPT ![t].pc =
              IF \E o \in Threads : Unlinkable(lru[o], x) THEN "casRelink" ELSE "casCompare"]
        /\ UNCHANGED <<slot, key, val, free, res, ops>>
CasRelink(t) ==
    /\ At(t, "casRelink")
    /\ lru' = [lru EXCEPT ![t] = <<th[t].x>> \o @]
    /\ th' = [th EXCEPT ![t].pc = "casCompare"]
    /\ UNCHANGED <<slot, key, val, free, res, ops>>

\* The tickets are equal.  set takes the length of the range 0 to 0 for
\* hashSize and uses casLocks[hashSize], behind the array: the process ends, or
\* some element y is given the value and touched.
CasEqual(t) ==
    /\ At(t, "casCompare")
    /\ \/ /\ th' = [th EXCEPT ![t].pc = "wildRead"]
          /\ UNCHANGED <<val, res>>
       \/ \E y \in Elements :
             /\ val' = [val EXCEPT ![y] = th[t].val]
             /\ res' = [res EXCEPT ![t] = TRUE]
             /\ th' = [th EXCEPT ![t] = [@ EXCEPT !.pc = "unlockZero", !.x = y, !.next = "unlink"]]
    /\ UNCHANGED <<slot, key, lists, ops>>

\* They differ: the caller unlocks.  Which it is depends on the client.
CasDiffers(t) ==
    /\ At(t, "casCompare")
    /\ res' = [res EXCEPT ![t] = FALSE]
    /\ th' = [th EXCEPT ![t] = [@ EXCEPT !.pc = "unlockZero", !.next = "idle"]]
    /\ UNCHANGED <<slot, key, val, lists, ops>>

\* The key is not there: only the binary protocol unlocks.
CasMissedText(t) ==
    /\ At(t, "casMissed") /\ th[t].op = "casText"
    /\ res' = [res EXCEPT ![t] = FALSE]
    /\ th' = [th EXCEPT ![t] = Idle]
    /\ UNCHANGED <<slot, key, val, lists, ops>>
CasMissedBinary(t) ==
    /\ At(t, "casMissed") /\ th[t].op = "casBinary"
    /\ res' = [res EXCEPT ![t] = FALSE]
    /\ th' = [th EXCEPT ![t] = [@ EXCEPT !.pc = "unlockZero", !.next = "idle"]]
    /\ UNCHANGED <<slot, key, val, lists, ops>>

\* unlockElementsHash on the range 0 to 0.
UnlockZero(t) ==
    LET me == th[t]
    IN  /\ At(t, "unlockZero")
        /\ slot' = [slot EXCEPT ![0] = Head(me.locks)]
        /\ th' = [th EXCEPT ![t] = IF me.next = "idle" THEN Idle
                                   ELSE [me EXCEPT !.pc = me.next, !.locks = <<>>]]
        /\ UNCHANGED <<key, val, lists, res, ops>>

-----------------------------------------------------------------------------
CasStep(t) == \/ CasProbe(t) \/ CasUnlink(t) \/ CasRelink(t) \/ CasEqual(t)
              \/ CasDiffers(t) \/ CasMissedText(t) \/ CasMissedBinary(t) \/ UnlockZero(t)

CasNext == \/ Next
           \/ Running /\ \E t \in Threads : CasStep(t)
           \/ Running /\ \E t \in Threads, o \in CasOps, k \in Keys, v \in Values :
                 CasCall(t, o, k, v)

\* A worker inside an operation keeps running.
CasSpec == Init /\ [][CasNext]_vars
                /\ \A t \in Threads : WF_vars(Step(t) \/ (Running /\ CasStep(t)))

\* The operations return also when compare-and-swap is among them: get and set
\* with casLocks give back every slot they lock, in whatever way the client's
\* example "if (get(false) && (value==expected)) set ( true )" ends.
CasReturns == OperationsReturn
=============================================================================
