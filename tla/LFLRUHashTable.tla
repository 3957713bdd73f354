--------------------------- MODULE LFLRUHashTable ---------------------------
(***************************************************************************)
(* The hash table of LFLRUHashTable.h under get, set, insert, insertOrSet  *)
(* and remove, the operations the text protocol's GET, REPLACE, ADD, SET   *)
(* and DELETE perform, with the eviction an insertion ends in, and under   *)
(* processHash.                                                            *)
(*                                                                         *)
(* Keys are found by linear probing over elementLinks.  A thread locks     *)
(* every slot it passes, in probing order, up to the key or the first free *)
(* slot; it does its work and then unlocks the slots one by one.  Eviction *)
(* removes an entry by moving later entries of the cluster back.           *)
(*                                                                         *)
(* The LRU lists and free lists are sequences here: module LRULists models *)
(* their links word by word and shows that moving, adding and evicting an  *)
(* element each take effect at one instant.                                *)
(***************************************************************************)
EXTENDS Integers, Sequences, FiniteSets, SequencesExt

CONSTANTS Threads,        \* worker threads, numbered from 1
          Keys, Values,
          Home,           \* key -> hasherFunc(key) % hashSize
          HashSize,       \* slots of elementLinks
          PerThread,      \* elements the constructor gives to each thread
          Loaded,         \* keys thread 1 has inserted before the start
          LoadedValue,    \* their value
          Ops,            \* the operations performed
          MaxOps,         \* bound on the operations of one thread
          MaxLockDepth,   \* HASH_MAX_LOCK_DEPTH
          FREE, LOCK,     \* HASH_FREE_MARK and HASH_LOCK_MARK
          None            \* no element, key, value or request

Slots == 0 .. (HashSize - 1)
Elements == 1 .. (PerThread * Cardinality(Threads))
Operations == {"get", "set", "insert", "insertOrSet", "remove", "process"}

\* What the parameters are.  The two marks are no element numbers; None is not a
\* request either.
ASSUME ParameterAssumption ==
    /\ HashSize \in Nat \ {0} /\ PerThread \in Nat /\ MaxOps \in Nat /\ MaxLockDepth \in Nat
    /\ IsFiniteSet(Threads) /\ Threads # {} /\ Threads = 1 .. Cardinality(Threads)
    /\ Home \in [Keys -> Slots]
    /\ Ops \subseteq Operations
    /\ LoadedValue \in Values
    /\ Loaded \in Seq(Keys)
ASSUME MarkAssumption ==
    /\ FREE # LOCK /\ FREE \notin Elements /\ LOCK \notin Elements
    /\ None \notin Elements /\ None \notin Keys /\ None \notin Values
    /\ None \notin Operations
    /\ None \notin [op : Operations, key : Keys, val : Values \cup {None}]
\* The constructor aborts unless there is always a free slot.
ASSUME SizeAssumption == PerThread * Cardinality(Threads) < HashSize
\* The keys loaded before the start did not collide.
ASSUME LoadedAssumption ==
    /\ Len(Loaded) < PerThread
    /\ \A i, j \in DOMAIN Loaded : Home[Loaded[i]] = Home[Loaded[j]] => i = j

VARIABLES slot,        \* elementLinks: slot -> element, FREE or LOCK
          key, val,    \* elementStorage: element -> key and value
          lru, free,   \* thread -> LRU list (head first) and free list
          th,          \* thread -> where it is in an operation
          res,         \* thread -> what its last operation returned
          ops          \* thread -> operations started so far

lists == <<lru, free>>
vars == <<slot, key, val, lists, th, res, ops>>

\* op, key and val are the request; e is the element taken from the free list,
\* later the evicted one, x the element found; locks holds the contents of the
\* locked slots, which start at slot start; del is the position in locks of
\* the hole being filled; next is where to go when everything is unlocked.
Idle == [pc |-> "idle", op |-> None, key |-> None, val |-> None, e |-> None,
         x |-> None, start |-> 0, locks |-> <<>>, del |-> 0, next |-> "idle"]

At(t, label) == th[t].pc = label
SlotAt(t, i) == (th[t].start + i - 1) % HashSize   \* i-th slot t has locked

\* The elements the constructor chains into the free list of thread t.
Own(t) == [i \in 1 .. PerThread |-> (t - 1) * PerThread + i]

Init ==
    /\ slot = [s \in Slots |->
          IF \E i \in DOMAIN Loaded : Home[Loaded[i]] = s
          THEN CHOOSE i \in DOMAIN Loaded : Home[Loaded[i]] = s ELSE FREE]
    /\ key = [e \in Elements |-> IF e \in DOMAIN Loaded THEN Loaded[e] ELSE None]
    /\ val = [e \in Elements |-> IF e \in DOMAIN Loaded THEN LoadedValue ELSE None]
    /\ lru = [t \in Threads |->
          IF t = 1 THEN Reverse(SubSeq(Own(1), 1, Len(Loaded))) ELSE <<>>]
    /\ free = [t \in Threads |->
          IF t = 1 THEN SubSeq(Own(1), Len(Loaded) + 1, PerThread) ELSE Own(t)]
    /\ th = [t \in Threads |-> Idle]
    /\ res = [t \in Threads |-> None]
    /\ ops = [t \in Threads |-> 0]

-----------------------------------------------------------------------------
\* insertOrSet and insert take a free element before they look for the key.
Call(t, o, k, v) ==
    LET pops == o \in {"insert", "insertOrSet"}
    IN  /\ At(t, "idle") /\ ops[t] < MaxOps
        /\ ops' = [ops EXCEPT ![t] = @ + 1]
        /\ th' = [th EXCEPT ![t] = [Idle EXCEPT
              !.pc = IF o = "remove" THEN "findKey" ELSE "probe", !.op = o, !.key = k, !.val = v, !.start = Home[k],
              !.e = IF pops THEN Head(free[t]) ELSE None]]
        /\ free' = IF pops THEN [free EXCEPT ![t] = Tail(@)] ELSE free
        /\ UNCHANGED <<slot, key, val, lru, res>>

\* lockElementHash on the next slot of the probe sequence; spins while another
\* thread holds it.
Locked(t) == Append(th[t].locks, slot[SlotAt(t, Len(th[t].locks) + 1)])
LockNext(t) ==
    LET s == SlotAt(t, Len(th[t].locks) + 1)
    IN  /\ slot[s] # LOCK
        /\ slot' = [slot EXCEPT ![s] = LOCK]

\* The test that should keep lockDepth inside the array of locks.
TooDeep(locks) == Len(locks) - 1 >= MaxLockDepth
Advance(locks, label) == IF TooDeep(locks) THEN "aborted" ELSE label

\* Release everything, then continue at label.
UnlockThen(t, locks, label) ==
    [th[t] EXCEPT !.pc = "unlock", !.locks = locks, !.del = 0, !.next = label]

\* Linear probing for the requested key.
Probe(t) ==
    LET me == th[t]
        locks == Locked(t)
        c == Last(locks)
    IN  /\ At(t, "probe")
        /\ LockNext(t)
        /\ \/ /\ c = FREE /\ me.op \in {"insert", "insertOrSet"}
              /\ th' = [th EXCEPT ![t] = [me EXCEPT !.pc = "fill", !.locks = locks]]
              /\ UNCHANGED res
           \/ /\ c = FREE /\ me.op \in {"get", "set"}
              /\ th' = [th EXCEPT ![t] = UnlockThen(t, locks, "idle")]
              /\ res' = [res EXCEPT ![t] = IF me.op = "get" THEN None ELSE FALSE]
           \/ /\ c # FREE /\ key[c] = me.key
              /\ th' = [th EXCEPT ![t] = [me EXCEPT !.pc = "found", !.locks = locks,
                                                    !.x = c]]
              /\ UNCHANGED res
           \/ /\ c # FREE /\ key[c] # me.key
              /\ th' = [th EXCEPT ![t] = [me EXCEPT !.pc = Advance(locks, "probe"),
                                                    !.locks = locks]]
              /\ UNCHANGED res
        /\ UNCHANGED <<key, val, lists, ops>>

\* The key is there: read or overwrite its value under the slot's lock.
Found(t) ==
    LET me == th[t]
    IN  /\ At(t, "found")
        /\ val' = IF me.op \in {"set", "insertOrSet"} THEN [val EXCEPT ![me.x] = me.val]
                                                      ELSE val
        /\ res' = [res EXCEPT ![t] = IF me.op = "get" THEN val[me.x] ELSE me.op = "set"]
        /\ th' = [th EXCEPT ![t] = UnlockThen(t, me.locks,
                      IF me.op = "insert" THEN "putBack" ELSE "unlink")]
        /\ UNCHANGED <<slot, key, lists, ops>>

\* The key is not there: put the new element into the free slot.
Fill(t) ==
    LET me == th[t]
    IN  /\ At(t, "fill")
        /\ key' = [key EXCEPT ![me.e] = me.key]
        /\ val' = [val EXCEPT ![me.e] = me.val]
        /\ res' = [res EXCEPT ![t] = TRUE]
        /\ th' = [th EXCEPT ![t] = UnlockThen(t, Append(Front(me.locks), me.e), "link")]
        /\ UNCHANGED <<slot, lists, ops>>

\* mutant: the loop stops before the last slot of the range.
UnlockAllButLast(t) ==
    LET me == th[t]
        rest == [me EXCEPT !.start = (@ + 1) % HashSize, !.locks = Tail(@)]
    IN  /\ At(t, "unlock")
        /\ slot' = IF Len(me.locks) > 1
                   THEN [slot EXCEPT ![me.start] = Head(me.locks)] ELSE slot
        /\ th' = [th EXCEPT ![t] =
              IF Len(me.locks) > 1 THEN rest
              ELSE IF me.next = "idle" THEN Idle ELSE [rest EXCEPT !.pc = me.next]]
        /\ UNCHANGED <<key, val, lists, res, ops>>

\* mutant: the range does not wrap around after the last slot.
UnlockNoWrap(t) ==
    LET me == th[t]
        rest == [me EXCEPT !.start = @ + 1, !.locks = Tail(@)]
    IN  /\ At(t, "unlock")
        /\ slot' = [slot EXCEPT ![me.start] = Head(me.locks)]
        /\ th' = [th EXCEPT ![t] =
              IF Len(me.locks) > 1 THEN rest
              ELSE IF me.next = "idle" THEN Idle ELSE [rest EXCEPT !.pc = me.next]]
        /\ UNCHANGED <<key, val, lists, res, ops>>

\* unlockElementsHash: one store per slot, in probing order.
Unlock(t) ==
    LET me == th[t]
        rest == [me EXCEPT !.start = (@ + 1) % HashSize, !.locks = Tail(@)]
    IN  /\ At(t, "unlock")
        /\ slot' = [slot EXCEPT ![me.start] = Head(me.locks)]
        /\ th' = [th EXCEPT ![t] =
              IF Len(me.locks) > 1 THEN rest
              ELSE IF me.next = "idle" THEN Idle ELSE [rest EXCEPT !.pc = me.next]]
        /\ UNCHANGED <<key, val, lists, res, ops>>

-----------------------------------------------------------------------------
\* unlinkElement succeeds away from the two elements at either end of a list.
Unlinkable(s, x) == \E i \in 3 .. (Len(s) - 2) : s[i] = x
Unlinked(s, x) == RemoveAt(s, CHOOSE i \in 3 .. (Len(s) - 2) : s[i] = x)

\* insertOrSet on a present key still has its free element to put back.
FinishTouch(me) == IF me.op = "insertOrSet" THEN [me EXCEPT !.pc = "putBack"]
                                            ELSE Idle

\* mutant: a removal frees its element although it could not be unlinked.
UnlinkFrees(t) ==
    LET me == th[t]
    IN  /\ At(t, "unlink")
        /\ th' = [th EXCEPT ![t] =
              IF me.op = "remove" THEN [me EXCEPT !.pc = "putBack", !.e = me.x]
                                  ELSE FinishTouch(me)]
        /\ UNCHANGED <<slot, key, val, lists, res, ops>>

\* unlinkElement on the element found.  Its slot is no longer locked: by now it
\* may be anywhere.  A removal that fails here leaves it in its list.
Unlink(t) ==
    LET me == th[t]
    IN  /\ At(t, "unlink")
        /\ lru' = [o \in Threads |-> IF Unlinkable(lru[o], me.x)
                                     THEN Unlinked(lru[o], me.x) ELSE lru[o]]
        /\ th' = [th EXCEPT ![t] =
              IF \A o \in Threads : ~Unlinkable(lru[o], me.x) THEN FinishTouch(me)
              ELSE IF me.op = "remove" THEN [me EXCEPT !.pc = "putBack", !.e = me.x]
              ELSE [me EXCEPT !.pc = "relink"]]
        /\ UNCHANGED <<slot, key, val, free, res, ops>>

\* linkHead of the element found: it is now the youngest of the thread's list.
Relink(t) ==
    /\ At(t, "relink")
    /\ lru' = [lru EXCEPT ![t] = <<th[t].x>> \o @]
    /\ th' = [th EXCEPT ![t] = FinishTouch(th[t])]
    /\ UNCHANGED <<slot, key, val, free, res, ops>>

\* Return the element not used, removed or evicted to the free list.
PutBack(t) ==
    /\ At(t, "putBack")
    /\ free' = [free EXCEPT ![t] = <<th[t].e>> \o @]
    /\ th' = [th EXCEPT ![t] = Idle]
    /\ UNCHANGED <<slot, key, val, lru, res, ops>>

\* mutant: no eviction when the free list is used up.
LinkNoEviction(t) ==
    /\ At(t, "link")
    /\ lru' = [lru EXCEPT ![t] = <<th[t].e>> \o @]
    /\ th' = [th EXCEPT ![t] = Idle]
    /\ UNCHANGED <<slot, key, val, free, res, ops>>

\* linkHead of the new element.
Link(t) ==
    /\ At(t, "link")
    /\ lru' = [lru EXCEPT ![t] = <<th[t].e>> \o @]
    /\ th' = [th EXCEPT ![t] = IF free[t] = <<>> THEN [@ EXCEPT !.pc = "evict"]
                                                 ELSE Idle]
    /\ UNCHANGED <<slot, key, val, free, res, ops>>

\* unlinkTail: the last free element was used, so the oldest entry must go.
Evict(t) ==
    LET e == Last(lru[t])
    IN  /\ At(t, "evict")
        /\ lru' = [lru EXCEPT ![t] = Front(@)]
        /\ th' = [th EXCEPT ![t] = [Idle EXCEPT !.pc = "find", !.op = th[t].op,
                                      !.e = e, !.start = Home[key[e]]]]
        /\ UNCHANGED <<slot, key, val, free, res, ops>>
-----------------------------------------------------------------------------
(* removeFromHashPos and removeFromHashKey *)

\* Linear probing for the key of the evicted element.  insertOrSet aborts when
\* it is not there, insert does not look.
Find(t) ==
    LET me == th[t]
        locks == Locked(t)
        c == Last(locks)
    IN  /\ At(t, "find")
        /\ LockNext(t)
        /\ th' = [th EXCEPT ![t] =
              IF c = FREE
              THEN UnlockThen(t, locks, IF me.op = "insertOrSet" THEN "aborted"
                                                                 ELSE "putBack")
              ELSE IF key[c] = key[me.e]
              THEN [me EXCEPT !.pc = Advance(locks, "shift"), !.locks = locks,
                              !.del = Len(locks)]
              ELSE [me EXCEPT !.pc = Advance(locks, "find"), !.locks = locks]]
        /\ UNCHANGED <<key, val, lists, res, ops>>

\* The same for the key of a removal.  There is no test for a free slot: the
\* key of elementStorage[HASH_FREE_MARK] is read, far outside the array.
FindKey(t) ==
    LET me == th[t]
        locks == Locked(t)
        c == Last(locks)
        found == c # FREE /\ key[c] = me.key
    IN  /\ At(t, "findKey")
        /\ LockNext(t)
        /\ th' = [th EXCEPT ![t] =
              IF c = FREE
              THEN [me EXCEPT !.pc = "wildRead", !.locks = locks]
              ELSE IF found
              THEN [me EXCEPT !.pc = Advance(locks, "shift"), !.locks = locks,
                              !.del = Len(locks), !.x = c]
              ELSE [me EXCEPT !.pc = Advance(locks, "findKey"), !.locks = locks]]
        /\ res' = IF found THEN [res EXCEPT ![t] = TRUE] ELSE res
        /\ UNCHANGED <<key, val, lists, ops>>

\* mutants: an entry in the hole's own slot stays; every entry moves.
MovesBackStrict(k, hole) == Home[k] < hole
MovesBackAlways(k, hole) == TRUE
\* May the entry with key k move back into the hole?
MovesBack(k, hole) == Home[k] <= hole

\* mutants: the last hole keeps its old content; the last entry is cleared.
ClearNothing(locks, del) == locks
ClearLast(locks, del) == [locks EXCEPT ![Len(locks) - 1] = FREE]
\* The hole that is left at the end becomes a free slot.
ClearHole(locks, del) == [locks EXCEPT ![del] = FREE]

\* mutant: eviction stays at the slot an entry was moved from, too.
AfterMoveStays(o, locks) == "again"
\* removeFromHashKey does not walk on after it has moved an entry.
AfterMove(o, locks) == IF o = "remove" THEN "again" ELSE Advance(locks, "shift")

\* Walk on to the next free slot; every entry that may, moves into the hole
\* and leaves a new one.
Shift(t) ==
    LET me == th[t]
        locks == Locked(t)
        c == Last(locks)
    IN  /\ At(t, "shift")
        /\ LockNext(t)
        /\ th' = [th EXCEPT ![t] =
              IF c = FREE
              THEN UnlockThen(t, ClearHole(locks, me.del),
                              IF me.op = "remove" THEN "unlink" ELSE "putBack")
              ELSE IF MovesBack(key[c], SlotAt(t, me.del))
              THEN [me EXCEPT !.pc = AfterMove(me.op, locks), !.del = Len(locks),
                              !.locks = [locks EXCEPT ![me.del] = c]]
              ELSE [me EXCEPT !.pc = Advance(locks, "shift"), !.locks = locks]]
        /\ UNCHANGED <<key, val, lists, res, ops>>

\* The slot the moved entry came from, now the hole, is looked at again.
Again(t) ==
    LET me == th[t]
    IN  /\ At(t, "again")
        /\ th' = IF MovesBack(key[Last(me.locks)], SlotAt(t, me.del)) THEN th
                 ELSE [th EXCEPT ![t].pc = Advance(me.locks, "shift")]
        /\ UNCHANGED <<slot, key, val, lists, res, ops>>

-----------------------------------------------------------------------------
(* processHash, with which "stats" counts: one slot after the other.        *)

CallProcess(t) ==
    /\ "process" \in Ops /\ At(t, "idle") /\ ops[t] < MaxOps
    /\ ops' = [ops EXCEPT ![t] = @ + 1]
    /\ th' = [th EXCEPT ![t] = [Idle EXCEPT !.pc = "visit", !.op = "process"]]
    /\ UNCHANGED <<slot, key, val, lists, res>>

Visit(t) ==
    /\ At(t, "visit")
    /\ LockNext(t)
    /\ th' = [th EXCEPT ![t] = [@ EXCEPT !.pc = "leave", !.locks = Locked(t)]]
    /\ UNCHANGED <<key, val, lists, res, ops>>

\* itemProcessor is called for a free slot, too.
Leave(t) ==
    LET me == th[t]
    IN  /\ At(t, "leave")
        /\ slot' = [slot EXCEPT ![me.start] = Head(me.locks)]
        /\ th' = [th EXCEPT ![t] = IF me.start = HashSize - 1 THEN Idle
              ELSE [me EXCEPT !.pc = "visit", !.start = me.start + 1, !.locks = <<>>]]
        /\ UNCHANGED <<key, val, lists, res, ops>>

-----------------------------------------------------------------------------
HashStep(t) == \/ Probe(t) \/ Found(t) \/ Fill(t) \/ Unlock(t) \/ Visit(t) \/ Leave(t)
               \/ Find(t) \/ FindKey(t) \/ Shift(t) \/ Again(t)
ListStep(t) == Unlink(t) \/ Relink(t) \/ PutBack(t) \/ Link(t) \/ Evict(t)

\* abort() and a segmentation fault end the process and so all its threads.
Crashed(t) == th[t].pc \in {"aborted", "wildRead"}
Running == \A t \in Threads : ~Crashed(t)
Step(t) == Running /\ (HashStep(t) \/ ListStep(t))

\* The process has ended, or every thread has used up its bound of operations;
\* not a deadlock.
Stopped == /\ \/ ~Running
              \/ \A t \in Threads : At(t, "idle") /\ ops[t] = MaxOps
           /\ UNCHANGED vars

Next == \/ \E t \in Threads : Step(t)
        \/ Running /\ \E t \in Threads : CallProcess(t)
        \/ Running /\ \E t \in Threads, o \in Ops \ {"process"}, k \in Keys :
              \E v \in (IF o \in {"get", "remove"} THEN {None} ELSE Values) : Call(t, o, k, v)
        \/ Stopped

Spec == Init /\ [][Next]_vars

\* A worker inside an operation keeps running.
FairSpec == Spec /\ \A t \in Threads : WF_vars(Step(t))

-----------------------------------------------------------------------------
(* What the slots contain, whoever holds their locks *)

Holds(t, s) == \E i \in DOMAIN th[t].locks : SlotAt(t, i) = s

\* The content a slot has or will get back.
Raw(s) ==
    IF slot[s] # LOCK THEN slot[s]
    ELSE LET t == CHOOSE u \in Threads : Holds(u, s)
             i == CHOOSE j \in DOMAIN th[t].locks : SlotAt(t, j) = s
         IN  th[t].locks[i]

\* The hole of a removal in progress no longer holds an entry.
IsHole(s) == \E t \in Threads : /\ th[t].pc \in {"shift", "again"}
                               /\ SlotAt(t, th[t].del) = s
Entry(s) == IF IsHole(s) THEN FREE ELSE Raw(s)
Hashed == {Entry(s) : s \in Slots} \ {FREE}

-----------------------------------------------------------------------------
Labels == {"idle", "probe", "found", "fill", "unlock", "unlink", "relink",
           "putBack", "link", "evict", "find", "findKey", "shift", "again",
           "visit", "leave", "wildRead", "aborted"}

TypeOK ==
    /\ slot \in [Slots -> Elements \cup {FREE, LOCK}]
    /\ key \in [Elements -> Keys \cup {None}]
    /\ val \in [Elements -> Values \cup {None}]
    /\ lru \in [Threads -> Seq(Elements)]
    /\ free \in [Threads -> Seq(Elements)]
    /\ res \in [Threads -> Values \cup BOOLEAN \cup {None}]
    /\ ops \in [Threads -> 0 .. MaxOps]
    /\ \A t \in Threads :
          /\ th[t].pc \in Labels
          /\ th[t].op \in Ops \cup {None}
          /\ th[t].e \in Elements \cup {None}
          /\ th[t].x \in Elements \cup {None}
          /\ th[t].start \in Slots
          /\ th[t].locks \in Seq(Elements \cup {FREE})
          /\ th[t].del \in 0 .. Len(th[t].locks)

\* A slot is marked locked exactly while one thread, and only one, remembers
\* its content: no lock is orphaned, broken or taken twice.
LocksOwned ==
    \A s \in Slots : Cardinality({t \in Threads : Holds(t, s)}) =
                     (IF slot[s] = LOCK THEN 1 ELSE 0)

\* Between its home slot and the slot it is in, an entry is preceded by
\* occupied slots only, so that probing finds it, and no key has two entries.
\* Insertion, concurrent eviction and the backward shift all preserve it.
ProbeInvariant ==
    LET entry == [s \in Slots |-> Entry(s)]
        used == {s \in Slots : entry[s] # FREE}
        home(s) == Home[key[entry[s]]]
    IN  /\ \A s \in used : \A d \in 0 .. ((s - home(s)) % HashSize) :
              Raw((home(s) + d) % HashSize) # FREE
        /\ \A r, s \in used : r # s => key[entry[r]] # key[entry[s]]

\* Elements that are in no list: the one a thread has popped and not linked,
\* or unlinked and neither linked again nor freed.
InHand(t) == ({IF At(t, "evict") THEN None ELSE th[t].e,
               IF At(t, "relink") THEN th[t].x ELSE None}) \ {None}

\* Every element is in one LRU list, in one free list or in one thread's hands.
ElementsConserved ==
    LET place(p) == CASE p[2] = "lru"  -> Range(lru[p[1]])
                      [] p[2] = "free" -> Range(free[p[1]])
                      [] p[2] = "hand" -> InHand(p[1])
        places == Threads \X {"lru", "free", "hand"}
    IN  /\ UNION {place(p) : p \in places} = Elements
        /\ \A p, q \in places : p # q => place(p) \cap place(q) = {}

\* No slot refers to an element on a free list, where the next insertion would
\* overwrite its key and value without holding that slot's lock.
FreeNotHashed == \A t \in Threads : Range(free[t]) \cap Hashed = {}

\* insertOrSet's abort(), reached when the evicted element is not in the hash,
\* and the aborts on a full array of locks are never executed.
NoAbort == \A t \in Threads : th[t].pc # "aborted"

\* A thread between operations has a free element: insertOrSet and insert read
\* elementStorage[freeListHead] without testing for the end mark.
FreeElementReady == \A t \in Threads : At(t, "idle") => free[t] # <<>>

\* Every operation returns: threads that lock overlapping runs of slots never
\* wait for each other in a circle and none waits for a lock left behind (unless
\* the process has ended).
OperationsReturn ==
    \A t \in Threads : ~At(t, "idle") ~> (At(t, "idle") \/ ~Running)

-----------------------------------------------------------------------------
\* The map the table stands for, and the requests that have not taken effect.
CacheNow ==
    LET hashed == Hashed
    IN  [k \in Keys |-> IF \E e \in hashed : key[e] = k
                        THEN val[CHOOSE e \in hashed : key[e] = k] ELSE None]
Pending == [t \in Threads |->
    IF th[t].key # None /\ th[t].pc \in {"probe", "found", "fill", "findKey",
                                         "wildRead", "aborted"}
    THEN [op |-> th[t].op, key |-> th[t].key, val |-> th[t].val] ELSE None]

TheCache == INSTANCE Cache WITH
    Absent <- None, NoRequest <- None, cache <- CacheNow, req <- Pending, res <- res

\* Without removals the table is a linearizable cache: every get returns the
\* value stored last and misses only keys that are absent at that moment.  (With
\* removals an element may be freed while a slot refers to it.)
ImplementsCache == TheCache!Spec
=============================================================================
