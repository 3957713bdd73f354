------------------------ MODULE LFLRUHashTableProofs ------------------------
(***************************************************************************)
(* Proofs about the hash table, for every number of threads, slots,        *)
(* elements and keys, with and without wrap-around.                        *)
(***************************************************************************)
EXTENDS LFLRUHashTable, FiniteSetTheorems, SequenceTheorems, TLAPS

Contents == Elements \cup {FREE}
ThreadState ==
    [pc : Labels, op : Ops \cup {None}, key : Keys \cup {None},
     val : Values \cup {None}, e : Elements \cup {None}, x : Elements \cup {None},
     start : Slots, locks : Seq(Contents), del : Nat, next : Labels]

TableTypes ==
    /\ slot \in [Slots -> Contents \cup {LOCK}]
    /\ key \in [Elements -> Keys \cup {None}]
    /\ val \in [Elements -> Values \cup {None}]
    /\ lru \in [Threads -> Seq(Elements)]
    /\ free \in [Threads -> Seq(Elements)]
    /\ res \in [Threads -> Values \cup BOOLEAN \cup {None}]
    /\ ops \in [Threads -> 0 .. MaxOps]
ThreadTypes == th \in [Threads -> ThreadState]

\* The n slots from start on, around the end of the array.
Run(start, n) == {(start + i - 1) % HashSize : i \in 1 .. n}
\* The slots a thread in state r has locked.
HeldBy(r) == Run(r.start, Len(r.locks))

\* A slot is marked exactly when it is in the run of one thread.
LockInv ==
    /\ \A s \in Slots : slot[s] = LOCK <=> \E t \in Threads : s \in HeldBy(th[t])
    /\ \A t, u \in Threads : t # u => HeldBy(th[t]) \cap HeldBy(th[u]) = {}
    /\ \A t \in Threads : Len(th[t].locks) <= HashSize

\* What a thread has locked at each label.
LocksAt(r) ==
    /\ r.pc \in {"idle", "unlink", "relink", "putBack", "link", "evict", "visit"}
          => r.locks = <<>>
    /\ r.pc \in {"found", "fill", "unlock", "shift", "again", "leave"} => r.locks # <<>>
    /\ r.pc = "leave" => Len(r.locks) = 1
    /\ r.del <= Len(r.locks)
    /\ r.pc \in {"shift", "again"} => r.del > 0
    /\ r.pc \in {"unlock", "leave"} => r.del = 0

\* Where the thread is, or will be once it has unlocked its slots.
Goal(r) == IF r.pc = "unlock" THEN r.next ELSE r.pc

Inserts == {"insert", "insertOrSet"}

\* Which operations reach a label, and what they know there.
OpAt(r) ==
    /\ r.pc = "idle" => r = Idle
    /\ r.pc \in {"probe", "found"} => r.op \in {"get", "set"} \cup Inserts
    /\ r.pc = "unlock" => r.next \in {"idle", "putBack", "unlink", "link", "aborted"}
    /\ r.pc = "unlock" /\ r.next = "idle" => r.op \in {"get", "set"}
    /\ r.pc = "findKey" => r.op = "remove"
    /\ r.pc \in {"visit", "leave"} => r.op = "process"
    /\ Goal(r) \in {"unlink", "relink"} => r.op \in {"get", "set", "insertOrSet", "remove"}
    /\ Goal(r) = "relink" => r.op # "remove"
    /\ Goal(r) \in {"fill", "link", "evict", "find"} => r.op \in Inserts
    /\ r.pc \in {"shift", "again"} => r.op \in {"remove"} \cup Inserts
    /\ r.op = None => r.pc = "idle"
    /\ r.pc \in {"probe", "found", "fill", "findKey"} => r.key # None

\* What element it has in hand and which it has found.
ElementAt(r, keys) ==
    /\ r.op \in Inserts => r.e # None
    /\ r.op \in {"get", "set", "process"} => r.e = None
    /\ r.op = "remove" /\ r.pc # "putBack" => r.e = None
    /\ Goal(r) = "putBack" => r.e # None
    /\ r.pc = "found" \/ Goal(r) \in {"unlink", "relink"} => r.x # None
    /\ r.pc \in {"shift", "again"} /\ r.op = "remove" => r.x # None
    /\ r.x # None => keys[r.x] # None
    /\ Goal(r) \in {"link", "evict"} => keys[r.e] # None

ThreadInv(r, keys) == LocksAt(r) /\ OpAt(r) /\ ElementAt(r, keys)

\* A listed element has a key; a thread that has used up its free list is in an
\* insertion, which ends with a new free element; a list to evict from is not empty.
ListInv ==
    /\ \A t \in Threads : \A i \in 1 .. Len(lru[t]) : key[lru[t][i]] # None
    /\ \A t \in Threads : free[t] = <<>> => th[t].op \in Inserts
    /\ \A t \in Threads : At(t, "evict") => lru[t] # <<>>

HashInv == /\ TableTypes /\ ThreadTypes /\ LockInv /\ ListInv
           /\ \A t \in Threads : ThreadInv(th[t], key)

-----------------------------------------------------------------------------
(* Runs of slots *)

\* The array has a slot.
LEMMA SizePositive == HashSize \in Nat /\ HashSize > 0
BY ParameterAssumption

\* The remainder modulo HashSize of a number below twice HashSize.
LEMMA ModLemma ==
    ASSUME NEW n \in Int, 0 <= n, n < 2 * HashSize
    PROVE  n % HashSize = IF n < HashSize THEN n ELSE n - HashSize
BY SizePositive

\* A run of no slots is empty.
LEMMA RunEmpty == \A a \in Slots : Run(a, 0) = {}
BY DEF Run

\* A run stays in the array: addresses wrap at its end.
LEMMA RunInSlots == \A a \in Slots, n \in Nat : Run(a, n) \subseteq Slots
BY ParameterAssumption DEF Run, Slots

\* A run grows at its end.
LEMMA RunGrows ==
    \A a \in Slots, n \in Nat :
        /\ Run(a, n + 1) = Run(a, n) \cup {(a + n) % HashSize}
        /\ (a + n) % HashSize \in Slots
<1> SUFFICES ASSUME NEW a \in Slots, NEW n \in Nat
             PROVE  /\ Run(a, n + 1) = Run(a, n) \cup {(a + n) % HashSize}
                    /\ (a + n) % HashSize \in Slots
    OBVIOUS
<1>1. 1 .. n + 1 = (1 .. n) \cup {n + 1}
    OBVIOUS
<1>2. a + (n + 1) - 1 = a + n
    BY DEF Slots
<1>3. (a + n) % HashSize \in Slots
    BY ParameterAssumption DEF Slots
<1> QED
    BY <1>1, <1>2, <1>3 DEF Run

\* A run of all slots contains the slot after its last one.
LEMMA RunFull == \A a \in Slots : (a + HashSize) % HashSize \in Run(a, HashSize)
<1> SUFFICES ASSUME NEW a \in Slots PROVE (a + HashSize) % HashSize \in Run(a, HashSize)
    OBVIOUS
<1>1. (a + HashSize) % HashSize = a /\ (a + 1 - 1) % HashSize = a
    BY SizePositive DEF Slots
<1>2. 1 \in 1 .. HashSize
    BY ParameterAssumption
<1> QED
    BY <1>1, <1>2 DEF Run

\* A run that is no longer than the array shrinks at its start.
LEMMA RunShrinks ==
    \A a \in Slots, n \in 1 .. HashSize :
        /\ Run(a, n) = Run((a + 1) % HashSize, n - 1) \cup {a}
        /\ a \notin Run((a + 1) % HashSize, n - 1)
        /\ (a + 1) % HashSize \in Slots
<1> SUFFICES ASSUME NEW a \in Slots, NEW n \in 1 .. HashSize
             PROVE  /\ Run(a, n) = Run((a + 1) % HashSize, n - 1) \cup {a}
                    /\ a \notin Run((a + 1) % HashSize, n - 1)
                    /\ (a + 1) % HashSize \in Slots
    OBVIOUS
<1> DEFINE b == (a + 1) % HashSize
<1>1. b \in Slots /\ b = IF a + 1 < HashSize THEN a + 1 ELSE 0
    BY SizePositive DEF Slots
<1>2. \A i \in 1 .. n - 1 : (b + i - 1) % HashSize = (a + (i + 1) - 1) % HashSize
  <2> SUFFICES ASSUME NEW i \in 1 .. n - 1
               PROVE (b + i - 1) % HashSize = (a + (i + 1) - 1) % HashSize
      OBVIOUS
  <2>1. CASE a + 1 < HashSize
      BY <2>1, <1>1 DEF Slots
  <2>2. CASE a + 1 = HashSize
    <3>1. b + i - 1 = i - 1 /\ a + (i + 1) - 1 = HashSize + i - 1
        BY <2>2, <1>1 DEF Slots
    <3>2. (i - 1) % HashSize = i - 1 /\ (HashSize + i - 1) % HashSize = i - 1
        BY SizePositive
    <3> QED
        BY <3>1, <3>2
  <2> QED
      BY <2>1, <2>2, SizePositive DEF Slots
<1>3. (a + 1 - 1) % HashSize = a
    BY SizePositive DEF Slots
<1>4. \A i \in 2 .. n : (a + i - 1) % HashSize # a
    BY SizePositive DEF Slots
<1>5. \A i \in 1 .. n - 1 : i + 1 \in 2 .. n
    OBVIOUS
<1>6. a \notin Run(b, n - 1)
    BY <1>2, <1>4, <1>5 DEF Run
<1>7. \A i \in 1 .. n : i = 1 \/ (i - 1 \in 1 .. n - 1 /\ (i - 1) + 1 = i)
    OBVIOUS
<1>8. 1 \in 1 .. n /\ \A i \in 1 .. n - 1 : i + 1 \in 1 .. n
    OBVIOUS
<1>9. ASSUME NEW s \in Run(a, n) PROVE s \in Run(b, n - 1) \cup {a}
  <2>1. PICK i \in 1 .. n : s = (a + i - 1) % HashSize
      BY <1>9 DEF Run
  <2>2. CASE i = 1
      BY <2>1, <2>2, <1>3
  <2>3. CASE i - 1 \in 1 .. n - 1 /\ (i - 1) + 1 = i
    <3>1. (b + (i - 1) - 1) % HashSize = (a + ((i - 1) + 1) - 1) % HashSize
        BY <2>3, <1>2
    <3> QED
        BY <3>1, <2>1, <2>3 DEF Run
  <2> QED
      BY <2>2, <2>3, <1>7
<1>10. ASSUME NEW s \in Run(b, n - 1) \cup {a} PROVE s \in Run(a, n)
    BY <1>10, <1>2, <1>3, <1>8 DEF Run
<1> HIDE DEF b
<1>11. Run(a, n) = Run(b, n - 1) \cup {a}
    BY <1>9, <1>10
<1> QED
    BY <1>1, <1>6, <1>11 DEF b

-----------------------------------------------------------------------------
(* What a step of one thread does to the locks *)

\* A step that neither takes nor releases a lock.
LEMMA LocksKept ==
    ASSUME LockInv, UNCHANGED slot,
           \A u \in Threads : /\ HeldBy(th'[u]) = HeldBy(th[u])
                              /\ Len(th'[u].locks) <= HashSize
    PROVE  LockInv'
BY DEF LockInv

\* lockElementHash on the slot after the run of thread t.
LEMMA LockTaken ==
    ASSUME LockInv, TableTypes, ThreadTypes, NEW t \in Threads, LockNext(t),
           th'[t].start = th[t].start, Len(th'[t].locks) = Len(th[t].locks) + 1,
           \A u \in Threads \ {t} : th'[u] = th[u]
    PROVE  LockInv'
<1>1. PICK n \in Nat, a \in Slots : n = Len(th[t].locks) /\ a = th[t].start
    BY DEF ThreadTypes, ThreadState
<1>2. PICK s : s = (a + n) % HashSize
    OBVIOUS
<1>3. s = SlotAt(t, n + 1) /\ s \in Slots
  <2>1. a + (n + 1) - 1 = a + n
      BY DEF Slots
  <2> QED
      BY <2>1, <1>1, <1>2, RunGrows DEF SlotAt
<1>4. slot[s] # LOCK /\ slot' = [slot EXCEPT ![s] = LOCK]
    BY <1>1, <1>3 DEF LockNext
<1>5. HeldBy(th[t]) = Run(a, n)
    BY <1>1 DEF HeldBy
<1>6. HeldBy(th'[t]) = HeldBy(th[t]) \cup {s}
    BY <1>1, <1>2, <1>5, RunGrows DEF HeldBy
<1>7. \A u \in Threads : u # t => HeldBy(th'[u]) = HeldBy(th[u])
    BY DEF HeldBy
<1>8. \A u \in Threads : s \notin HeldBy(th[u])
    BY <1>3, <1>4 DEF LockInv
<1>9. n < HashSize
  <2>1. n # HashSize
      BY <1>2, <1>5, <1>8, RunFull
  <2> QED
      BY <2>1, <1>1, SizePositive DEF LockInv
<1>10. \A r \in Slots : slot'[r] = IF r = s THEN LOCK ELSE slot[r]
    BY <1>4 DEF TableTypes
<1>11. \A r \in Slots : slot'[r] = LOCK <=> \E u \in Threads : r \in HeldBy(th'[u])
    BY <1>10, <1>6, <1>7 DEF LockInv
<1>12. \A u, v \in Threads : u # v => HeldBy(th'[u]) \cap HeldBy(th'[v]) = {}
  <2> SUFFICES ASSUME NEW u \in Threads, NEW v \in Threads, u # v,
                      NEW r \in HeldBy(th'[u]), r \in HeldBy(th'[v])
               PROVE  FALSE
      OBVIOUS
  <2>1. HeldBy(th[u]) \cap HeldBy(th[v]) = {}
      BY DEF LockInv
  <2>2. CASE u = t
      BY <2>1, <2>2, <1>6, <1>7, <1>8
  <2>3. CASE v = t
      BY <2>1, <2>3, <1>6, <1>7, <1>8
  <2>4. CASE u # t /\ v # t
      BY <2>1, <2>4, <1>7
  <2> QED
      BY <2>2, <2>3, <2>4
<1>13. \A u \in Threads : Len(th'[u].locks) <= HashSize
    BY <1>1, <1>9, SizePositive DEF LockInv
<1> QED
    BY <1>11, <1>12, <1>13 DEF LockInv

\* The first slot of the run of thread t is given back with content c.
LEMMA LockReleased ==
    ASSUME LockInv, TableTypes, ThreadTypes, NEW t \in Threads, NEW c \in Contents,
           Len(th[t].locks) > 0, slot' = [slot EXCEPT ![th[t].start] = c],
           Len(th'[t].locks) = Len(th[t].locks) - 1, th'[t].start \in Slots,
           Len(th[t].locks) > 1 => th'[t].start = (th[t].start + 1) % HashSize,
           \A u \in Threads \ {t} : th'[u] = th[u]
    PROVE  LockInv'
<1>1. PICK n \in Nat, a \in Slots : n = Len(th[t].locks) /\ a = th[t].start
    BY DEF ThreadTypes, ThreadState
<1>2. n \in 1 .. HashSize
    BY <1>1, SizePositive DEF LockInv
<1>3. HeldBy(th[t]) = Run(a, n)
    BY <1>1 DEF HeldBy
<1>4. HeldBy(th'[t]) = Run((a + 1) % HashSize, n - 1)
  <2>1. CASE n > 1
      BY <2>1, <1>1 DEF HeldBy
  <2>2. CASE n = 1
    <3>1. HeldBy(th'[t]) = {}
      <4>1. Len(th'[t].locks) = 0
          BY <2>2, <1>1
      <4> QED
          BY <4>1, RunEmpty DEF HeldBy
    <3>2. Run((a + 1) % HashSize, 0) = {}
        BY RunEmpty, RunShrinks, <1>2
    <3> QED
        BY <3>1, <3>2, <2>2
  <2> QED
      BY <2>1, <2>2, <1>2
<1>5. HeldBy(th[t]) = HeldBy(th'[t]) \cup {a} /\ a \notin HeldBy(th'[t])
    BY <1>2, <1>3, <1>4, RunShrinks
<1>6. \A u \in Threads : u # t => HeldBy(th'[u]) = HeldBy(th[u])
    BY DEF HeldBy
<1>7. c # LOCK
    BY MarkAssumption DEF Contents
<1>8. \A r \in Slots : slot'[r] = IF r = a THEN c ELSE slot[r]
    BY <1>1 DEF TableTypes
<1>9. \A u \in Threads : a \notin HeldBy(th'[u])
    BY <1>5, <1>6 DEF LockInv
<1>10. \A r \in Slots : slot'[r] = LOCK <=> \E u \in Threads : r \in HeldBy(th'[u])
    BY <1>5, <1>6, <1>7, <1>8, <1>9 DEF LockInv
<1>11. \A u, v \in Threads : u # v => HeldBy(th'[u]) \cap HeldBy(th'[v]) = {}
    BY <1>5, <1>6 DEF LockInv
<1>12. \A u \in Threads : Len(th'[u].locks) <= HashSize
    BY <1>1, <1>2, SizePositive DEF LockInv
<1> QED
    BY <1>10, <1>11, <1>12 DEF LockInv

-----------------------------------------------------------------------------
(* What a step of one thread does to the rest *)

\* A key, once given to an element, is only replaced by another.
KeysKept == \A e \in Elements : key[e] # None => key'[e] # None

\* The invariant after a step in which thread t goes to state r.
LEMMA LocalStep ==
    ASSUME HashInv, NEW t \in Threads, NEW r \in ThreadState,
           th' = [th EXCEPT ![t] = r], TableTypes', KeysKept,
           ThreadInv(r, key'), LockInv', ListInv'
    PROVE  HashInv'
<1>1. th'[t] = r /\ \A u \in Threads : u # t => th'[u] = th[u]
    BY DEF HashInv, ThreadTypes
<1>2. ThreadTypes'
    BY DEF HashInv, ThreadTypes
<1>3. ASSUME NEW u \in Threads, u # t PROVE ThreadInv(th[u], key')
  <2>1. PICK q \in ThreadState : q = th[u] /\ ThreadInv(q, key)
      BY DEF HashInv, ThreadTypes
  <2>2. (q.x # None => q.x \in Elements) /\ (q.e # None => q.e \in Elements)
      BY <2>1 DEF ThreadState
  <2>3. Goal(q) \in {"link", "evict"} => q.e # None
      BY <2>1 DEF ThreadInv, ElementAt, OpAt
  <2>4. ElementAt(q, key')
      BY <2>1, <2>2, <2>3 DEF ThreadInv, ElementAt, KeysKept
  <2> QED
      BY <2>1, <2>4 DEF ThreadInv
<1>4. \A u \in Threads : ThreadInv(th'[u], key')
    BY <1>1, <1>3
<1> QED
    BY <1>2, <1>4 DEF HashInv

\* The lists after a step that leaves them alone.
LEMMA ListsKept ==
    ASSUME HashInv, NEW t \in Threads, NEW r \in ThreadState,
           th' = [th EXCEPT ![t] = r], UNCHANGED lists, KeysKept,
           r.pc # "evict", r.op = th[t].op \/ free[t] # <<>>
    PROVE  ListInv'
<1>1. th'[t] = r /\ \A u \in Threads : u # t => th'[u] = th[u]
    BY DEF HashInv, ThreadTypes
<1>2. lru' = lru /\ free' = free
    BY DEF lists
<1>3. \A u \in Threads : \A i \in 1 .. Len(lru[u]) : lru[u][i] \in Elements
    BY DEF HashInv, TableTypes
<1>4. \A u \in Threads : \A i \in 1 .. Len(lru'[u]) : key'[lru'[u][i]] # None
    BY <1>2, <1>3 DEF HashInv, ListInv, KeysKept
<1>5. \A u \in Threads : free'[u] = <<>> => th'[u].op \in Inserts
    BY <1>1, <1>2 DEF HashInv, ListInv
<1>6. \A u \in Threads : th'[u].pc = "evict" => lru'[u] # <<>>
    BY <1>1, <1>2 DEF HashInv, ListInv, At
<1> QED
    BY <1>4, <1>5, <1>6 DEF ListInv, At

\* lockElementHash on the next slot adds its content to the locks.
LEMMA NextLock ==
    ASSUME HashInv, NEW t \in Threads, LockNext(t)
    PROVE  /\ slot' \in [Slots -> Contents \cup {LOCK}]
           /\ Locked(t) \in Seq(Contents)
           /\ Len(Locked(t)) = Len(th[t].locks) + 1
           /\ Last(Locked(t)) \in Contents
           /\ Locked(t) # <<>>
<1>1. PICK n \in Nat, a \in Slots : n = Len(th[t].locks) /\ a = th[t].start
    BY DEF HashInv, ThreadTypes, ThreadState
<1>2. PICK s : s = SlotAt(t, n + 1)
    OBVIOUS
<1>3. s \in Slots
    BY <1>1, <1>2, SizePositive DEF SlotAt, Slots
<1>4. slot[s] # LOCK /\ slot' = [slot EXCEPT ![s] = LOCK]
    BY <1>1, <1>2 DEF LockNext
<1>5. slot[s] \in Contents
    BY <1>3, <1>4 DEF HashInv, TableTypes
<1>6. Locked(t) = Append(th[t].locks, slot[s])
    BY <1>1, <1>2 DEF Locked
<1>7. th[t].locks \in Seq(Contents)
    BY DEF HashInv, ThreadTypes, ThreadState
<1>8. Locked(t) \in Seq(Contents) /\ Len(Locked(t)) = n + 1
    BY <1>1, <1>5, <1>6, <1>7
<1>9. Last(Locked(t)) = slot[s]
  <2>1. Append(th[t].locks, slot[s])[n + 1] = slot[s]
      BY <1>1, <1>5, <1>7
  <2> QED
      BY <2>1, <1>6, <1>8 DEF Last
<1>10. slot' \in [Slots -> Contents \cup {LOCK}]
    BY <1>3, <1>4 DEF HashInv, TableTypes
<1> QED
    BY <1>1, <1>5, <1>8, <1>9, <1>10

\* The state of thread t in every step of its own.
LEMMA Mine ==
    ASSUME HashInv, NEW t \in Threads
    PROVE  th[t] \in ThreadState /\ ThreadInv(th[t], key)
BY DEF HashInv, ThreadTypes

-----------------------------------------------------------------------------
(* The new state of a thread, field by field *)

\* The parts of a thread's state that a step inside one operation keeps.
Same(r, me) == r.op = me.op /\ r.key = me.key /\ r.start = me.start

\* It starts to unlock.
LEMMA GoUnlock ==
    ASSUME NEW t, th[t] \in ThreadState, NEW label \in Labels, NEW locks \in Seq(Contents),
           NEW r, r = UnlockThen(t, locks, label)
    PROVE  /\ r \in ThreadState /\ Same(r, th[t])
           /\ r.pc = "unlock" /\ r.locks = locks /\ r.del = 0
           /\ r.e = th[t].e /\ r.x = th[t].x /\ r.next = label
<1>1. "unlock" \in Labels
    BY DEF Labels
<1> QED
    BY <1>1 DEF ThreadState, UnlockThen, Same

\* It has no operation.
LEMMA GoIdle ==
    /\ Idle \in ThreadState /\ Idle.pc = "idle" /\ Idle.op = None /\ Idle.locks = <<>>
    /\ Idle.start = 0 /\ Idle.e = None /\ Idle.x = None /\ Idle.del = 0 /\ Idle.key = None
    /\ \A keys : ThreadInv(Idle, keys)
<1>1. "idle" \in Labels
    BY DEF Labels
<1>2. Idle \in ThreadState
    BY <1>1, SizePositive DEF ThreadState, Idle, Slots
<1>3. /\ Idle.pc = "idle" /\ Idle.op = None /\ Idle.locks = <<>>
      /\ Idle.start = 0 /\ Idle.e = None /\ Idle.x = None /\ Idle.del = 0 /\ Idle.key = None
    BY DEF Idle
<1>4. None \notin {"get", "set", "insert", "insertOrSet", "remove", "process"}
    BY MarkAssumption DEF Operations
<1>5. \A keys : ThreadInv(Idle, keys)
    BY <1>3, <1>4 DEF ThreadInv, LocksAt, OpAt, ElementAt, Goal, Inserts
<1> QED
    BY <1>2, <1>3, <1>5

\* A step that locks the next slot and leaves elements and lists alone.
LEMMA LockingStep ==
    ASSUME HashInv, NEW t \in Threads, LockNext(t), UNCHANGED <<key, val, lists, ops>>,
           res' \in [Threads -> Values \cup BOOLEAN \cup {None}],
           NEW r \in ThreadState, th' = [th EXCEPT ![t] = r], ThreadInv(r, key),
           r.start = th[t].start, Len(r.locks) = Len(th[t].locks) + 1, r.op = th[t].op,
           r.pc # "evict"
    PROVE  HashInv'
<1>1. KeysKept
    BY DEF KeysKept
<1>2. TableTypes'
    BY NextLock DEF HashInv, TableTypes, lists
<1>3. ListInv'
    BY <1>1, ListsKept
<1>4. th'[t] = r /\ \A u \in Threads \ {t} : th'[u] = th[u]
    BY DEF HashInv, ThreadTypes
<1>5. LockInv'
    BY <1>4, LockTaken DEF HashInv
<1> QED
    BY <1>1, <1>2, <1>3, <1>5, LocalStep

\* What is known when the next slot is locked.
LEMMA Locking ==
    ASSUME HashInv, NEW t \in Threads, LockNext(t)
    PROVE  \E me \in ThreadState, locks \in Seq(Contents), c \in Contents :
              /\ me = th[t] /\ ThreadInv(me, key)
              /\ locks = Locked(t) /\ locks # <<>> /\ c = Last(locks)
              /\ Len(locks) = Len(me.locks) + 1 /\ me.del <= Len(locks)
              /\ Len(locks) \in Nat
<1>1. PICK me \in ThreadState : me = th[t] /\ ThreadInv(me, key)
    BY Mine
<1>2. PICK locks \in Seq(Contents) : /\ locks = Locked(t) /\ locks # <<>>
                                     /\ Len(locks) = Len(me.locks) + 1
                                     /\ Last(locks) \in Contents
    BY <1>1, NextLock
<1>3. me.del <= Len(me.locks) /\ me.del \in Nat /\ Len(me.locks) \in Nat
    BY <1>1 DEF ThreadInv, LocksAt, ThreadState
<1> QED
    BY <1>1, <1>2, <1>3

-----------------------------------------------------------------------------
(* One lemma for each action *)

\* Probing one more slot (get, set, insertOrSet, insert, remove and process): it is
\* locked, and its element is compared with the key.
LEMMA ProbeStep ==
    ASSUME HashInv, NEW t \in Threads, Probe(t)
    PROVE  HashInv'
<1>1. LockNext(t) /\ UNCHANGED <<key, val, lists, ops>>
    BY DEF Probe
<1>2. PICK me \in ThreadState, locks \in Seq(Contents), c \in Contents :
          /\ me = th[t] /\ ThreadInv(me, key)
          /\ locks = Locked(t) /\ locks # <<>> /\ c = Last(locks)
          /\ Len(locks) = Len(me.locks) + 1 /\ me.del <= Len(locks)
    BY <1>1, Locking
<1>3. me.pc = "probe" /\ me.key # None /\ me.op \in {"get", "set"} \cup Inserts
    BY <1>2 DEF Probe, At, ThreadInv, OpAt
<1>4. res \in [Threads -> Values \cup BOOLEAN \cup {None}]
    BY DEF HashInv, TableTypes
<1>5. CASE c = FREE /\ me.op \in {"insert", "insertOrSet"}
  <2>1. PICK r : r = [me EXCEPT !.pc = "fill", !.locks = locks]
      OBVIOUS
  <2>2. "fill" \in Labels
      BY DEF Labels
  <2>3. /\ r \in ThreadState /\ Same(r, me)
        /\ r.pc = "fill" /\ r.locks = locks /\ r.del = me.del
        /\ r.e = me.e /\ r.x = me.x
      BY <2>1, <2>2 DEF ThreadState, Same
  <2>4. ThreadInv(r, key)
      BY <2>3, <1>2, <1>3, <1>5
      DEF ThreadInv, LocksAt, OpAt, ElementAt, Goal, Inserts, Same
  <2>5. th' = [th EXCEPT ![t] = r] /\ res' = res
      BY <2>1, <1>2, <1>5 DEF Probe
  <2> QED
      BY <2>3, <2>4, <2>5, <1>1, <1>2, <1>4, LockingStep DEF Same
<1>6. CASE c = FREE /\ me.op \in {"get", "set"}
  <2>1. PICK r : r = UnlockThen(t, locks, "idle")
      OBVIOUS
  <2>2. "idle" \in Labels
      BY DEF Labels
  <2>3. /\ r \in ThreadState /\ Same(r, me)
        /\ r.pc = "unlock" /\ r.locks = locks /\ r.del = 0
        /\ r.e = me.e /\ r.x = me.x /\ r.next = "idle"
      BY <2>1, <2>2, <1>2, GoUnlock
  <2>4. ThreadInv(r, key)
      BY <2>3, <1>2, <1>3, <1>6
      DEF ThreadInv, LocksAt, OpAt, ElementAt, Goal, Inserts, Same
  <2>5. th' = [th EXCEPT ![t] = r]
      BY <2>1, <1>2, <1>6 DEF Probe
  <2>6. res' = [res EXCEPT ![t] = IF me.op = "get" THEN None ELSE FALSE]
      BY <1>2, <1>6 DEF Probe
  <2>7. res' \in [Threads -> Values \cup BOOLEAN \cup {None}]
      BY <2>6, <1>4
  <2> QED
      BY <2>3, <2>4, <2>5, <2>7, <1>1, <1>2, LockingStep DEF Same
<1>7. CASE c # FREE /\ key[c] = me.key
  <2>1. PICK r : r = [me EXCEPT !.pc = "found", !.locks = locks, !.x = c]
      OBVIOUS
  <2>2. "found" \in Labels /\ c \in Elements /\ c # None
      BY <1>7, MarkAssumption DEF Labels, Contents
  <2>3. /\ r \in ThreadState /\ Same(r, me)
        /\ r.pc = "found" /\ r.locks = locks /\ r.del = me.del
        /\ r.e = me.e /\ r.x = c
      BY <2>1, <2>2 DEF ThreadState, Same
  <2>4. ThreadInv(r, key)
      BY <2>2, <2>3, <1>2, <1>3, <1>7
      DEF ThreadInv, LocksAt, OpAt, ElementAt, Goal, Inserts, Same
  <2>5. th' = [th EXCEPT ![t] = r] /\ res' = res
      BY <2>1, <1>2, <1>7 DEF Probe
  <2> QED
      BY <2>3, <2>4, <2>5, <1>1, <1>2, <1>4, LockingStep DEF Same
<1>8. CASE c # FREE /\ key[c] # me.key
  <2>1. PICK l \in {"probe", "aborted"} : l = Advance(locks, "probe")
      BY DEF Advance
  <2>2. PICK r : r = [me EXCEPT !.pc = l, !.locks = locks]
      OBVIOUS
  <2>3. l \in Labels
      BY DEF Labels
  <2>4. /\ r \in ThreadState /\ Same(r, me)
        /\ r.pc = l /\ r.locks = locks /\ r.del = me.del
        /\ r.e = me.e /\ r.x = me.x
      BY <2>2, <2>3 DEF ThreadState, Same
  <2>5. ThreadInv(r, key)
      BY <2>4, <1>2, <1>3, <1>8
      DEF ThreadInv, LocksAt, OpAt, ElementAt, Goal, Inserts, Same
  <2>6. th' = [th EXCEPT ![t] = r] /\ res' = res
      BY <2>1, <2>2, <1>2, <1>8 DEF Probe
  <2> QED
      BY <2>1, <2>4, <2>5, <2>6, <1>1, <1>2, <1>4, LockingStep DEF Same
<1> QED
    BY <1>2, <1>5, <1>6, <1>7, <1>8 DEF Probe

\* Looking one slot further for the element to be evicted.
LEMMA FindStep ==
    ASSUME HashInv, NEW t \in Threads, Find(t)
    PROVE  HashInv'
<1>1. LockNext(t) /\ UNCHANGED <<key, val, lists, ops>> /\ res' = res
    BY DEF Find
<1>2. PICK me \in ThreadState, locks \in Seq(Contents), c \in Contents :
          /\ me = th[t] /\ ThreadInv(me, key)
          /\ locks = Locked(t) /\ locks # <<>> /\ c = Last(locks)
          /\ Len(locks) = Len(me.locks) + 1 /\ me.del <= Len(locks)
          /\ Len(locks) \in Nat
    BY <1>1, Locking
<1>3. me.pc = "find" /\ me.op \in Inserts /\ me.e # None
    BY <1>2 DEF Find, At, ThreadInv, OpAt, ElementAt, Goal
<1>4. res' \in [Threads -> Values \cup BOOLEAN \cup {None}]
    BY <1>1 DEF HashInv, TableTypes
<1>5. CASE c = FREE
  <2>1. PICK l \in {"aborted", "putBack"} :
            l = IF me.op = "insertOrSet" THEN "aborted" ELSE "putBack"
      OBVIOUS
  <2>2. PICK r : r = UnlockThen(t, locks, l)
      OBVIOUS
  <2>3. l \in Labels
      BY DEF Labels
  <2>4. /\ r \in ThreadState /\ Same(r, me)
        /\ r.pc = "unlock" /\ r.locks = locks /\ r.del = 0
        /\ r.e = me.e /\ r.x = me.x /\ r.next = l
      BY <2>2, <2>3, <1>2, GoUnlock
  <2>5. ThreadInv(r, key)
      BY <2>1, <2>4, <1>2, <1>3
      DEF ThreadInv, LocksAt, OpAt, ElementAt, Goal, Inserts, Same
  <2>6. th' = [th EXCEPT ![t] = r]
      BY <2>1, <2>2, <1>2, <1>5 DEF Find
  <2> QED
      BY <2>4, <2>5, <2>6, <1>1, <1>2, <1>4, LockingStep DEF Same
<1>6. CASE c # FREE /\ key[c] = key[me.e]
  <2>1. PICK l \in {"shift", "aborted"} : l = Advance(locks, "shift")
      BY DEF Advance
  <2>2. PICK r : r = [me EXCEPT !.pc = l, !.locks = locks, !.del = Len(locks)]
      OBVIOUS
  <2>3. l \in Labels
      BY DEF Labels
  <2>4. /\ r \in ThreadState /\ Same(r, me)
        /\ r.pc = l /\ r.locks = locks /\ r.del = Len(locks)
        /\ r.e = me.e /\ r.x = me.x
      BY <2>2, <2>3, <1>2 DEF ThreadState, Same
  <2>5. Len(locks) > 0
      BY <1>2
  <2>6. ThreadInv(r, key)
      BY <2>1, <2>4, <2>5, <1>2, <1>3
      DEF ThreadInv, LocksAt, OpAt, ElementAt, Goal, Inserts, Same
  <2>7. th' = [th EXCEPT ![t] = r]
      BY <2>1, <2>2, <1>2, <1>6 DEF Find
  <2> QED
      BY <2>1, <2>4, <2>6, <2>7, <1>1, <1>2, <1>4, LockingStep DEF Same
<1>7. CASE c # FREE /\ key[c] # key[me.e]
  <2>1. PICK l \in {"find", "aborted"} : l = Advance(locks, "find")
      BY DEF Advance
  <2>2. PICK r : r = [me EXCEPT !.pc = l, !.locks = locks]
      OBVIOUS
  <2>3. l \in Labels
      BY DEF Labels
  <2>4. /\ r \in ThreadState /\ Same(r, me)
        /\ r.pc = l /\ r.locks = locks /\ r.del = me.del
        /\ r.e = me.e /\ r.x = me.x
      BY <2>2, <2>3 DEF ThreadState, Same
  <2>5. ThreadInv(r, key)
      BY <2>1, <2>4, <1>2, <1>3
      DEF ThreadInv, LocksAt, OpAt, ElementAt, Goal, Inserts, Same
  <2>6. th' = [th EXCEPT ![t] = r]
      BY <2>1, <2>2, <1>2, <1>7 DEF Find
  <2> QED
      BY <2>1, <2>4, <2>5, <2>6, <1>1, <1>2, <1>4, LockingStep DEF Same
<1> QED
    BY <1>5, <1>6, <1>7

\* Looking one slot further for the place of the evicted element's key.
LEMMA FindKeyStep ==
    ASSUME HashInv, NEW t \in Threads, FindKey(t)
    PROVE  HashInv'
<1>1. LockNext(t) /\ UNCHANGED <<key, val, lists, ops>>
    BY DEF FindKey
<1>2. PICK me \in ThreadState, locks \in Seq(Contents), c \in Contents :
          /\ me = th[t] /\ ThreadInv(me, key)
          /\ locks = Locked(t) /\ locks # <<>> /\ c = Last(locks)
          /\ Len(locks) = Len(me.locks) + 1 /\ me.del <= Len(locks)
          /\ Len(locks) \in Nat
    BY <1>1, Locking
<1>3. me.pc = "findKey" /\ me.op = "remove" /\ me.key # None /\ me.e = None
    BY <1>2 DEF FindKey, At, ThreadInv, OpAt, ElementAt, Goal
<1>4. res' \in [Threads -> Values \cup BOOLEAN \cup {None}]
  <2>1. res' = res \/ res' = [res EXCEPT ![t] = TRUE]
      BY DEF FindKey
  <2> QED
      BY <2>1 DEF HashInv, TableTypes
<1>5. CASE c = FREE
  <2>1. PICK r : r = [me EXCEPT !.pc = "wildRead", !.locks = locks]
      OBVIOUS
  <2>2. "wildRead" \in Labels
      BY DEF Labels
  <2>3. /\ r \in ThreadState /\ Same(r, me)
        /\ r.pc = "wildRead" /\ r.locks = locks /\ r.del = me.del
        /\ r.e = me.e /\ r.x = me.x
      BY <2>1, <2>2 DEF ThreadState, Same
  <2>4. ThreadInv(r, key)
      BY <2>3, <1>2, <1>3
      DEF ThreadInv, LocksAt, OpAt, ElementAt, Goal, Inserts, Same
  <2>5. th' = [th EXCEPT ![t] = r]
      BY <2>1, <1>2, <1>5 DEF FindKey
  <2> QED
      BY <2>3, <2>4, <2>5, <1>1, <1>2, <1>4, LockingStep DEF Same
<1>6. CASE c # FREE /\ key[c] = me.key
  <2>1. PICK l \in {"shift", "aborted"} : l = Advance(locks, "shift")
      BY DEF Advance
  <2>2. PICK r : r = [me EXCEPT !.pc = l, !.locks = locks, !.del = Len(locks), !.x = c]
      OBVIOUS
  <2>3. l \in Labels /\ c \in Elements /\ c # None
      BY <1>6, MarkAssumption DEF Labels, Contents
  <2>4. /\ r \in ThreadState /\ Same(r, me)
        /\ r.pc = l /\ r.locks = locks /\ r.del = Len(locks)
        /\ r.e = me.e /\ r.x = c
      BY <2>2, <2>3, <1>2 DEF ThreadState, Same
  <2>5. Len(locks) > 0
      BY <1>2
  <2>6. ThreadInv(r, key)
      BY <2>1, <2>3, <2>4, <2>5, <1>2, <1>3, <1>6
      DEF ThreadInv, LocksAt, OpAt, ElementAt, Goal, Inserts, Same
  <2>7. th' = [th EXCEPT ![t] = r]
      BY <2>1, <2>2, <1>2, <1>6 DEF FindKey
  <2> QED
      BY <2>1, <2>4, <2>6, <2>7, <1>1, <1>2, <1>4, LockingStep DEF Same
<1>7. CASE c # FREE /\ key[c] # me.key
  <2>1. PICK l \in {"findKey", "aborted"} : l = Advance(locks, "findKey")
      BY DEF Advance
  <2>2. PICK r : r = [me EXCEPT !.pc = l, !.locks = locks]
      OBVIOUS
  <2>3. l \in Labels
      BY DEF Labels
  <2>4. /\ r \in ThreadState /\ Same(r, me)
        /\ r.pc = l /\ r.locks = locks /\ r.del = me.del
        /\ r.e = me.e /\ r.x = me.x
      BY <2>2, <2>3 DEF ThreadState, Same
  <2>5. ThreadInv(r, key)
      BY <2>1, <2>4, <1>2, <1>3
      DEF ThreadInv, LocksAt, OpAt, ElementAt, Goal, Inserts, Same
  <2>6. th' = [th EXCEPT ![t] = r]
      BY <2>1, <2>2, <1>2, <1>7 DEF FindKey
  <2> QED
      BY <2>1, <2>4, <2>5, <2>6, <1>1, <1>2, <1>4, LockingStep DEF Same
<1> QED
    BY <1>5, <1>6, <1>7

\* Clearing or refilling a position of the locks keeps their length and type.
LEMMA LocksUpdated ==
    ASSUME NEW locks \in Seq(Contents), NEW del \in 1 .. Len(locks), NEW c \in Contents
    PROVE  /\ [locks EXCEPT ![del] = c] \in Seq(Contents)
           /\ Len([locks EXCEPT ![del] = c]) = Len(locks)
OBVIOUS

\* Closing the hole left by a removed element, one slot at a time.
LEMMA ShiftStep ==
    ASSUME HashInv, NEW t \in Threads, Shift(t)
    PROVE  HashInv'
<1>1. LockNext(t) /\ UNCHANGED <<key, val, lists, ops>> /\ res' = res
    BY DEF Shift
<1>2. PICK me \in ThreadState, locks \in Seq(Contents), c \in Contents :
          /\ me = th[t] /\ ThreadInv(me, key)
          /\ locks = Locked(t) /\ locks # <<>> /\ c = Last(locks)
          /\ Len(locks) = Len(me.locks) + 1 /\ me.del <= Len(locks)
          /\ Len(locks) \in Nat
    BY <1>1, Locking
<1>3. /\ me.pc = "shift" /\ me.op \in {"remove"} \cup Inserts
      /\ me.op \in Inserts => me.e # None
      /\ me.op = "remove" => me.x # None /\ me.e = None
    BY <1>2 DEF Shift, At, ThreadInv, OpAt, ElementAt, Inserts
<1>4. me.del \in 1 .. Len(locks)
  <2>1. me.del \in Nat /\ me.del > 0
      BY <1>2, <1>3 DEF ThreadInv, LocksAt, ThreadState
  <2> QED
      BY <2>1, <1>2
<1>5. res' \in [Threads -> Values \cup BOOLEAN \cup {None}]
    BY <1>1 DEF HashInv, TableTypes
<1>6. CASE c = FREE
  <2>1. PICK l \in {"unlink", "putBack"} :
            l = IF me.op = "remove" THEN "unlink" ELSE "putBack"
      OBVIOUS
  <2>2. PICK rest \in Seq(Contents) : /\ rest = ClearHole(locks, me.del)
                                      /\ Len(rest) = Len(locks)
      BY <1>4, LocksUpdated DEF ClearHole, Contents
  <2>3. PICK r : r = UnlockThen(t, rest, l)
      OBVIOUS
  <2>4. l \in Labels
      BY DEF Labels
  <2>5. /\ r \in ThreadState /\ Same(r, me)
        /\ r.pc = "unlock" /\ r.locks = rest /\ r.del = 0
        /\ r.e = me.e /\ r.x = me.x /\ r.next = l
      BY <2>2, <2>3, <2>4, <1>2, GoUnlock
  <2>6. rest # <<>>
      BY <2>2, <1>2
  <2>7. ThreadInv(r, key)
      BY <2>1, <2>5, <2>6, <1>2, <1>3
      DEF ThreadInv, LocksAt, OpAt, ElementAt, Goal, Inserts, Same
  <2>8. th' = [th EXCEPT ![t] = r]
      BY <2>1, <2>2, <2>3, <1>2, <1>6 DEF Shift
  <2> QED
      BY <2>2, <2>5, <2>7, <2>8, <1>1, <1>2, <1>5, LockingStep DEF Same
<1>7. CASE c # FREE /\ MovesBack(key[c], SlotAt(t, me.del))
  <2>1. PICK l \in {"shift", "again", "aborted"} : l = AfterMove(me.op, locks)
      BY DEF AfterMove, Advance
  <2>2. PICK rest \in Seq(Contents) : /\ rest = [locks EXCEPT ![me.del] = c]
                                      /\ Len(rest) = Len(locks)
      BY <1>4, LocksUpdated
  <2>3. PICK r : r = [me EXCEPT !.pc = l, !.del = Len(locks), !.locks = rest]
      OBVIOUS
  <2>4. l \in Labels
      BY DEF Labels
  <2>5. /\ r \in ThreadState /\ Same(r, me)
        /\ r.pc = l /\ r.locks = rest /\ r.del = Len(locks)
        /\ r.e = me.e /\ r.x = me.x
      BY <2>3, <2>4, <1>2 DEF ThreadState, Same
  <2>6. Len(locks) > 0 /\ rest # <<>>
      BY <2>2, <1>2
  <2>7. ThreadInv(r, key)
      BY <2>1, <2>2, <2>5, <2>6, <1>2, <1>3
      DEF ThreadInv, LocksAt, OpAt, ElementAt, Goal, Inserts, Same
  <2>8. th' = [th EXCEPT ![t] = r]
      BY <2>1, <2>2, <2>3, <1>2, <1>7 DEF Shift
  <2> QED
      BY <2>1, <2>2, <2>5, <2>7, <2>8, <1>1, <1>2, <1>5, LockingStep DEF Same
<1>8. CASE c # FREE /\ ~MovesBack(key[c], SlotAt(t, me.del))
  <2>1. PICK l \in {"shift", "aborted"} : l = Advance(locks, "shift")
      BY DEF Advance
  <2>2. PICK r : r = [me EXCEPT !.pc = l, !.locks = locks]
      OBVIOUS
  <2>3. l \in Labels
      BY DEF Labels
  <2>4. /\ r \in ThreadState /\ Same(r, me)
        /\ r.pc = l /\ r.locks = locks /\ r.del = me.del
        /\ r.e = me.e /\ r.x = me.x
      BY <2>2, <2>3 DEF ThreadState, Same
  <2>5. ThreadInv(r, key)
      BY <2>1, <2>4, <1>2, <1>3, <1>4
      DEF ThreadInv, LocksAt, OpAt, ElementAt, Goal, Inserts, Same
  <2>6. th' = [th EXCEPT ![t] = r]
      BY <2>1, <2>2, <1>2, <1>8 DEF Shift
  <2> QED
      BY <2>1, <2>4, <2>5, <2>6, <1>1, <1>2, <1>5, LockingStep DEF Same
<1> QED
    BY <1>6, <1>7, <1>8

\* One slot of a traversal (processHash): the next is locked before this is released.
LEMMA VisitStep ==
    ASSUME HashInv, NEW t \in Threads, Visit(t)
    PROVE  HashInv'
<1>1. LockNext(t) /\ UNCHANGED <<key, val, lists, ops>> /\ res' = res
    BY DEF Visit
<1>2. PICK me \in ThreadState, locks \in Seq(Contents), c \in Contents :
          /\ me = th[t] /\ ThreadInv(me, key)
          /\ locks = Locked(t) /\ locks # <<>> /\ c = Last(locks)
          /\ Len(locks) = Len(me.locks) + 1 /\ me.del <= Len(locks)
          /\ Len(locks) \in Nat
    BY <1>1, Locking
<1>3. /\ me.pc = "visit" /\ me.op = "process" /\ me.e = None
      /\ Len(me.locks) = 0 /\ me.del = 0
    BY <1>2 DEF Visit, At, ThreadInv, OpAt, ElementAt, LocksAt, ThreadState
<1>4. res' \in [Threads -> Values \cup BOOLEAN \cup {None}]
    BY <1>1 DEF HashInv, TableTypes
<1>5. PICK r : r = [me EXCEPT !.pc = "leave", !.locks = locks]
    OBVIOUS
<1>6. "leave" \in Labels
    BY DEF Labels
<1>7. /\ r \in ThreadState /\ Same(r, me)
      /\ r.pc = "leave" /\ r.locks = locks /\ r.del = me.del
      /\ r.e = me.e /\ r.x = me.x
    BY <1>5, <1>6 DEF ThreadState, Same
<1>8. ThreadInv(r, key)
    BY <1>7, <1>2, <1>3
    DEF ThreadInv, LocksAt, OpAt, ElementAt, Goal, Inserts, Same
<1>9. th' = [th EXCEPT ![t] = r]
    BY <1>5, <1>2 DEF Visit, HashInv, ThreadTypes
<1> QED
    BY <1>7, <1>8, <1>9, <1>1, <1>2, <1>4, LockingStep DEF Same

\* A step that gives back the first slot of the run.
LEMMA ReleasingStep ==
    ASSUME HashInv, NEW t \in Threads, NEW c \in Contents,
           Len(th[t].locks) > 0, slot' = [slot EXCEPT ![th[t].start] = c],
           UNCHANGED <<key, val, lists, res, ops>>,
           NEW r \in ThreadState, th' = [th EXCEPT ![t] = r], ThreadInv(r, key),
           Len(r.locks) = Len(th[t].locks) - 1,
           Len(th[t].locks) > 1 => r.start = (th[t].start + 1) % HashSize,
           r.op = th[t].op \/ free[t] # <<>>, r.pc # "evict"
    PROVE  HashInv'
<1>1. KeysKept
    BY DEF KeysKept
<1>2. TableTypes'
    BY DEF HashInv, TableTypes, lists, ThreadTypes, ThreadState
<1>3. ListInv'
    BY <1>1, ListsKept
<1>4. th'[t] = r /\ \A u \in Threads \ {t} : th'[u] = th[u]
    BY DEF HashInv, ThreadTypes
<1>5. r.start \in Slots
    BY DEF ThreadState
<1>6. LockInv'
    BY <1>4, <1>5, LockReleased DEF HashInv
<1> QED
    BY <1>1, <1>2, <1>3, <1>6, LocalStep

\* A thread outside an insertion has a free element.
LEMMA HasFree ==
    ASSUME HashInv, NEW t \in Threads, th[t].op \notin Inserts
    PROVE  free[t] # <<>>
BY DEF HashInv, ListInv

\* Releasing the slots of a run in the order in which they were locked.
LEMMA UnlockStep ==
    ASSUME HashInv, NEW t \in Threads, Unlock(t)
    PROVE  HashInv'
<1>1. PICK me \in ThreadState : me = th[t] /\ ThreadInv(me, key)
    BY Mine
<1>2. PICK n \in Nat : n = Len(me.locks)
    BY DEF ThreadState
<1>3. me.pc = "unlock" /\ n > 0 /\ me.locks \in Seq(Contents) /\ me.start \in Slots
    BY <1>1, <1>2 DEF Unlock, At, ThreadInv, LocksAt, ThreadState
<1>4. PICK c \in Contents : c = Head(me.locks)
    BY <1>2, <1>3
<1>5. PICK tail \in Seq(Contents) : tail = Tail(me.locks) /\ Len(tail) = n - 1
  <2>1. me.locks # <<>> /\ me.locks \in Seq(Contents)
      BY <1>2, <1>3
  <2>2. Tail(me.locks) \in Seq(Contents) /\ Len(Tail(me.locks)) = Len(me.locks) - 1
      BY <2>1
  <2> QED
      BY <2>2, <1>2
<1>6. PICK b \in Slots : b = (me.start + 1) % HashSize
    BY <1>3, SizePositive DEF Slots
<1>7. /\ slot' = [slot EXCEPT ![me.start] = c]
      /\ UNCHANGED <<key, val, lists, res, ops>>
    BY <1>1, <1>4 DEF Unlock
<1>8. me.del = 0 /\ me.next \in {"idle", "putBack", "unlink", "link", "aborted"}
    BY <1>1, <1>3 DEF ThreadInv, LocksAt, OpAt
<1>9. PICK rest : rest = [me EXCEPT !.start = b, !.locks = tail]
    OBVIOUS
<1>10. /\ rest \in ThreadState /\ rest.start = b /\ rest.locks = tail
       /\ rest.pc = me.pc /\ rest.op = me.op /\ rest.key = me.key /\ rest.e = me.e
       /\ rest.x = me.x /\ rest.del = me.del /\ rest.next = me.next
    BY <1>9 DEF ThreadState
<1>11. th' = [th EXCEPT ![t] =
             IF n > 1 THEN rest
             ELSE IF me.next = "idle" THEN Idle ELSE [rest EXCEPT !.pc = me.next]]
    BY <1>1, <1>2, <1>5, <1>6, <1>9 DEF Unlock
<1>12. CASE n > 1
  <2>1. Len(tail) # 0 /\ tail # <<>>
    <3>1. Len(tail) # 0
        BY <1>5, <1>12
    <3> QED
        BY <3>1
  <2>2. ThreadInv(rest, key)
      BY <2>1, <1>1, <1>3, <1>8, <1>10
      DEF ThreadInv, LocksAt, OpAt, ElementAt, Goal
  <2> QED
      BY <2>2, <1>1, <1>2, <1>3, <1>5, <1>6, <1>7, <1>10, <1>11, <1>12, ReleasingStep
<1>13. CASE n = 1 /\ me.next = "idle"
  <2>1. me.op \in {"get", "set"}
      BY <1>1, <1>3, <1>13 DEF ThreadInv, OpAt
  <2>2. free[t] # <<>>
      BY <2>1, <1>1, HasFree DEF Inserts
  <2>3. /\ th' = [th EXCEPT ![t] = Idle] /\ Len(Idle.locks) = n - 1
        /\ Idle \in ThreadState /\ Idle.pc # "evict" /\ ThreadInv(Idle, key)
      BY <1>11, <1>13, GoIdle
  <2>4. /\ Len(th[t].locks) > 0 /\ Len(Idle.locks) = Len(th[t].locks) - 1
        /\ ~(Len(th[t].locks) > 1)
      BY <2>3, <1>1, <1>2, <1>3, <1>13
  <2> QED
      BY <2>2, <2>3, <2>4, <1>1, <1>7, ReleasingStep
<1>14. CASE n = 1 /\ me.next # "idle"
  <2>1. PICK r : r = [rest EXCEPT !.pc = me.next]
      OBVIOUS
  <2>2. me.next \in Labels
      BY DEF ThreadState
  <2>3. /\ r \in ThreadState /\ r.start = b /\ r.locks = tail
        /\ r.pc = me.next /\ r.op = me.op /\ r.key = me.key /\ r.e = me.e
        /\ r.x = me.x /\ r.del = me.del
      BY <2>1, <2>2, <1>10 DEF ThreadState
  <2>4. tail = <<>>
      BY <1>5, <1>14
  <2>5. ThreadInv(r, key)
      BY <2>3, <2>4, <1>1, <1>3, <1>8, <1>14
      DEF ThreadInv, LocksAt, OpAt, ElementAt, Goal, Inserts
  <2>6. th' = [th EXCEPT ![t] = r]
      BY <2>1, <1>11, <1>14
  <2>7. /\ Len(th[t].locks) > 0 /\ Len(r.locks) = Len(th[t].locks) - 1
        /\ ~(Len(th[t].locks) > 1)
      BY <2>3, <1>1, <1>2, <1>3, <1>5, <1>14
  <2> QED
      BY <2>3, <2>5, <2>6, <2>7, <1>1, <1>7, <1>8, ReleasingStep
<1> QED
    BY <1>3, <1>12, <1>13, <1>14

\* The last slot of a traversal is released.
LEMMA LeaveStep ==
    ASSUME HashInv, NEW t \in Threads, Leave(t)
    PROVE  HashInv'
<1>1. PICK me \in ThreadState : me = th[t] /\ ThreadInv(me, key)
    BY Mine
<1>2. me.pc = "leave" /\ me.locks \in Seq(Contents) /\ me.start \in Slots
    BY <1>1 DEF Leave, At, ThreadState
<1>3. Len(me.locks) = 1 /\ me.op = "process" /\ me.e = None
    BY <1>1, <1>2 DEF ThreadInv, LocksAt, OpAt, ElementAt
<1>4. PICK c \in Contents : c = Head(me.locks)
    BY <1>2, <1>3
<1>5. slot' = [slot EXCEPT ![me.start] = c] /\ UNCHANGED <<key, val, lists, res, ops>>
    BY <1>1, <1>4 DEF Leave
<1>6. free[t] # <<>>
    BY <1>1, <1>3, HasFree DEF Inserts
<1>7. CASE me.start = HashSize - 1
  <2>1. /\ th' = [th EXCEPT ![t] = Idle] /\ Len(Idle.locks) = 0
        /\ Idle \in ThreadState /\ Idle.pc # "evict" /\ ThreadInv(Idle, key)
      BY <1>1, <1>7, GoIdle DEF Leave
  <2>2. /\ Len(th[t].locks) > 0 /\ Len(Idle.locks) = Len(th[t].locks) - 1
        /\ ~(Len(th[t].locks) > 1)
      BY <2>1, <1>1, <1>3
  <2> QED
      BY <2>1, <2>2, <1>1, <1>5, <1>6, ReleasingStep
<1>8. CASE me.start # HashSize - 1
  <2>1. PICK b \in Slots : b = me.start + 1
      BY <1>2, <1>8, SizePositive DEF Slots
  <2>2. PICK r : r = [me EXCEPT !.pc = "visit", !.start = b, !.locks = <<>>]
      OBVIOUS
  <2>3. "visit" \in Labels /\ <<>> \in Seq(Contents) /\ Len(<<>>) = 0
      BY DEF Labels
  <2>4. /\ r \in ThreadState /\ r.pc = "visit" /\ r.start = b /\ r.locks = <<>>
        /\ r.op = me.op /\ r.e = me.e /\ r.x = me.x /\ r.del = me.del
      BY <2>2, <2>3 DEF ThreadState
  <2>5. me.del = 0
      BY <1>1, <1>2 DEF ThreadInv, LocksAt
  <2>6. ThreadInv(r, key)
      BY <2>3, <2>4, <2>5, <1>1, <1>2, <1>3
      DEF ThreadInv, LocksAt, OpAt, ElementAt, Goal, Inserts
  <2>7. th' = [th EXCEPT ![t] = r]
      BY <2>1, <2>2, <1>1, <1>8 DEF Leave
  <2>8. /\ Len(th[t].locks) > 0 /\ Len(r.locks) = Len(th[t].locks) - 1
        /\ ~(Len(th[t].locks) > 1)
      BY <2>3, <2>4, <1>1, <1>3
  <2>9. r.pc # "evict"
      BY <2>4
  <2> QED
      BY <2>4, <2>6, <2>7, <2>8, <2>9, <1>1, <1>5, <1>6, ReleasingStep
<1> QED
    BY <1>7, <1>8

\* The locks after a step that leaves the slots alone.
LEMMA StillLocked ==
    ASSUME HashInv, NEW t \in Threads, NEW r \in ThreadState,
           th' = [th EXCEPT ![t] = r], UNCHANGED slot,
           \/ r.start = th[t].start /\ Len(r.locks) = Len(th[t].locks)
           \/ r.locks = <<>> /\ th[t].locks = <<>>
    PROVE  LockInv'
<1>1. th'[t] = r /\ \A u \in Threads : u # t => th'[u] = th[u]
    BY DEF HashInv, ThreadTypes
<1>2. th[t].start \in Slots /\ r.start \in Slots
    BY DEF HashInv, ThreadTypes, ThreadState
<1>3. HeldBy(r) = HeldBy(th[t]) /\ Len(r.locks) = Len(th[t].locks)
  <2>1. CASE r.start = th[t].start /\ Len(r.locks) = Len(th[t].locks)
      BY <2>1 DEF HeldBy
  <2>2. CASE r.locks = <<>> /\ th[t].locks = <<>>
    <3>1. Len(r.locks) = 0 /\ Len(th[t].locks) = 0
        BY <2>2
    <3> QED
        BY <3>1, <1>2, RunEmpty DEF HeldBy
  <2> QED
      BY <2>1, <2>2
<1>4. \A u \in Threads : HeldBy(th'[u]) = HeldBy(th[u]) /\ Len(th'[u].locks) <= HashSize
    BY <1>1, <1>3 DEF HashInv, LockInv
<1> QED
    BY <1>4, LocksKept DEF HashInv

\* The key was found: its value is read or overwritten under the locks.
LEMMA FoundStep ==
    ASSUME HashInv, NEW t \in Threads, Found(t)
    PROVE  HashInv'
<1>1. PICK me \in ThreadState : me = th[t] /\ ThreadInv(me, key)
    BY Mine
<1>2. me.pc = "found" /\ UNCHANGED <<slot, key, lists, ops>>
    BY <1>1 DEF Found, At
<1>3. /\ me.locks # <<>> /\ me.x # None /\ me.x \in Elements
      /\ me.op \in {"get", "set"} \cup Inserts
    BY <1>1, <1>2 DEF ThreadInv, LocksAt, ElementAt, OpAt, ThreadState
<1>4. PICK l \in {"putBack", "unlink"} : l = IF me.op = "insert" THEN "putBack" ELSE "unlink"
    OBVIOUS
<1>5. PICK r : r = UnlockThen(t, me.locks, l)
    OBVIOUS
<1>6. l \in Labels /\ me.locks \in Seq(Contents) /\ me.val \in Values \cup {None}
    BY DEF Labels, ThreadState
<1>7. /\ r \in ThreadState /\ Same(r, me)
      /\ r.pc = "unlock" /\ r.locks = me.locks /\ r.del = 0
      /\ r.e = me.e /\ r.x = me.x /\ r.next = l
    BY <1>5, <1>6, <1>1, GoUnlock
<1>8. Len(me.locks) \in Nat
    BY <1>6
<1>9. ThreadInv(r, key')
    BY <1>7, <1>1, <1>2, <1>3, <1>4, <1>8
    DEF ThreadInv, LocksAt, OpAt, ElementAt, Goal, Inserts, Same
<1>10. th' = [th EXCEPT ![t] = r]
    BY <1>1, <1>4, <1>5 DEF Found
<1>11. val' \in [Elements -> Values \cup {None}]
  <2>1. val' = val \/ val' = [val EXCEPT ![me.x] = me.val]
      BY <1>1 DEF Found
  <2> QED
      BY <2>1, <1>6 DEF HashInv, TableTypes
<1>12. res' \in [Threads -> Values \cup BOOLEAN \cup {None}]
  <2>1. res' = [res EXCEPT ![t] = IF me.op = "get" THEN val[me.x] ELSE me.op = "set"]
      BY <1>1 DEF Found
  <2>2. val[me.x] \in Values \cup {None}
      BY <1>3 DEF HashInv, TableTypes
  <2>3. (me.op = "set") \in BOOLEAN
      OBVIOUS
  <2>4. (IF me.op = "get" THEN val[me.x] ELSE me.op = "set")
            \in Values \cup BOOLEAN \cup {None}
      BY <2>2, <2>3, Zenon
  <2> QED
      BY <2>1, <2>4 DEF HashInv, TableTypes
<1>13. TableTypes'
    BY <1>2, <1>11, <1>12 DEF HashInv, TableTypes, lists
<1>14. KeysKept
    BY <1>2 DEF KeysKept
<1>15. ListInv'
    BY <1>1, <1>2, <1>7, <1>10, <1>14, ListsKept DEF Same
<1>16. LockInv'
    BY <1>1, <1>2, <1>7, <1>10, StillLocked DEF Same
<1> QED
    BY <1>7, <1>9, <1>10, <1>13, <1>14, <1>15, <1>16, LocalStep

\* The key is absent and the element in hand goes into the free slot.
LEMMA FillStep ==
    ASSUME HashInv, NEW t \in Threads, Fill(t)
    PROVE  HashInv'
<1>1. PICK me \in ThreadState : me = th[t] /\ ThreadInv(me, key)
    BY Mine
<1>2. me.pc = "fill" /\ UNCHANGED <<slot, lists, ops>>
    BY <1>1 DEF Fill, At
<1>3. /\ me.locks # <<>> /\ me.key # None /\ me.key \in Keys
      /\ me.op \in Inserts /\ me.e # None /\ me.e \in Elements
    BY <1>1, <1>2 DEF ThreadInv, LocksAt, ElementAt, OpAt, ThreadState, Goal
<1>4. PICK locks \in Seq(Contents) : /\ locks = Append(Front(me.locks), me.e)
                                     /\ Len(locks) = Len(me.locks)
  <2>1. me.locks \in Seq(Contents) /\ me.e \in Contents
      BY <1>3 DEF ThreadState, Contents
  <2>2. Front(me.locks) \in Seq(Contents) /\ Len(Front(me.locks)) = Len(me.locks) - 1
      BY <2>1, <1>3 DEF Front
  <2>3. PICK front \in Seq(Contents) : front = Front(me.locks)
      BY <2>2
  <2>4. /\ Append(front, me.e) \in Seq(Contents)
        /\ Len(Append(front, me.e)) = Len(front) + 1
      BY <2>1
  <2>5. Len(front) + 1 = Len(me.locks)
      BY <2>1, <2>2, <2>3
  <2> QED
      BY <2>3, <2>4, <2>5
<1>5. PICK r : r = UnlockThen(t, locks, "link")
    OBVIOUS
<1>6. "link" \in Labels /\ me.val \in Values \cup {None}
    BY DEF Labels, ThreadState
<1>7. /\ r \in ThreadState /\ Same(r, me)
      /\ r.pc = "unlock" /\ r.locks = locks /\ r.del = 0
      /\ r.e = me.e /\ r.x = me.x /\ r.next = "link"
    BY <1>5, <1>6, <1>1, GoUnlock
<1>8. Len(locks) \in Nat /\ Len(locks) # 0 /\ locks # <<>>
  <2>1. Len(me.locks) \in Nat /\ Len(me.locks) # 0
      BY <1>3 DEF ThreadState
  <2> QED
      BY <2>1, <1>4
<1>9. key' = [key EXCEPT ![me.e] = me.key] /\ key \in [Elements -> Keys \cup {None}]
    BY <1>1 DEF Fill, HashInv, TableTypes
<1>10. KeysKept /\ key'[me.e] # None
    BY <1>3, <1>9 DEF KeysKept
<1>11. me.x # None => me.x \in Elements
    BY DEF ThreadState
<1>12. me.x # None => key'[me.x] # None
    BY <1>10, <1>11, <1>1 DEF KeysKept, ThreadInv, ElementAt
<1>13. ThreadInv(r, key')
    BY <1>7, <1>1, <1>2, <1>3, <1>8, <1>10, <1>12
    DEF ThreadInv, LocksAt, OpAt, ElementAt, Goal, Inserts, Same
<1>14. th' = [th EXCEPT ![t] = r]
    BY <1>1, <1>4, <1>5 DEF Fill
<1>15. val' \in [Elements -> Values \cup {None}]
  <2>1. val' = [val EXCEPT ![me.e] = me.val]
      BY <1>1 DEF Fill
  <2> QED
      BY <2>1, <1>6 DEF HashInv, TableTypes
<1>16. res' \in [Threads -> Values \cup BOOLEAN \cup {None}]
  <2>1. res' = [res EXCEPT ![t] = TRUE]
      BY DEF Fill
  <2> QED
      BY <2>1 DEF HashInv, TableTypes
<1>17. key' \in [Elements -> Keys \cup {None}]
    BY <1>3, <1>9
<1>18. TableTypes'
    BY <1>2, <1>15, <1>16, <1>17 DEF HashInv, TableTypes, lists
<1>19. ListInv'
    BY <1>1, <1>2, <1>7, <1>10, <1>14, ListsKept DEF Same
<1>20. LockInv'
    BY <1>1, <1>2, <1>4, <1>7, <1>14, StillLocked DEF Same
<1> QED
    BY <1>7, <1>13, <1>14, <1>18, <1>10, <1>19, <1>20, LocalStep

\* The hole has moved: the search for an entry that may fill it starts again.
LEMMA AgainStep ==
    ASSUME HashInv, NEW t \in Threads, Again(t)
    PROVE  HashInv'
<1>1. PICK me \in ThreadState : me = th[t] /\ ThreadInv(me, key)
    BY Mine
<1>2. me.pc = "again" /\ UNCHANGED <<slot, key, val, lists, res, ops>>
    BY <1>1 DEF Again, At
<1>3. /\ me.locks # <<>> /\ me.del > 0 /\ me.op \in {"remove"} \cup Inserts
      /\ me.del <= Len(me.locks)
    BY <1>1, <1>2 DEF ThreadInv, LocksAt, OpAt
<1>4. PICK l \in {"again", "shift", "aborted"} : th' = [th EXCEPT ![t].pc = l]
  <2>1. CASE th' = th
    <3>1. th = [th EXCEPT ![t].pc = "again"]
        BY <1>1, <1>2 DEF HashInv, ThreadTypes, ThreadState
    <3> QED
        BY <2>1, <3>1
  <2>2. CASE th' # th
      BY <2>2, <1>1 DEF Again, Advance
  <2> QED
      BY <2>1, <2>2
<1>5. PICK r : r = [me EXCEPT !.pc = l]
    OBVIOUS
<1>6. l \in Labels
    BY DEF Labels
<1>7. /\ r \in ThreadState /\ Same(r, me)
      /\ r.pc = l /\ r.locks = me.locks /\ r.del = me.del
      /\ r.e = me.e /\ r.x = me.x
    BY <1>5, <1>6 DEF ThreadState, Same
<1>8. ThreadInv(r, key')
    BY <1>7, <1>1, <1>2, <1>3
    DEF ThreadInv, LocksAt, OpAt, ElementAt, Goal, Inserts, Same
<1>9. th' = [th EXCEPT ![t] = r]
    BY <1>1, <1>4, <1>5 DEF HashInv, ThreadTypes
<1>10. KeysKept
    BY <1>2 DEF KeysKept
<1>11. TableTypes'
    BY <1>2 DEF HashInv, TableTypes, lists
<1>12. ListInv'
    BY <1>1, <1>2, <1>7, <1>9, <1>10, ListsKept DEF Same
<1>13. LockInv'
    BY <1>1, <1>2, <1>7, <1>9, StillLocked DEF Same
<1> QED
    BY <1>7, <1>8, <1>9, <1>10, <1>11, <1>12, <1>13, LocalStep

\* A call begins with a free element, and an insertion takes it.
LEMMA CallStep ==
    ASSUME HashInv, NEW t \in Threads, NEW o \in Ops \ {"process"}, NEW k \in Keys,
           NEW v \in Values \cup {None}, Call(t, o, k, v)
    PROVE  HashInv'
<1>1. th[t].pc = "idle" /\ th[t] = Idle /\ UNCHANGED <<slot, key, val, lru, res>>
    BY Mine DEF Call, At, ThreadInv, OpAt
<1>2. free[t] # <<>> /\ free \in [Threads -> Seq(Elements)] /\ free[t] \in Seq(Elements)
  <2>1. None \notin Inserts
      BY MarkAssumption DEF Operations, Inserts
  <2> QED
      BY <2>1, <1>1, GoIdle, HasFree DEF HashInv, TableTypes
<1>3. Head(free[t]) \in Elements /\ Tail(free[t]) \in Seq(Elements)
    BY <1>2
<1>4. PICK e \in Elements \cup {None} :
          /\ e = IF o \in {"insert", "insertOrSet"} THEN Head(free[t]) ELSE None
          /\ o \in Inserts <=> e # None
    BY <1>3, MarkAssumption DEF Inserts
<1>5. PICK l \in {"findKey", "probe"} : l = IF o = "remove" THEN "findKey" ELSE "probe"
    OBVIOUS
<1>6. PICK r : r = [Idle EXCEPT !.pc = l, !.op = o, !.key = k, !.val = v,
                                !.start = Home[k], !.e = e]
    OBVIOUS
<1>7. l \in Labels /\ Home[k] \in Slots /\ o \in Operations /\ k # None /\ o # None
    BY ParameterAssumption, MarkAssumption DEF Labels
<1>8. /\ r \in ThreadState /\ r.pc = l /\ r.op = o /\ r.key = k /\ r.start = Home[k]
      /\ r.e = e /\ r.x = None /\ r.locks = <<>> /\ r.del = 0
    BY <1>6, <1>7, GoIdle DEF ThreadState
<1>9. ThreadInv(r, key')
    BY <1>4, <1>5, <1>7, <1>8
    DEF ThreadInv, LocksAt, OpAt, ElementAt, Goal, Inserts, Operations
<1>10. th' = [th EXCEPT ![t] = r]
    BY <1>4, <1>5, <1>6 DEF Call
<1>11. free' = IF o \in Inserts THEN [free EXCEPT ![t] = Tail(@)] ELSE free
    BY DEF Call, Inserts
<1>12. free' \in [Threads -> Seq(Elements)] /\ \A u \in Threads : u # t => free'[u] = free[u]
    BY <1>2, <1>3, <1>11
<1>13. KeysKept
    BY <1>1 DEF KeysKept
<1>14. ops' \in [Threads -> 0 .. MaxOps]
  <2>1. ops' = [ops EXCEPT ![t] = @ + 1] /\ ops[t] < MaxOps /\ ops \in [Threads -> 0 .. MaxOps]
      BY DEF Call, HashInv, TableTypes
  <2>2. ops[t] + 1 \in 0 .. MaxOps
      BY <2>1, ParameterAssumption
  <2> QED
      BY <2>1, <2>2
<1>15. TableTypes'
    BY <1>1, <1>12, <1>14 DEF HashInv, TableTypes
<1>16. th'[t] = r /\ \A u \in Threads : u # t => th'[u] = th[u]
    BY <1>10 DEF HashInv, ThreadTypes
<1>17. ListInv'
  <2>1. \A u \in Threads : free'[u] = <<>> => th'[u].op \in Inserts
      BY <1>2, <1>8, <1>11, <1>12, <1>16 DEF HashInv, ListInv
  <2>2. \A u \in Threads : th'[u].pc = "evict" => lru'[u] # <<>>
      BY <1>1, <1>5, <1>8, <1>16 DEF HashInv, ListInv, At
  <2> QED
      BY <2>1, <2>2, <1>1 DEF HashInv, ListInv, At
<1>18. LockInv'
    BY <1>1, <1>8, <1>10, GoIdle, StillLocked
<1> QED
    BY <1>8, <1>9, <1>10, <1>13, <1>15, <1>17, <1>18, LocalStep

\* A traversal begins; the thread's own lists are not touched.
LEMMA CallProcessStep ==
    ASSUME HashInv, NEW t \in Threads, CallProcess(t)
    PROVE  HashInv'
<1>1. /\ th[t].pc = "idle" /\ th[t] = Idle /\ UNCHANGED <<slot, key, val, lists, res>>
      /\ "process" \in Ops
    BY Mine DEF CallProcess, At, ThreadInv, OpAt
<1>2. free[t] # <<>>
  <2>1. None \notin Inserts
      BY MarkAssumption DEF Operations, Inserts
  <2> QED
      BY <2>1, <1>1, GoIdle, HasFree
<1>3. PICK r : r = [Idle EXCEPT !.pc = "visit", !.op = "process"]
    OBVIOUS
<1>4. "visit" \in Labels /\ None # "process"
    BY MarkAssumption DEF Labels, Operations
<1>5. /\ r \in ThreadState /\ r.pc = "visit" /\ r.op = "process" /\ r.key = None /\ r.start = 0
      /\ r.e = None /\ r.x = None /\ r.locks = <<>> /\ r.del = 0
    BY <1>1, <1>3, <1>4, GoIdle DEF ThreadState
<1>6. ThreadInv(r, key')
    BY <1>4, <1>5
    DEF ThreadInv, LocksAt, OpAt, ElementAt, Goal, Inserts
<1>7. th' = [th EXCEPT ![t] = r]
    BY <1>3 DEF CallProcess
<1>8. KeysKept
    BY <1>1 DEF KeysKept
<1>9. ops' \in [Threads -> 0 .. MaxOps]
  <2>1. ops' = [ops EXCEPT ![t] = @ + 1] /\ ops[t] < MaxOps /\ ops \in [Threads -> 0 .. MaxOps]
      BY DEF CallProcess, HashInv, TableTypes
  <2>2. ops[t] + 1 \in 0 .. MaxOps
      BY <2>1, ParameterAssumption
  <2> QED
      BY <2>1, <2>2
<1>10. TableTypes'
    BY <1>1, <1>9 DEF HashInv, TableTypes, lists
<1>11. ListInv'
    BY <1>1, <1>2, <1>5, <1>7, <1>8, ListsKept
<1>12. LockInv'
    BY <1>1, <1>5, <1>7, GoIdle, StillLocked
<1> QED
    BY <1>5, <1>6, <1>7, <1>8, <1>10, <1>11, <1>12, LocalStep

-----------------------------------------------------------------------------
(* The lists *)

\* Unlinking an inner element closes the gap it leaves and nothing else; four
\* elements at least stay.
LEMMA UnlinkedLemma ==
    ASSUME NEW s \in Seq(Elements), NEW x, Unlinkable(s, x)
    PROVE  \E i \in 3 .. (Len(s) - 2) :
              /\ s[i] = x
              /\ Unlinked(s, x) \in Seq(Elements)
              /\ Len(Unlinked(s, x)) = Len(s) - 1
              /\ \A j \in 1 .. Len(s) - 1 :
                    Unlinked(s, x)[j] = IF j < i THEN s[j] ELSE s[j + 1]
<1>1. PICK i \in 3 .. (Len(s) - 2) : i = CHOOSE n \in 3 .. (Len(s) - 2) : s[n] = x
    BY DEF Unlinkable
<1>2. s[i] = x
    BY <1>1 DEF Unlinkable
<1>3. PICK n \in Nat : n = Len(s) /\ i \in 3 .. (n - 2)
    OBVIOUS
<1>4. \A j \in 1 .. n : s[j] \in Elements
    BY <1>3
<1>5. PICK a \in Seq(Elements) : a = SubSeq(s, 1, i - 1)
  <2>1. i - 1 \in Int /\ \A j \in 1 .. i - 1 : s[j] \in Elements
      BY <1>3, <1>4
  <2>2. SubSeq(s, 1, i - 1) \in Seq(Elements)
      BY <2>1, SubSeqProperties
  <2> QED
      BY <2>2
<1>6. Len(a) = i - 1 /\ \A j \in 1 .. i - 1 : a[j] = s[j]
    BY <1>3, <1>5, SubSeqProperties
<1>7. PICK b \in Seq(Elements) : b = SubSeq(s, i + 1, n)
  <2>1. i + 1 \in Int /\ n \in Int /\ \A j \in i + 1 .. n : s[j] \in Elements
      BY <1>3, <1>4
  <2>2. SubSeq(s, i + 1, n) \in Seq(Elements)
      BY <2>1, SubSeqProperties
  <2> QED
      BY <2>2
<1>8. Len(b) = n - i /\ \A j \in 1 .. n - i : b[j] = s[i + j]
    BY <1>3, <1>7, SubSeqProperties
<1>9. Unlinked(s, x) = a \o b
    BY <1>1, <1>3, <1>5, <1>7 DEF Unlinked, RemoveAt
<1>10. /\ a \o b \in Seq(Elements) /\ Len(a \o b) = Len(a) + Len(b)
      /\ \A j \in 1 .. Len(a) + Len(b) :
            (a \o b)[j] = IF j <= Len(a) THEN a[j] ELSE b[j - Len(a)]
    BY ConcatProperties
<1>11. Len(a) + Len(b) = n - 1
    BY <1>3, <1>6, <1>8
<1>12. ASSUME NEW j \in 1 .. n - 1
       PROVE  (a \o b)[j] = IF j < i THEN s[j] ELSE s[j + 1]
  <2>1. (a \o b)[j] = IF j <= i - 1 THEN a[j] ELSE b[j - (i - 1)]
      BY <1>6, <1>10, <1>11
  <2>2. CASE j < i
      BY <2>1, <2>2, <1>3, <1>6
  <2>3. CASE j >= i
    <3>1. j - (i - 1) \in 1 .. n - i /\ i + (j - (i - 1)) = j + 1 /\ ~(j <= i - 1) /\ ~(j < i)
        BY <2>3, <1>3
    <3> QED
        BY <2>1, <3>1, <1>8
  <2>4. j < i \/ j >= i
      BY <1>3
  <2> QED
      BY <2>2, <2>3, <2>4
<1> QED
    BY <1>2, <1>3, <1>9, <1>10, <1>11, <1>12

\* linkHead and the return to the free list put an element in front.
LEMMA PrependLemma ==
    ASSUME NEW s \in Seq(Elements), NEW x \in Elements
    PROVE  /\ <<x>> \o s \in Seq(Elements)
           /\ Len(<<x>> \o s) = Len(s) + 1
           /\ (<<x>> \o s)[1] = x
           /\ \A j \in 1 .. Len(s) : (<<x>> \o s)[j + 1] = s[j]
           /\ <<x>> \o s # <<>>
<1>1. <<x>> \in Seq(Elements) /\ Len(<<x>>) = 1 /\ <<x>>[1] = x
    OBVIOUS
<1>2. /\ <<x>> \o s \in Seq(Elements) /\ Len(<<x>> \o s) = 1 + Len(s)
      /\ \A i \in 1 .. 1 + Len(s) : (<<x>> \o s)[i] = IF i <= 1 THEN <<x>>[i] ELSE s[i - 1]
    BY <1>1, ConcatProperties
<1>3. PICK n \in Nat : n = Len(s)
    OBVIOUS
<1>4. (<<x>> \o s)[1] = x
    BY <1>1, <1>2, <1>3
<1>5. ASSUME NEW j \in 1 .. n PROVE (<<x>> \o s)[j + 1] = s[j]
  <2>1. j + 1 \in 1 .. 1 + n /\ ~(j + 1 <= 1) /\ (j + 1) - 1 = j
      BY <1>3
  <2> QED
      BY <2>1, <1>2, <1>3
<1>6. Len(<<x>> \o s) = n + 1
    BY <1>2, <1>3
<1>7. Len(<<x>> \o s) # 0
    BY <1>6
<1> QED
    BY <1>2, <1>3, <1>4, <1>5, <1>6, <1>7

\* A step on the lists.
LEMMA ListOnlyStep ==
    ASSUME HashInv, NEW t \in Threads, NEW r \in ThreadState,
           th' = [th EXCEPT ![t] = r], UNCHANGED <<slot, key, val, res, ops>>,
           lru' \in [Threads -> Seq(Elements)], free' \in [Threads -> Seq(Elements)],
           \A u \in Threads : u # t => /\ free'[u] = free[u]
                                       /\ lru'[u] = <<>> => lru[u] = <<>>,
           \A u \in Threads : \A i \in 1 .. Len(lru'[u]) : key[lru'[u][i]] # None,
           free'[t] = <<>> => r.op \in Inserts, r.pc = "evict" => lru'[t] # <<>>,
           th[t].locks = <<>>, r.locks = <<>>, ThreadInv(r, key)
    PROVE  HashInv'
<1>1. KeysKept
    BY DEF KeysKept
<1>2. TableTypes'
    BY DEF HashInv, TableTypes
<1>3. th'[t] = r /\ \A u \in Threads : u # t => th'[u] = th[u]
    BY DEF HashInv, ThreadTypes
<1>4. \A u \in Threads : free'[u] = <<>> => th'[u].op \in Inserts
    BY <1>3 DEF HashInv, ListInv
<1>5. \A u \in Threads : th'[u].pc = "evict" => lru'[u] # <<>>
    BY <1>3 DEF HashInv, ListInv, At
<1>6. ListInv'
    BY <1>4, <1>5 DEF ListInv, At
<1>7. LockInv'
    BY StillLocked
<1> QED
    BY <1>1, <1>2, <1>6, <1>7, LocalStep

\* Where an operation goes after it has moved the element found.
LEMMA TouchDone ==
    ASSUME HashInv, NEW t \in Threads, th[t].pc \in {"unlink", "relink"}
    PROVE  \E r \in ThreadState :
              /\ r = FinishTouch(th[t]) /\ ThreadInv(r, key)
              /\ r.locks = <<>> /\ th[t].locks = <<>> /\ r.pc # "evict"
              /\ free[t] = <<>> => r.op \in Inserts
<1>1. PICK me \in ThreadState : me = th[t] /\ ThreadInv(me, key)
    BY Mine
<1>2. /\ me.pc \in {"unlink", "relink"} /\ me.locks = <<>>
      /\ me.op \in {"get", "set", "insertOrSet", "remove"}
    BY <1>1 DEF ThreadInv, LocksAt, OpAt, Goal
<1>3. CASE me.op = "insertOrSet"
  <2>1. PICK r : r = [me EXCEPT !.pc = "putBack"]
      OBVIOUS
  <2>2. "putBack" \in Labels
      BY DEF Labels
  <2>3. /\ r \in ThreadState /\ Same(r, me)
        /\ r.pc = "putBack" /\ r.locks = me.locks /\ r.del = me.del
        /\ r.e = me.e /\ r.x = me.x
      BY <2>1, <2>2 DEF ThreadState, Same
  <2>4. ThreadInv(r, key)
      BY <2>3, <1>1, <1>2, <1>3
      DEF ThreadInv, LocksAt, OpAt, ElementAt, Goal, Inserts, Same
  <2>5. r = FinishTouch(me) /\ r.op \in Inserts
      BY <2>1, <2>3, <1>3 DEF FinishTouch, Same, Inserts
  <2> QED
      BY <2>3, <2>4, <2>5, <1>1, <1>2
<1>4. CASE me.op # "insertOrSet"
  <2>1. free[t] # <<>>
      BY <1>1, <1>2, <1>4, HasFree DEF Inserts
  <2>2. FinishTouch(me) = Idle
      BY <1>4 DEF FinishTouch
  <2> QED
      BY <2>1, <2>2, <1>1, <1>2, GoIdle
<1> QED
    BY <1>3, <1>4

\* unlinkElement: an element found in the table leaves the list it is on.
LEMMA UnlinkStep ==
    ASSUME HashInv, NEW t \in Threads, Unlink(t)
    PROVE  HashInv'
<1>1. PICK me \in ThreadState : me = th[t] /\ ThreadInv(me, key)
    BY Mine
<1>2. me.pc = "unlink" /\ UNCHANGED <<slot, key, val, free, res, ops>>
    BY <1>1 DEF Unlink, At
<1>3. /\ me.locks = <<>> /\ me.x # None /\ me.x \in Elements
      /\ me.op \in {"get", "set", "insertOrSet", "remove"}
    BY <1>1, <1>2 DEF ThreadInv, LocksAt, OpAt, ElementAt, ThreadState, Goal
<1>4. lru' = [o \in Threads |-> IF Unlinkable(lru[o], me.x)
                                THEN Unlinked(lru[o], me.x) ELSE lru[o]]
    BY <1>1 DEF Unlink
<1>5. lru \in [Threads -> Seq(Elements)] /\ free \in [Threads -> Seq(Elements)]
    BY DEF HashInv, TableTypes
<1>6. ASSUME NEW u \in Threads
      PROVE  /\ lru'[u] \in Seq(Elements)
             /\ lru'[u] = <<>> => lru[u] = <<>>
             /\ \A j \in 1 .. Len(lru'[u]) : key[lru'[u][j]] # None
  <2>1. PICK s \in Seq(Elements) : s = lru[u] /\ \A j \in 1 .. Len(s) : key[s[j]] # None
      BY <1>5 DEF HashInv, ListInv
  <2>2. CASE ~Unlinkable(s, me.x)
      BY <2>1, <2>2, <1>4
  <2>3. CASE Unlinkable(s, me.x)
    <3>1. PICK q \in Seq(Elements), i \in 3 .. (Len(s) - 2) :
              /\ q = Unlinked(s, me.x) /\ Len(q) = Len(s) - 1
              /\ \A j \in 1 .. Len(s) - 1 : q[j] = IF j < i THEN s[j] ELSE s[j + 1]
        BY <2>3, UnlinkedLemma
    <3>2. PICK n \in Nat : n = Len(s) /\ n > 4
        BY <3>1
    <3>3. \A j \in 1 .. n - 1 : j \in 1 .. n /\ j + 1 \in 1 .. n
        OBVIOUS
    <3>4. \A j \in 1 .. Len(q) : key[q[j]] # None
        BY <2>1, <3>1, <3>2, <3>3
    <3>5. Len(q) # 0
        BY <3>1, <3>2
    <3>6. lru'[u] = q
        BY <2>1, <2>3, <3>1, <1>4
    <3> QED
        BY <3>4, <3>5, <3>6
  <2> QED
      BY <2>2, <2>3
<1>7. lru' \in [Threads -> Seq(Elements)]
    BY <1>4, <1>6
<1>8. CASE \A o \in Threads : ~Unlinkable(lru[o], me.x)
  <2>1. PICK r \in ThreadState :
            /\ r = FinishTouch(me) /\ ThreadInv(r, key) /\ r.locks = <<>> /\ r.pc # "evict"
            /\ free[t] = <<>> => r.op \in Inserts
      BY <1>1, <1>2, TouchDone
  <2>2. th' = [th EXCEPT ![t] = r]
      BY <2>1, <1>1, <1>8 DEF Unlink
  <2> QED
      BY <2>1, <2>2, <1>1, <1>2, <1>3, <1>5, <1>6, <1>7, ListOnlyStep
<1>9. CASE ~(\A o \in Threads : ~Unlinkable(lru[o], me.x)) /\ me.op = "remove"
  <2>1. PICK r : r = [me EXCEPT !.pc = "putBack", !.e = me.x]
      OBVIOUS
  <2>2. "putBack" \in Labels
      BY DEF Labels
  <2>3. /\ r \in ThreadState /\ Same(r, me)
        /\ r.pc = "putBack" /\ r.locks = me.locks /\ r.del = me.del
        /\ r.e = me.x /\ r.x = me.x
      BY <2>1, <2>2, <1>3 DEF ThreadState, Same
  <2>4. ThreadInv(r, key)
      BY <2>3, <1>1, <1>2, <1>3, <1>9
      DEF ThreadInv, LocksAt, OpAt, ElementAt, Goal, Inserts, Same
  <2>5. th' = [th EXCEPT ![t] = r]
      BY <2>1, <1>1, <1>9 DEF Unlink
  <2>6. free[t] # <<>>
      BY <1>1, <1>9, HasFree DEF Inserts
  <2>7. r.pc # "evict" /\ r.locks = <<>>
      BY <2>3, <1>3
  <2> QED
      BY <2>3, <2>4, <2>5, <2>6, <2>7, <1>1, <1>2, <1>3, <1>5, <1>6, <1>7, ListOnlyStep
<1>10. CASE ~(\A o \in Threads : ~Unlinkable(lru[o], me.x)) /\ me.op # "remove"
  <2>1. PICK r : r = [me EXCEPT !.pc = "relink"]
      OBVIOUS
  <2>2. "relink" \in Labels
      BY DEF Labels
  <2>3. /\ r \in ThreadState /\ Same(r, me)
        /\ r.pc = "relink" /\ r.locks = me.locks /\ r.del = me.del
        /\ r.e = me.e /\ r.x = me.x
      BY <2>1, <2>2 DEF ThreadState, Same
  <2>4. ThreadInv(r, key)
      BY <2>3, <1>1, <1>2, <1>3, <1>10
      DEF ThreadInv, LocksAt, OpAt, ElementAt, Goal, Inserts, Same
  <2>5. th' = [th EXCEPT ![t] = r]
      BY <2>1, <1>1, <1>10 DEF Unlink
  <2>6. free[t] = <<>> => r.op \in Inserts
      BY <2>3, <1>1 DEF HashInv, ListInv, Same
  <2>7. r.pc # "evict" /\ r.locks = <<>>
      BY <2>3, <1>3
  <2> QED
      BY <2>3, <2>4, <2>5, <2>6, <2>7, <1>1, <1>2, <1>3, <1>5, <1>6, <1>7, ListOnlyStep
<1> QED
    BY <1>8, <1>9, <1>10

\* The lists after linkHead of an element that has a key.
LEMMA LinkedHead ==
    ASSUME HashInv, NEW t \in Threads, NEW x \in Elements, key[x] # None,
           lru' = [lru EXCEPT ![t] = <<x>> \o @]
    PROVE  /\ lru' \in [Threads -> Seq(Elements)] /\ lru'[t] # <<>>
           /\ \A u \in Threads : u # t => lru'[u] = lru[u]
           /\ \A u \in Threads : \A i \in 1 .. Len(lru'[u]) : key[lru'[u][i]] # None
<1>1. lru \in [Threads -> Seq(Elements)]
    BY DEF HashInv, TableTypes
<1>2. PICK s \in Seq(Elements), n \in Nat :
          s = lru[t] /\ n = Len(s) /\ \A j \in 1 .. n : key[s[j]] # None
    BY <1>1 DEF HashInv, ListInv
<1>3. PICK q \in Seq(Elements) :
          /\ q = <<x>> \o s /\ Len(q) = n + 1 /\ q[1] = x /\ q # <<>>
          /\ \A j \in 1 .. n : q[j + 1] = s[j]
    BY <1>2, PrependLemma
<1>4. ASSUME NEW i \in 1 .. n + 1 PROVE key[q[i]] # None
  <2>1. CASE i = 1
      BY <2>1, <1>3
  <2>2. CASE i # 1
    <3>1. i - 1 \in 1 .. n /\ (i - 1) + 1 = i
        BY <2>2
    <3> QED
        BY <3>1, <1>2, <1>3
  <2> QED
      BY <2>1, <2>2
<1>5. lru'[t] = q /\ \A u \in Threads : u # t => lru'[u] = lru[u]
    BY <1>1, <1>2, <1>3
<1> QED
    BY <1>1, <1>2, <1>3, <1>4, <1>5 DEF HashInv, ListInv

\* The element found goes to the front of the caller's own list.
LEMMA RelinkStep ==
    ASSUME HashInv, NEW t \in Threads, Relink(t)
    PROVE  HashInv'
<1>1. PICK me \in ThreadState : me = th[t] /\ ThreadInv(me, key)
    BY Mine
<1>2. me.pc = "relink" /\ UNCHANGED <<slot, key, val, free, res, ops>>
    BY <1>1 DEF Relink, At
<1>3. me.x \in Elements /\ key[me.x] # None
    BY <1>1, <1>2 DEF ThreadInv, ElementAt, ThreadState, Goal
<1>4. lru' = [lru EXCEPT ![t] = <<me.x>> \o @]
    BY <1>1 DEF Relink
<1>5. /\ lru' \in [Threads -> Seq(Elements)]
      /\ \A u \in Threads : u # t => lru'[u] = lru[u]
      /\ \A u \in Threads : \A i \in 1 .. Len(lru'[u]) : key[lru'[u][i]] # None
    BY <1>3, <1>4, LinkedHead
<1>6. PICK r \in ThreadState :
          /\ r = FinishTouch(me) /\ ThreadInv(r, key) /\ r.locks = <<>> /\ r.pc # "evict"
          /\ th[t].locks = <<>> /\ free[t] = <<>> => r.op \in Inserts
    BY <1>1, <1>2, TouchDone
<1>7. th' = [th EXCEPT ![t] = r] /\ th[t].locks = <<>>
    BY <1>6, <1>1, <1>2 DEF Relink, ThreadInv, LocksAt
<1>8. free[t] = <<>> => r.op \in Inserts
    BY <1>6, <1>7
<1>9. free' \in [Threads -> Seq(Elements)]
    BY <1>2 DEF HashInv, TableTypes
<1> QED
    BY <1>2, <1>5, <1>6, <1>7, <1>8, <1>9, ListOnlyStep

\* An element taken from the free list and not used goes back to it.
LEMMA PutBackStep ==
    ASSUME HashInv, NEW t \in Threads, PutBack(t)
    PROVE  HashInv'
<1>1. PICK me \in ThreadState : me = th[t] /\ ThreadInv(me, key)
    BY Mine
<1>2. me.pc = "putBack" /\ UNCHANGED <<slot, key, val, lru, res, ops>>
    BY <1>1 DEF PutBack, At
<1>3. me.e \in Elements /\ me.locks = <<>>
    BY <1>1, <1>2 DEF ThreadInv, ElementAt, LocksAt, ThreadState, Goal
<1>4. free' = [free EXCEPT ![t] = <<me.e>> \o @] /\ th' = [th EXCEPT ![t] = Idle]
    BY <1>1 DEF PutBack
<1>5. free \in [Threads -> Seq(Elements)] /\ lru \in [Threads -> Seq(Elements)]
    BY DEF HashInv, TableTypes
<1>6. <<me.e>> \o free[t] \in Seq(Elements) /\ <<me.e>> \o free[t] # <<>>
    BY <1>3, <1>5, PrependLemma
<1>7. /\ free' \in [Threads -> Seq(Elements)] /\ free'[t] # <<>>
      /\ \A u \in Threads : u # t => free'[u] = free[u]
    BY <1>4, <1>5, <1>6
<1>8. \A u \in Threads : \A i \in 1 .. Len(lru'[u]) : key[lru'[u][i]] # None
    BY <1>2 DEF HashInv, ListInv
<1> QED
    BY <1>1, <1>2, <1>3, <1>4, <1>5, <1>7, <1>8, GoIdle, ListOnlyStep

\* The inserted element goes to the front of the caller's list.
LEMMA LinkStep ==
    ASSUME HashInv, NEW t \in Threads, Link(t)
    PROVE  HashInv'
<1>1. PICK me \in ThreadState : me = th[t] /\ ThreadInv(me, key)
    BY Mine
<1>2. me.pc = "link" /\ UNCHANGED <<slot, key, val, free, res, ops>>
    BY <1>1 DEF Link, At
<1>3. /\ me.op \in Inserts /\ me.e \in Elements /\ key[me.e] # None
      /\ me.locks = <<>>
    BY <1>1, <1>2 DEF ThreadInv, ElementAt, OpAt, LocksAt, ThreadState, Goal
<1>4. lru' = [lru EXCEPT ![t] = <<me.e>> \o @]
    BY <1>1 DEF Link
<1>5. /\ lru' \in [Threads -> Seq(Elements)] /\ lru'[t] # <<>>
      /\ \A u \in Threads : u # t => lru'[u] = lru[u]
      /\ \A u \in Threads : \A i \in 1 .. Len(lru'[u]) : key[lru'[u][i]] # None
    BY <1>3, <1>4, LinkedHead
<1>6. free' \in [Threads -> Seq(Elements)]
    BY <1>2 DEF HashInv, TableTypes
<1>7. CASE free[t] = <<>>
  <2>1. PICK r : r = [me EXCEPT !.pc = "evict"]
      OBVIOUS
  <2>2. "evict" \in Labels
      BY DEF Labels
  <2>3. /\ r \in ThreadState /\ Same(r, me)
        /\ r.pc = "evict" /\ r.locks = me.locks /\ r.del = me.del
        /\ r.e = me.e /\ r.x = me.x
      BY <2>1, <2>2 DEF ThreadState, Same
  <2>4. ThreadInv(r, key)
      BY <2>3, <1>1, <1>2, <1>3
      DEF ThreadInv, LocksAt, OpAt, ElementAt, Goal, Inserts, Same
  <2>5. th' = [th EXCEPT ![t] = r]
      BY <2>1, <1>1, <1>7 DEF Link, HashInv, ThreadTypes
  <2>6. r.op \in Inserts /\ r.locks = <<>> /\ th[t].locks = <<>>
      BY <2>3, <1>1, <1>3 DEF Same
  <2> QED
      BY <2>3, <2>4, <2>5, <2>6, <1>2, <1>5, <1>6, ListOnlyStep
<1>8. CASE free[t] # <<>>
  <2>1. th' = [th EXCEPT ![t] = Idle]
      BY <1>8 DEF Link, HashInv, ThreadTypes
  <2> QED
      BY <2>1, <1>1, <1>2, <1>3, <1>5, <1>6, <1>8, GoIdle, ListOnlyStep
<1> QED
    BY <1>7, <1>8

\* unlinkTail takes the last element of a list.
LEMMA FrontLemma ==
    ASSUME NEW s \in Seq(Elements), s # <<>>
    PROVE  /\ Last(s) \in Elements /\ Last(s) = s[Len(s)] /\ Len(s) \in Nat \ {0}
           /\ Front(s) \in Seq(Elements) /\ Len(Front(s)) = Len(s) - 1
           /\ \A j \in 1 .. Len(s) - 1 : Front(s)[j] = s[j]
<1>1. PICK n \in Nat \ {0} : n = Len(s)
    OBVIOUS
<1>2. \A j \in 1 .. n : s[j] \in Elements
    BY <1>1
<1>3. Last(s) = s[n] /\ Last(s) \in Elements
    BY <1>1, <1>2 DEF Last
<1>4. n - 1 \in Int /\ \A j \in 1 .. n - 1 : s[j] \in Elements
    BY <1>1, <1>2
<1>5. PICK q : q = SubSeq(s, 1, n - 1)
    OBVIOUS
<1>6. /\ q \in Seq(Elements) /\ Len(q) = IF 1 <= n - 1 THEN n - 1 - 1 + 1 ELSE 0
      /\ \A i \in 1 .. n - 1 - 1 + 1 : q[i] = s[1 + i - 1]
    BY <1>4, <1>5, SubSeqProperties
<1>7. Len(q) = n - 1 /\ \A j \in 1 .. n - 1 : q[j] = s[j]
    BY <1>1, <1>6
<1>8. Front(s) = q
    BY <1>1, <1>5 DEF Front
<1> QED
    BY <1>1, <1>3, <1>6, <1>7, <1>8

\* The last element of a full list is taken off, to be removed from the table.
LEMMA EvictStep ==
    ASSUME HashInv, NEW t \in Threads, Evict(t)
    PROVE  HashInv'
<1>1. PICK me \in ThreadState : me = th[t] /\ ThreadInv(me, key)
    BY Mine
<1>2. me.pc = "evict" /\ UNCHANGED <<slot, key, val, free, res, ops>>
    BY <1>1 DEF Evict, At
<1>3. me.op \in Inserts /\ me.locks = <<>> /\ me.op \in Ops
  <2>1. None \notin Inserts
      BY MarkAssumption DEF Operations, Inserts
  <2> QED
      BY <2>1, <1>1, <1>2 DEF ThreadInv, OpAt, LocksAt, Goal, ThreadState
<1>4. lru \in [Threads -> Seq(Elements)] /\ lru[t] # <<>>
    BY <1>1, <1>2 DEF HashInv, TableTypes, ListInv, At
<1>5. PICK s \in Seq(Elements), n \in Nat \ {0} :
          s = lru[t] /\ n = Len(s) /\ \A j \in 1 .. n : key[s[j]] # None
    BY <1>4 DEF HashInv, ListInv
<1>6. PICK e \in Elements : e = Last(lru[t]) /\ e = s[n]
    BY <1>4, <1>5, FrontLemma
<1>7. PICK q \in Seq(Elements) : q = Front(s) /\ Len(q) = n - 1
                                 /\ \A j \in 1 .. n - 1 : q[j] = s[j]
    BY <1>4, <1>5, FrontLemma
<1>8. key[e] \in Keys /\ Home[key[e]] \in Slots
  <2>1. key[e] # None /\ key[e] \in Keys \cup {None}
      BY <1>5, <1>6 DEF HashInv, TableTypes
  <2> QED
      BY <2>1, ParameterAssumption
<1>9. lru' = [lru EXCEPT ![t] = q]
    BY <1>5, <1>7 DEF Evict
<1>10. /\ lru' \in [Threads -> Seq(Elements)] /\ lru'[t] = q
       /\ \A u \in Threads : u # t => lru'[u] = lru[u]
    BY <1>4, <1>9
<1>11. \A u \in Threads : \A i \in 1 .. Len(lru'[u]) : key[lru'[u][i]] # None
  <2>1. \A j \in 1 .. Len(q) : key[q[j]] # None
    <3>1. \A j \in 1 .. n - 1 : j \in 1 .. n
        OBVIOUS
    <3> QED
        BY <3>1, <1>5, <1>7
  <2> QED
      BY <2>1, <1>10 DEF HashInv, ListInv
<1>12. PICK r : r = [Idle EXCEPT !.pc = "find", !.op = me.op, !.e = e, !.start = Home[key[e]]]
    OBVIOUS
<1>13. "find" \in Labels
    BY DEF Labels
<1>14. /\ r \in ThreadState /\ r.pc = "find" /\ r.op = me.op /\ r.e = e /\ r.x = None
       /\ r.locks = <<>> /\ r.del = 0
    BY <1>3, <1>8, <1>12, <1>13, GoIdle DEF ThreadState
<1>15. e # None /\ None \notin Inserts /\ Len(<<>>) = 0
    BY MarkAssumption DEF Operations, Inserts
<1>16. ThreadInv(r, key)
    BY <1>3, <1>14, <1>15
    DEF ThreadInv, LocksAt, OpAt, ElementAt, Goal, Inserts
<1>17. th' = [th EXCEPT ![t] = r]
    BY <1>1, <1>6, <1>12 DEF Evict
<1>18. free' \in [Threads -> Seq(Elements)]
    BY <1>2 DEF HashInv, TableTypes
<1>19. r.pc # "evict" /\ r.op \in Inserts
    BY <1>3, <1>14
<1> QED
    BY <1>1, <1>2, <1>3, <1>10, <1>11, <1>14, <1>16, <1>17, <1>18, <1>19, ListOnlyStep

-----------------------------------------------------------------------------
(* The start *)

\* A product of two numbers grows with its factors.
LEMMA TimesLemma ==
    ASSUME NEW p \in Nat, NEW n \in Nat, NEW t \in 1 .. n
    PROVE  (t - 1) * p \in Nat /\ p * n \in Nat /\ (t - 1) * p + p <= p * n
<1>1. (t - 1) * p \in Nat /\ p * n \in Nat /\ (n - t) * p \in Nat
    OBVIOUS
<1>2. p * n = (t - 1) * p + p + (n - t) * p
    OBVIOUS
<1> QED
    BY <1>1, <1>2

\* There is a thread, and the elements are numbered from 1.
LEMMA ThreadCount ==
    \E n \in Nat \ {0} : /\ n = Cardinality(Threads) /\ Threads = 1 .. n
                         /\ Elements = 1 .. PerThread * n /\ PerThread * n \in Nat
                         /\ PerThread \in Nat \ {0} /\ PerThread <= PerThread * n
<1>1. PICK n \in Nat : n = Cardinality(Threads)
    BY ParameterAssumption, FS_CardinalityType
<1>2. Threads = 1 .. n /\ Threads # {}
    BY <1>1, ParameterAssumption
<1>3. n # 0
    BY <1>2
<1>4. PerThread \in Nat
    BY ParameterAssumption
<1>5. PerThread # 0
    BY <1>4, LoadedAssumption, ParameterAssumption
<1>6. 1 \in 1 .. n
    BY <1>3
<1>7. PerThread * n \in Nat /\ (1 - 1) * PerThread + PerThread <= PerThread * n
    BY <1>4, <1>6, TimesLemma
<1>8. (1 - 1) * PerThread + PerThread = PerThread
    BY <1>4
<1> QED
    BY <1>1, <1>2, <1>3, <1>4, <1>5, <1>7, <1>8 DEF Elements

\* The constructor gives each thread its share of the elements.
LEMMA OwnLemma ==
    ASSUME NEW t \in Threads
    PROVE  /\ Own(t) \in Seq(Elements) /\ Len(Own(t)) = PerThread
           /\ \A i \in 1 .. PerThread : Own(t)[i] = (t - 1) * PerThread + i
           /\ \A i \in 1 .. PerThread : (t - 1) * PerThread + i \in Elements
<1>1. PICK n \in Nat \ {0} : /\ Threads = 1 .. n
                             /\ Elements = 1 .. PerThread * n /\ PerThread * n \in Nat
                             /\ PerThread \in Nat \ {0}
    BY ThreadCount
<1>2. PICK a \in Nat : a = (t - 1) * PerThread /\ a + PerThread <= PerThread * n
    BY <1>1, TimesLemma
<1>3. \A i \in 1 .. PerThread : a + i \in Elements
    BY <1>1, <1>2
<1>4. Own(t) = [i \in 1 .. PerThread |-> a + i]
    BY <1>2 DEF Own
<1> QED
    BY <1>1, <1>2, <1>3, <1>4

\* The table as it is built, some keys already stored.
LEMMA HashInit == Init => HashInv
<1> SUFFICES ASSUME Init PROVE HashInv
    OBVIOUS
<1>1. PICK n \in Nat \ {0} : /\ Threads = 1 .. n
                             /\ Elements = 1 .. PerThread * n /\ PerThread * n \in Nat
                             /\ PerThread \in Nat \ {0} /\ PerThread <= PerThread * n
    BY ThreadCount
<1>2. PICK m \in Nat : /\ m = Len(Loaded) /\ m < PerThread /\ DOMAIN Loaded = 1 .. m
                       /\ \A i \in 1 .. m : Loaded[i] \in Keys
    BY ParameterAssumption, LoadedAssumption
<1>3. DOMAIN Loaded \subseteq Elements
    BY <1>1, <1>2
<1>4. slot \in [Slots -> Contents]
    BY <1>3 DEF Init, Contents
<1>5. key \in [Elements -> Keys \cup {None}] /\ \A e \in 1 .. m : key[e] # None
  <2>1. \A e \in DOMAIN Loaded : Loaded[e] \in Keys /\ Loaded[e] # None
      BY <1>2, MarkAssumption
  <2>2. key \in [Elements -> Keys \cup {None}]
      BY <2>1 DEF Init
  <2> QED
      BY <2>1, <2>2, <1>2, <1>3 DEF Init
<1>6. val \in [Elements -> Values \cup {None}]
    BY ParameterAssumption DEF Init
<1>7. 1 \in Threads /\ Own(1) \in Seq(Elements) /\ Len(Own(1)) = PerThread
    BY <1>1, OwnLemma
<1>8. \A i \in 1 .. PerThread : Own(1)[i] = i
  <2>1. \A i \in 1 .. PerThread : (1 - 1) * PerThread + i = i
      BY <1>1
  <2> QED
      BY <2>1, <1>7, OwnLemma
<1>9. PICK s \in Seq(Elements) : /\ s = SubSeq(Own(1), 1, m) /\ Len(s) = m
                                 /\ \A i \in 1 .. m : s[i] = i
  <2>1. PICK p \in Nat : p = PerThread /\ m < p
      BY <1>1, <1>2
  <2>2. PICK o : o = Own(1) /\ \A i \in 1 .. m : o[i] = i /\ o[i] \in Elements
      BY <2>1, <1>7, <1>8
  <2>3. PICK s : s = SubSeq(o, 1, m)
      OBVIOUS
  <2>4. /\ s \in Seq(Elements) /\ Len(s) = IF 1 <= m THEN m - 1 + 1 ELSE 0
        /\ \A i \in 1 .. m - 1 + 1 : s[i] = o[1 + i - 1]
      BY <2>2, <2>3, SubSeqProperties
  <2>5. Len(s) = m /\ \A i \in 1 .. m : s[i] = o[i]
      BY <2>4
  <2> QED
      BY <2>2, <2>3, <2>4, <2>5
<1>10. PICK h \in Seq(Elements) : /\ h = Reverse(s) /\ Len(h) = m
                                  /\ \A i \in 1 .. m : h[i] \in 1 .. m
  <2>1. Reverse(s) = [i \in 1 .. m |-> s[(m - i) + 1]]
      BY <1>9 DEF Reverse
  <2>2. \A i \in 1 .. m : (m - i) + 1 \in 1 .. m
      OBVIOUS
  <2>3. \A i \in 1 .. m : s[(m - i) + 1] \in 1 .. m /\ s[(m - i) + 1] \in Elements
      BY <2>2, <1>2, <1>3, <1>9
  <2> QED
      BY <2>1, <2>3
<1>11. PICK f \in Seq(Elements) : f = SubSeq(Own(1), m + 1, PerThread) /\ f # <<>>
  <2>1. PICK p \in Nat : p = PerThread /\ m < p
      BY <1>1, <1>2
  <2>2. \A i \in m + 1 .. p : Own(1)[i] \in Elements
      BY <2>1, <1>7
  <2>3. PICK f : f = SubSeq(Own(1), m + 1, p)
      OBVIOUS
  <2>4. f \in Seq(Elements) /\ Len(f) = IF m + 1 <= p THEN p - (m + 1) + 1 ELSE 0
      BY <2>1, <2>2, <2>3, SubSeqProperties
  <2>5. Len(f) # 0 /\ f # <<>>
      BY <2>1, <2>4
  <2>6. f = SubSeq(Own(1), m + 1, PerThread)
      BY <2>1, <2>3
  <2> QED
      BY <2>4, <2>5, <2>6
<1>12. /\ lru = [t \in Threads |-> IF t = 1 THEN h ELSE <<>>]
       /\ free = [t \in Threads |-> IF t = 1 THEN f ELSE Own(t)]
    BY <1>2, <1>9, <1>10, <1>11 DEF Init
<1>13. lru \in [Threads -> Seq(Elements)]
    BY <1>12
<1>14. free \in [Threads -> Seq(Elements)] /\ \A t \in Threads : free[t] # <<>>
  <2>1. \A t \in Threads : Own(t) \in Seq(Elements) /\ Own(t) # <<>>
    <3> SUFFICES ASSUME NEW t \in Threads PROVE Own(t) \in Seq(Elements) /\ Own(t) # <<>>
        OBVIOUS
    <3>1. Own(t) \in Seq(Elements) /\ Len(Own(t)) # 0
        BY OwnLemma, <1>1
    <3> QED
        BY <3>1
  <2> QED
      BY <2>1, <1>11, <1>12
<1>15. th = [t \in Threads |-> Idle]
    BY DEF Init
<1>16. TableTypes
  <2>1. res \in [Threads -> Values \cup BOOLEAN \cup {None}]
      BY DEF Init
  <2>2. ops \in [Threads -> 0 .. MaxOps]
      BY ParameterAssumption DEF Init
  <2>3. slot \in [Slots -> Contents \cup {LOCK}]
      BY <1>4
  <2> QED
      BY <2>1, <2>2, <2>3, <1>5, <1>6, <1>13, <1>14 DEF TableTypes
<1>17. ThreadTypes /\ \A t \in Threads : th[t] = Idle /\ ThreadInv(th[t], key)
    BY <1>15, GoIdle DEF ThreadTypes
<1>18. ListInv
  <2>1. \A t \in Threads : \A i \in 1 .. Len(lru[t]) : key[lru[t][i]] # None
    <3> SUFFICES ASSUME NEW t \in Threads, NEW i \in 1 .. Len(lru[t])
                 PROVE  key[lru[t][i]] # None
        OBVIOUS
    <3>1. CASE t = 1
        BY <3>1, <1>5, <1>10, <1>12
    <3>2. CASE t # 1
        BY <3>2, <1>12
    <3> QED
        BY <3>1, <3>2
  <2> QED
      BY <2>1, <1>14, <1>17, GoIdle DEF ListInv, At
<1>19. LockInv
  <2>1. \A t \in Threads : HeldBy(th[t]) = {} /\ Len(th[t].locks) = 0
    <3>1. Idle.start \in Slots /\ Len(Idle.locks) = 0
        BY GoIdle DEF ThreadState
    <3> QED
        BY <3>1, <1>17, RunEmpty DEF HeldBy
  <2>2. \A p \in Slots : slot[p] # LOCK
      BY <1>4, MarkAssumption DEF Contents
  <2>3. \A t \in Threads : Len(th[t].locks) <= HashSize
      BY <2>1, SizePositive
  <2>4. \A t, u \in Threads : t # u => HeldBy(th[t]) \cap HeldBy(th[u]) = {}
      BY <2>1
  <2>5. \A p \in Slots : slot[p] = LOCK <=> \E t \in Threads : p \in HeldBy(th[t])
      BY <2>1, <2>2
  <2> QED
      BY <2>3, <2>4, <2>5 DEF LockInv
<1> QED
    BY <1>16, <1>17, <1>18, <1>19 DEF HashInv

-----------------------------------------------------------------------------
(* The theorems *)

\* The invariant holds in every reachable state.
THEOREM HashInductive == Spec => []HashInv
<1>1. HashInv /\ [Next]_vars => HashInv'
  <2> SUFFICES ASSUME HashInv, [Next]_vars PROVE HashInv'
      OBVIOUS
  <2>1. ASSUME NEW t \in Threads, HashStep(t) PROVE HashInv'
      BY <2>1, ProbeStep, FoundStep, FillStep, UnlockStep, VisitStep, LeaveStep, FindStep,
         FindKeyStep, ShiftStep, AgainStep DEF HashStep
  <2>2. ASSUME NEW t \in Threads, ListStep(t) PROVE HashInv'
      BY <2>2, UnlinkStep, RelinkStep, PutBackStep, LinkStep, EvictStep DEF ListStep
  <2>3. ASSUME NEW t \in Threads, CallProcess(t) PROVE HashInv'
      BY <2>3, CallProcessStep
  <2>4. ASSUME NEW t \in Threads, NEW o \in Ops \ {"process"}, NEW k \in Keys,
               NEW v \in (IF o \in {"get", "remove"} THEN {None} ELSE Values), Call(t, o, k, v)
        PROVE  HashInv'
      BY <2>4, CallStep
  <2>5. CASE UNCHANGED vars
      BY <2>5 DEF vars, lists, HashInv, TableTypes, ThreadTypes, LockInv, ListInv, At
  <2> QED
      BY <2>1, <2>2, <2>3, <2>4, <2>5 DEF Next, Step, Stopped
<1> QED
    BY <1>1, HashInit, PTL DEF Spec

\* Every variable keeps its type.
THEOREM HashTypeCorrect == Spec => []TypeOK
<1>1. HashInv => TypeOK
  <2> SUFFICES ASSUME HashInv PROVE TypeOK
      OBVIOUS
  <2>1. ASSUME NEW t \in Threads
        PROVE  /\ th[t].pc \in Labels /\ th[t].op \in Ops \cup {None}
               /\ th[t].e \in Elements \cup {None} /\ th[t].x \in Elements \cup {None}
               /\ th[t].start \in Slots /\ th[t].locks \in Seq(Elements \cup {FREE})
               /\ th[t].del \in 0 .. Len(th[t].locks)
    <3>1. PICK me \in ThreadState : me = th[t] /\ ThreadInv(me, key)
        BY Mine
    <3>2. me.del \in 0 .. Len(me.locks)
        BY <3>1 DEF ThreadInv, LocksAt, ThreadState
    <3> QED
        BY <3>1, <3>2 DEF ThreadState, Contents
  <2>2. slot \in [Slots -> Elements \cup {FREE, LOCK}]
    <3>1. Contents \cup {LOCK} = Elements \cup {FREE, LOCK}
        BY DEF Contents
    <3> QED
        BY <3>1 DEF HashInv, TableTypes
  <2> QED
      BY <2>1, <2>2 DEF HashInv, TableTypes, TypeOK
<1> QED
    BY <1>1, HashInductive, PTL

\* A slot is marked locked exactly while one thread, and only one, remembers
\* its content: lockElementHash and unlockElementsHash keep the runs of slots of
\* different threads apart, also where they go around the end of the array.
THEOREM HashLocksOwned == Spec => []LocksOwned
<1>1. HashInv => LocksOwned
  <2> SUFFICES ASSUME HashInv, NEW s \in Slots
               PROVE  Cardinality({t \in Threads : Holds(t, s)}) =
                      (IF slot[s] = LOCK THEN 1 ELSE 0)
      BY DEF LocksOwned
  <2>1. ASSUME NEW t \in Threads PROVE Holds(t, s) <=> s \in HeldBy(th[t])
    <3>1. DOMAIN th[t].locks = 1 .. Len(th[t].locks)
        BY Mine DEF ThreadState
    <3> QED
        BY <3>1 DEF Holds, HeldBy, Run, SlotAt
  <2>2. CASE slot[s] = LOCK
    <3>1. PICK t \in Threads : s \in HeldBy(th[t])
        BY <2>2 DEF HashInv, LockInv
    <3>2. \A u \in Threads : u # t => s \notin HeldBy(th[u])
        BY <3>1 DEF HashInv, LockInv
    <3>3. {u \in Threads : Holds(u, s)} = {t}
        BY <2>1, <3>1, <3>2
    <3> QED
        BY <2>2, <3>3, FS_Singleton
  <2>3. CASE slot[s] # LOCK
    <3>1. {u \in Threads : Holds(u, s)} = {}
        BY <2>1, <2>3 DEF HashInv, LockInv
    <3> QED
        BY <2>3, <3>1, FS_EmptySet
  <2> QED
      BY <2>2, <2>3
<1> QED
    BY <1>1, HashInductive, PTL

\* A thread between operations has a free element: insertOrSet and insert may
\* read elementStorage[freeListHead] without a test for the end mark.
THEOREM HashFreeElementReady == Spec => []FreeElementReady
<1>1. HashInv => FreeElementReady
  <2> SUFFICES ASSUME HashInv, NEW t \in Threads, th[t].pc = "idle" PROVE free[t] # <<>>
      BY DEF FreeElementReady, At
  <2>1. th[t].op = None
      BY Mine, GoIdle DEF ThreadInv, OpAt
  <2>2. None \notin Inserts
      BY MarkAssumption DEF Operations, Inserts
  <2> QED
      BY <2>1, <2>2, HasFree
<1> QED
    BY <1>1, HashInductive, PTL
=============================================================================
