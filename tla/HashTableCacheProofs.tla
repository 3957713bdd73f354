------------------------ MODULE HashTableCacheProofs ------------------------
(***************************************************************************)
(* Without removals, and as long as no cluster goes around the end of the  *)
(* array, the hash table is a cache: every get, set, insert and            *)
(* insertOrSet of any number of threads takes effect at one instant.       *)
(***************************************************************************)
EXTENDS HashTableProbingProofs

\* What a thread that has a request knows: whether it has a value, and where it
\* has found its key.
CacheAt(r, keys) ==
    /\ r.pc \in {"probe", "found", "fill"} => IF r.op = "get" THEN r.val = None
                                                              ELSE r.val \in Values
    /\ r.pc = "found" => /\ r.x = r.locks[Len(r.locks)] /\ r.x \in Elements
                         /\ keys[r.x] = r.key

\* Every element in the hash has a value.
CacheInv == /\ \A e \in Hashed : val[e] \in Values
            /\ \A t \in Threads : CacheAt(th[t], key)

-----------------------------------------------------------------------------
(* The map the table stands for *)

\* The elements in the hash are entries of the map; other keys are absent.
Maps(cache, hashed, keys, vals) ==
    /\ cache = [k \in Keys |-> cache[k]]
    /\ \A e \in hashed : cache[keys[e]] = vals[e]
    /\ \A k \in Keys : (\A e \in hashed : keys[e] # k) => cache[k] = None

\* Every key has one element at most.
LEMMA OneElement ==
    ASSUME ProbingInv
    PROVE  /\ \A e \in Hashed : e \in Elements /\ key[e] \in Keys
           /\ \A d, e \in Hashed : key[d] = key[e] => d = e
<1>1. Probing(RawSlots, Entries, key)
    BY DEF ProbingInv
<1>2. \A e \in Hashed : \E s \in Slots : Entries[s] = e /\ Entries[s] # FREE
    BY HashedLemma
<1>3. ASSUME NEW d \in Hashed, NEW e \in Hashed, key[d] = key[e] PROVE d = e
  <2>1. PICK r \in Slots : Entries[r] = d /\ Entries[r] # FREE
      BY <1>2
  <2>2. PICK s \in Slots : Entries[s] = e /\ Entries[s] # FREE
      BY <1>2
  <2>3. r # s => key[Entries[r]] # key[Entries[s]]
      BY <2>1, <2>2, <1>1 DEF Probing
  <2> QED
      BY <2>1, <2>2, <2>3, <1>3
<1> QED
    BY <1>1, <1>2, <1>3 DEF Probing

\* CacheNow is this map.
CacheIsMap == Maps(CacheNow, Hashed, key, val)
LEMMA CacheMaps == ProbingInv => CacheIsMap
<1> SUFFICES ASSUME ProbingInv PROVE CacheIsMap
    OBVIOUS
<1>1. PICK h : h = Hashed
    OBVIOUS
<1>2. CacheNow = [k \in Keys |-> IF \E e \in h : key[e] = k
                                 THEN val[CHOOSE e \in h : key[e] = k] ELSE None]
    BY <1>1 DEF CacheNow
<1>3. ASSUME NEW e \in h PROVE CacheNow[key[e]] = val[e]
  <2>1. key[e] \in Keys /\ \A d \in h : key[d] = key[e] <=> d = e
      BY <1>1, OneElement
  <2>2. CacheNow[key[e]] = val[CHOOSE d \in h : key[d] = key[e]]
      BY <2>1, <1>2
  <2>3. (CHOOSE d \in h : key[d] = key[e]) = e
      BY <2>1
  <2> QED
      BY <2>2, <2>3
<1>4. \A k \in Keys : (\A e \in h : key[e] # k) => CacheNow[k] = None
    BY <1>2
<1>5. CacheNow = [k \in Keys |-> CacheNow[k]]
    BY <1>2
<1> QED
    BY <1>1, <1>3, <1>4, <1>5 DEF CacheIsMap, Maps

\* The same after a step.
LEMMA CacheMapsNext == ProbingInv' => Maps(CacheNow', Hashed', key', val')
<1>1. ProbingInv' => CacheIsMap'
    BY CacheMaps, PTL
<1> QED
    BY <1>1 DEF CacheIsMap

\* Two maps are the same.
LEMMA SameMap ==
    ASSUME NEW c, NEW c2, NEW h, NEW keys, NEW keys2, NEW vals, NEW vals2,
           Maps(c, h, keys, vals), Maps(c2, h, keys2, vals2),
           \A e \in h : keys2[e] = keys[e] /\ vals2[e] = vals[e]
    PROVE  c2 = c
<1>1. ASSUME NEW k \in Keys PROVE c2[k] = c[k]
  <2>1. CASE \E e \in h : keys[e] = k
    <3>1. PICK e \in h : keys[e] = k
        BY <2>1
    <3>2. c[k] = vals[e] /\ c2[k] = vals2[e]
        BY <3>1 DEF Maps
    <3> QED
        BY <3>2
  <2>2. CASE \A e \in h : keys[e] # k
    <3>1. c[k] = None /\ c2[k] = None
        BY <2>2 DEF Maps
    <3> QED
        BY <3>1
  <2> QED
      BY <2>1, <2>2
<1>2. c = [k \in Keys |-> c[k]] /\ c2 = [k \in Keys |-> c2[k]]
    BY DEF Maps
<1> QED
    BY <1>1, <1>2

\* An element gets a value, in the hash already or put there.
LEMMA WrittenMap ==
    ASSUME NEW c, NEW c2, NEW h, NEW h2, NEW keys, NEW keys2, NEW vals, NEW vals2,
           Maps(c, h, keys, vals), Maps(c2, h2, keys2, vals2),
           NEW e, NEW k \in Keys, e \in h2, keys2[e] = k, e \in h => keys[e] = k,
           \A d : d # e => (d \in h2 <=> d \in h),
           \A d \in h : d # e => keys2[d] = keys[d] /\ vals2[d] = vals[d]
    PROVE  c2 = [c EXCEPT ![k] = vals2[e]]
<1>1. c2[k] = vals2[e]
    BY DEF Maps
<1>2. ASSUME NEW l \in Keys, l # k PROVE c2[l] = c[l]
  <2>1. CASE \E d \in h : keys[d] = l
    <3>1. PICK d \in h : keys[d] = l
        BY <2>1
    <3>2. d # e /\ d \in h2
        BY <3>1, <1>2
    <3>3. c[l] = vals[d] /\ c2[l] = vals2[d]
        BY <3>1, <3>2 DEF Maps
    <3> QED
        BY <3>2, <3>3
  <2>2. CASE \A d \in h : keys[d] # l
    <3>1. \A d \in h2 : keys2[d] # l
        BY <2>2, <1>2
    <3>2. c[l] = None /\ c2[l] = None
        BY <3>1, <2>2 DEF Maps
    <3> QED
        BY <3>2
  <2> QED
      BY <2>1, <2>2
<1>3. c = [l \in Keys |-> c[l]] /\ c2 = [l \in Keys |-> c2[l]]
    BY DEF Maps
<1> QED
    BY <1>1, <1>2, <1>3

\* An element leaves the hash.
LEMMA EvictedMap ==
    ASSUME NEW c, NEW c2, NEW h, NEW keys, NEW vals, NEW e \in h, NEW k \in Keys, keys[e] = k,
           Maps(c, h, keys, vals), Maps(c2, h \ {e}, keys, vals),
           \A d \in h : keys[d] = k => d = e
    PROVE  c2 = [c EXCEPT ![k] = None]
<1>1. c2[k] = None
  <2>1. \A d \in h \ {e} : keys[d] # k
      OBVIOUS
  <2> QED
      BY <2>1 DEF Maps
<1>2. ASSUME NEW l \in Keys, l # k PROVE c2[l] = c[l]
  <2>1. CASE \E d \in h : keys[d] = l
    <3>1. PICK d \in h : keys[d] = l
        BY <2>1
    <3>2. d \in h \ {e}
        BY <3>1, <1>2
    <3>3. c[l] = vals[d] /\ c2[l] = vals[d]
        BY <3>1, <3>2 DEF Maps
    <3> QED
        BY <3>3
  <2>2. CASE \A d \in h : keys[d] # l
    <3>1. c[l] = None /\ c2[l] = None
        BY <2>2 DEF Maps
    <3> QED
        BY <3>1
  <2> QED
      BY <2>1, <2>2
<1>3. c = [l \in Keys |-> c[l]] /\ c2 = [l \in Keys |-> c2[l]]
    BY DEF Maps
<1> QED
    BY <1>1, <1>2, <1>3

-----------------------------------------------------------------------------
(* What a probing thread has learnt *)

\* If probing from the home of key k on meets other keys and then a free slot,
\* the key is absent.
LEMMA KeyAbsent ==
    ASSUME HashInv, ProbingInv, NEW k \in Keys, NEW a \in Nat, NEW n \in Nat, a = Home[k],
           a + n <= HashSize,
           \A d \in a .. a + n - 1 : RawSlots[d] # FREE /\ key[RawSlots[d]] # k,
           a + n < HashSize => RawSlots[a + n] = FREE
    PROVE  \A e \in Hashed : key[e] # k
<1> SUFFICES ASSUME NEW e \in Hashed, key[e] = k PROVE FALSE
    OBVIOUS
<1>1. PICK s \in Slots : Entries[s] = e /\ Entries[s] # FREE
    BY HashedLemma
<1>2. RawSlots[s] = e /\ a <= s /\ \A d \in a .. s : RawSlots[d] # FREE
    BY <1>1 DEF ProbingInv, Probing
<1>3. s \in Nat /\ s < HashSize /\ HashSize \in Nat
    BY SizePositive DEF Slots
<1>4. CASE s < a + n
  <2>1. s \in a .. a + n - 1
      BY <1>2, <1>3, <1>4
  <2> QED
      BY <2>1, <1>2
<1>5. CASE s >= a + n
  <2>1. a + n \in a .. s /\ a + n < HashSize
      BY <1>2, <1>3, <1>5
  <2> QED
      BY <2>1, <1>2
<1> QED
    BY <1>3, <1>4, <1>5

\* A slot number is its own remainder.
LEMMA SmallRemainder ==
    ASSUME NEW x \in Nat, x < HashSize
    PROVE  x % HashSize = x
BY SizePositive

\* A thread that fills a slot has met it after other keys.
LEMMA FillAbsent ==
    ASSUME HashInv, ProbingInv, NEW t \in Threads, th[t].pc = "fill"
    PROVE  \A e \in Hashed : key[e] # th[t].key
<1>1. PICK me \in ThreadState : me = th[t] /\ ThreadInv(me, key) /\ RunInv(me, key)
    BY Mine DEF ProbingInv
<1>2. me.locks # <<>> /\ me.key # None /\ me.locks \in Seq(Contents)
    BY <1>1 DEF ThreadInv, LocksAt, OpAt, ThreadState
<1>3. PICK a \in Nat, n \in Nat, k \in Keys :
          a = me.start /\ n = Len(me.locks) - 1 /\ k = me.key
  <2>1. me.start \in Nat /\ me.key \in Keys
      BY <1>2 DEF ThreadState, Slots
  <2>2. Len(me.locks) - 1 \in Nat
      BY <1>2
  <2> QED
      BY <2>1, <2>2
<1>4. Len(me.locks) = n + 1
    BY <1>2, <1>3
<1>5. /\ a = Home[k] /\ a + n <= HashSize /\ me.locks[n + 1] = FREE
      /\ \A i \in 1 .. n : me.locks[i] # FREE /\ key[me.locks[i]] # k
  <2>1. /\ a = Home[k] /\ a + (n + 1) - 1 <= HashSize /\ me.locks[n + 1] = FREE
        /\ Passed(me, (n + 1) - 1, k, key)
      BY <1>1, <1>3, <1>4 DEF RunInv
  <2>2. (n + 1) - 1 = n /\ a + (n + 1) - 1 = a + n
      OBVIOUS
  <2> QED
      BY <2>1, <2>2 DEF Passed
<1>6. \A i \in 1 .. n + 1 : RawSlots[Nth(me, i)] = me.locks[i]
    BY <1>1, <1>4, SlotContents DEF SlotFacts
<1>7. ASSUME NEW d \in a .. a + n, d < HashSize
      PROVE  RawSlots[d] = me.locks[d - a + 1] /\ d - a + 1 \in 1 .. n + 1
  <2>1. PICK i \in 1 .. n + 1 : i = d - a + 1 /\ a + i - 1 = d
      OBVIOUS
  <2>2. Nth(me, i) = d
      BY <2>1, <1>3, <1>7, SmallRemainder DEF Nth
  <2> QED
      BY <2>1, <2>2, <1>6
<1>8. ASSUME NEW d \in a .. a + n - 1 PROVE RawSlots[d] # FREE /\ key[RawSlots[d]] # k
  <2>1. d \in a .. a + n /\ d < HashSize /\ d - a + 1 \in 1 .. n
      BY <1>5, SizePositive
  <2> QED
      BY <2>1, <1>5, <1>7
<1>9. a + n < HashSize => RawSlots[a + n] = FREE
  <2>1. a + n \in a .. a + n /\ (a + n) - a + 1 = n + 1
      OBVIOUS
  <2> QED
      BY <2>1, <1>5, <1>7
<1> QED
    BY <1>1, <1>3, <1>5, <1>8, <1>9, KeyAbsent

\* A get or set that comes to a free slot, too.
LEMMA ProbeAbsent ==
    ASSUME HashInv, ProbingInv, NEW t \in Threads, th[t].pc = "probe", LockNext(t),
           Last(Locked(t)) = FREE
    PROVE  \A e \in Hashed : key[e] # th[t].key
<1>1. PICK me \in ThreadState : me = th[t] /\ ThreadInv(me, key) /\ RunInv(me, key)
    BY Mine DEF ProbingInv
<1>2. PICK a \in Nat, n \in Nat, k \in Keys : a = me.start /\ n = Len(me.locks) /\ k = me.key
  <2>1. me.start \in Nat /\ me.key \in Keys /\ Len(me.locks) \in Nat
      BY <1>1 DEF ThreadState, Slots, ThreadInv, OpAt
  <2> QED
      BY <2>1
<1>3. PICK z \in Slots : z = (a + n) % HashSize /\ slot[z] = FREE /\ slot[z] # LOCK
    BY <1>1, <1>2, LockedLemma
<1>4. /\ a = Home[k] /\ a + n <= HashSize
      /\ \A i \in 1 .. n : me.locks[i] # FREE /\ key[me.locks[i]] # k
    BY <1>1, <1>2 DEF RunInv, Passed
<1>5. /\ \A i \in 1 .. n : RawSlots[Nth(me, i)] = me.locks[i]
      /\ RawSlots[z] = FREE
    BY <1>1, <1>2, <1>3, SlotContents DEF SlotFacts
<1>6. ASSUME NEW d \in a .. a + n - 1 PROVE RawSlots[d] # FREE /\ key[RawSlots[d]] # k
  <2>1. PICK i \in 1 .. n : i = d - a + 1 /\ a + i - 1 = d
      OBVIOUS
  <2>2. d < HashSize
      BY <1>4, SizePositive
  <2>3. Nth(me, i) = d
      BY <2>1, <2>2, <1>2, SmallRemainder DEF Nth
  <2> QED
      BY <2>1, <2>3, <1>4, <1>5
<1>7. a + n < HashSize => RawSlots[a + n] = FREE
    BY <1>3, <1>5, SmallRemainder
<1> QED
    BY <1>1, <1>2, <1>4, <1>6, <1>7, KeyAbsent

-----------------------------------------------------------------------------
(* Requests *)

\* Where an operation has not taken effect.
Asking == {"probe", "found", "fill", "findKey", "wildRead", "aborted"}
RequestOf(r) == IF r.key # None /\ r.pc \in Asking
                THEN [op |-> r.op, key |-> r.key, val |-> r.val] ELSE None

\* The requests after a step of thread t.
LEMMA PendingStep ==
    ASSUME HashInv, NEW t \in Threads, NEW r, th' = [th EXCEPT ![t] = r]
    PROVE  Pending' = [Pending EXCEPT ![t] = RequestOf(r)] /\ Pending[t] = RequestOf(th[t])
<1>1. Pending = [u \in Threads |-> RequestOf(th[u])]
    BY DEF Pending, RequestOf, Asking
<1>2. Pending' = [u \in Threads |-> RequestOf(th'[u])]
    BY DEF Pending, RequestOf, Asking
<1>3. \A u \in Threads : th'[u] = IF u = t THEN r ELSE th[u]
    BY DEF HashInv, ThreadTypes
<1> QED
    BY <1>1, <1>2, <1>3

\* A request takes effect: TakeEffect of Cache, with its parts named.
LEMMA Effect ==
    ASSUME HashInv, NEW t \in Threads, NEW q, Pending[t] = q, q # None,
           Pending' = [Pending EXCEPT ![t] = None],
           res' = [res EXCEPT ![t] = TheCache!Answer(q)],
           CacheNow' = IF TheCache!Writes(q) THEN [CacheNow EXCEPT ![q.key] = q.val] ELSE CacheNow
    PROVE  TheCache!TakeEffect(t)
BY DEF TheCache!TakeEffect

\* The element a thread has found is in the hash, with the key it looks for.
LEMMA FoundHashed ==
    ASSUME HashInv, ProbingInv, CacheInv, NEW t \in Threads, th[t].pc = "found"
    PROVE  th[t].x \in Hashed /\ key[th[t].x] = th[t].key
<1>1. PICK r \in ThreadState : r = th[t] /\ ThreadInv(r, key) /\ CacheAt(r, key)
    BY Mine DEF CacheInv
<1>2. PICK n \in Nat : n = Len(r.locks) /\ n \in 1 .. Len(r.locks)
    BY <1>1 DEF ThreadInv, LocksAt, ThreadState
<1>3. r.x = r.locks[n] /\ r.x \in Elements /\ r.x # FREE /\ key[r.x] = r.key
    BY <1>1, <1>2, MarkAssumption DEF CacheAt
<1>4. ~IsHoleAt(r, n)
    BY <1>1 DEF IsHoleAt
<1>5. Nth(r, n) \in Slots /\ Entries[Nth(r, n)] = r.x
    BY <1>1, <1>2, <1>3, <1>4, RunSlots, SlotContents DEF SlotFacts
<1> QED
    BY <1>1, <1>3, <1>5, HashedLemma

\* What another thread knows about its key stays true.
LEMMA OthersCache ==
    ASSUME HashInv, ProbingInv, CacheInv, NEW keys, \A e \in Hashed : keys[e] = key[e],
           NEW u \in Threads
    PROVE  CacheAt(th[u], keys)
<1>1. PICK r \in ThreadState : r = th[u] /\ ThreadInv(r, key) /\ CacheAt(r, key)
    BY Mine DEF CacheInv
<1>2. r.pc = "found" => r.x \in Hashed
    BY <1>1, FoundHashed
<1>3. CacheAt(r, keys)
    BY <1>1, <1>2 DEF CacheAt
<1> QED
    BY <1>1, <1>3

\* The invariant after a step of thread t to state r.
LEMMA CacheStep ==
    ASSUME HashInv, HashInv', ProbingInv, CacheInv, NEW t \in Threads, NEW r,
           th' = [th EXCEPT ![t] = r], CacheAt(r, key'), \A e \in Hashed : key'[e] = key[e],
           \A e \in Hashed' : val'[e] \in Values
    PROVE  CacheInv'
<1>1. ASSUME NEW u \in Threads PROVE CacheAt(th'[u], key')
  <2>1. CASE u = t
    <3>1. th'[u] = r
        BY <2>1, MyState
    <3> QED
        BY <3>1
  <2>2. CASE u # t
    <3>1. th'[u] = th[u]
        BY <2>2, MyState
    <3>2. CacheAt(th[u], key')
        BY OthersCache
    <3> QED
        BY <3>1, <3>2
  <2> QED
      BY <2>1, <2>2
<1> QED
    BY <1>1 DEF CacheInv

\* The map stays the same when the hash and its elements do.
LEMMA SameCache ==
    ASSUME ProbingInv, ProbingInv', Hashed' = Hashed, UNCHANGED <<key, val>>
    PROVE  CacheNow' = CacheNow
<1>1. Maps(CacheNow, Hashed, key, val)
    BY CacheMaps DEF CacheIsMap
<1>2. Maps(CacheNow', Hashed, key, val)
    BY CacheMapsNext
<1> QED
    BY <1>1, <1>2, SameMap

\* A step that changes neither the hash nor what is asked for.
LEMMA SilentStep ==
    ASSUME HashInv, HashInv', ProbingInv, ProbingInv', CacheInv, NEW t \in Threads, NEW r,
           th' = [th EXCEPT ![t] = r], Hashed' = Hashed, UNCHANGED <<key, val, res>>,
           RequestOf(r) = RequestOf(th[t]), CacheAt(r, key)
    PROVE  CacheInv' /\ UNCHANGED TheCache!vars
<1>1. CacheInv'
    BY CacheStep DEF CacheInv
<1>2. Pending' = Pending
  <2>1. Pending' = [Pending EXCEPT ![t] = RequestOf(r)] /\ Pending[t] = RequestOf(th[t])
      BY PendingStep
  <2>2. Pending = [u \in Threads |-> Pending[u]]
      BY DEF Pending
  <2> QED
      BY <2>1, <2>2
<1>3. CacheNow' = CacheNow
    BY SameCache
<1> QED
    BY <1>1, <1>2, <1>3 DEF TheCache!vars

-----------------------------------------------------------------------------
(* Steps before and after a request takes effect *)

\* Steps of a thread that has no request: they change no element.
Unasked(t) == \/ Unlock(t) \/ Visit(t) \/ Leave(t) \/ Shift(t) \/ ListStep(t)
              \/ CallProcess(t)

\* Such a step leads to no request.
LEMMA UnaskedState ==
    ASSUME HashInv, HashInv', ProbingInv, ProbingInv', NEW t \in Threads,
           Unasked(t) \/ Find(t)
    PROVE  /\ th[t].pc \notin Asking /\ UNCHANGED <<key, val, res>>
           /\ \E r : th' = [th EXCEPT ![t] = r] /\ r.pc \notin Asking
<1>1. PICK me \in ThreadState : me = th[t] /\ ThreadInv(me, key) /\ Regular(me)
    BY Mine DEF ProbingInv
<1>2. th[t].pc \notin Asking /\ UNCHANGED <<key, val, res>>
    BY DEF Unasked, Unlock, Visit, Leave, Shift, Find, ListStep, Unlink, Relink, PutBack, Link,
           Evict, CallProcess, At, Asking, lists
<1>3. Idle.pc \notin Asking
    BY GoIdle DEF Asking
<1>4. ASSUME NEW r, th' = [th EXCEPT ![t] = r] PROVE r.pc \notin {"findKey", "wildRead", "aborted"}
  <2>1. th'[t] = r
      BY <1>4, MyState
  <2> QED
      BY <2>1 DEF ProbingInv, Regular
<1>5. \A label : [me EXCEPT !.pc = label].pc = label
    BY DEF ThreadState
<1>6. CASE Unlock(t)
  <2>1. PICK rest : rest = [me EXCEPT !.start = (@ + 1) % HashSize, !.locks = Tail(@)]
      OBVIOUS
  <2>2. PICK r : r = IF Len(me.locks) > 1 THEN rest
                     ELSE IF me.next = "idle" THEN Idle ELSE [rest EXCEPT !.pc = me.next]
      OBVIOUS
  <2>3. th' = [th EXCEPT ![t] = r]
      BY <2>1, <2>2, <1>1, <1>6 DEF Unlock
  <2>4. me.pc = "unlock" /\ rest.pc = me.pc /\ [rest EXCEPT !.pc = me.next].pc = me.next
      BY <2>1, <1>1, <1>6 DEF Unlock, At, ThreadState
  <2>5. me.next \in {"idle", "putBack", "unlink", "link", "aborted"} /\ me.next # "aborted"
      BY <2>4, <1>1 DEF ThreadInv, OpAt, Regular, Goal
  <2>6. r.pc \notin Asking
      BY <2>2, <2>4, <2>5, <1>3 DEF Asking
  <2> QED
      BY <2>3, <2>6, <1>2
<1>7. CASE Visit(t)
  <2>1. PICK r : r = [me EXCEPT !.pc = "leave", !.locks = Locked(t)]
      OBVIOUS
  <2>2. th' = [th EXCEPT ![t] = r] /\ r.pc = "leave"
      BY <2>1, <1>1, <1>7 DEF Visit, ThreadState
  <2> QED
      BY <2>2, <1>2 DEF Asking
<1>8. CASE Leave(t)
  <2>1. PICK r : r = IF me.start = HashSize - 1 THEN Idle
                     ELSE [me EXCEPT !.pc = "visit", !.start = me.start + 1, !.locks = <<>>]
      OBVIOUS
  <2>2. th' = [th EXCEPT ![t] = r] /\ r.pc \in {"visit", "idle"}
      BY <2>1, <1>1, <1>8, GoIdle DEF Leave, ThreadState
  <2> QED
      BY <2>2, <1>2 DEF Asking
<1>9. CASE Unlink(t) \/ Relink(t)
  <2>1. FinishTouch(me).pc \in {"putBack", "idle"}
      BY GoIdle DEF FinishTouch, ThreadState
  <2>2. \E r : th' = [th EXCEPT ![t] = r]
               /\ r \in {FinishTouch(me), [me EXCEPT !.pc = "putBack", !.e = me.x],
                         [me EXCEPT !.pc = "relink"]}
      BY <1>1, <1>9 DEF Unlink, Relink
  <2>3. [me EXCEPT !.pc = "putBack", !.e = me.x].pc = "putBack"
      BY DEF ThreadState
  <2> QED
      BY <2>1, <2>2, <2>3, <1>2, <1>5 DEF Asking
<1>10. CASE PutBack(t) \/ Link(t)
  <2>1. \E r : th' = [th EXCEPT ![t] = r] /\ r \in {Idle, [me EXCEPT !.pc = "evict"]}
      BY <1>1, <1>10 DEF PutBack, Link
  <2> QED
      BY <2>1, <1>2, <1>3, <1>5 DEF Asking
<1>11. CASE Evict(t)
  <2>1. PICK r : r = [Idle EXCEPT !.pc = "find", !.op = th[t].op, !.e = Last(lru[t]),
                                  !.start = Home[key[Last(lru[t])]]]
      OBVIOUS
  <2>2. th' = [th EXCEPT ![t] = r] /\ r.pc = "find"
      BY <2>1, <1>11, GoIdle DEF Evict, ThreadState
  <2> QED
      BY <2>2, <1>2 DEF Asking
<1>12. CASE CallProcess(t)
  <2>1. PICK r : r = [Idle EXCEPT !.pc = "visit", !.op = "process"]
      OBVIOUS
  <2>2. th' = [th EXCEPT ![t] = r] /\ r.pc = "visit"
      BY <2>1, <1>12, GoIdle DEF CallProcess, ThreadState
  <2> QED
      BY <2>2, <1>2 DEF Asking
<1>13. CASE Shift(t) \/ Find(t)
  <2>1. \A locks, label : UnlockThen(t, locks, label).pc = "unlock"
      BY <1>1 DEF UnlockThen, ThreadState
  <2>2. PICK locks, c : locks = Locked(t) /\ c = Last(locks)
      OBVIOUS
  <2>3. \A label : Advance(locks, label) \in {"aborted", label}
      BY DEF Advance
  <2>4. \E r : th' = [th EXCEPT ![t] = r]
               /\ r.pc \in {"unlock", "aborted", "again", "shift", "find"}
    <3>1. CASE Shift(t)
      <4>1. PICK u, m, p : /\ u = UnlockThen(t, ClearHole(locks, me.del),
                                             IF me.op = "remove" THEN "unlink" ELSE "putBack")
                           /\ m = [me EXCEPT !.pc = AfterMove(me.op, locks), !.del = Len(locks),
                                             !.locks = [locks EXCEPT ![me.del] = c]]
                           /\ p = [me EXCEPT !.pc = Advance(locks, "shift"), !.locks = locks]
          OBVIOUS
      <4>2. /\ u.pc = "unlock" /\ p.pc = Advance(locks, "shift")
            /\ m.pc = AfterMove(me.op, locks)
          BY <4>1, <2>1 DEF ThreadState
      <4>3. m.pc \in {"again", "aborted", "shift"}
          BY <4>2, <2>3 DEF AfterMove
      <4>4. PICK r : r = IF c = FREE THEN u
                         ELSE IF MovesBack(key[c], SlotAt(t, me.del)) THEN m ELSE p
          OBVIOUS
      <4>5. th' = [th EXCEPT ![t] = r]
          BY <4>1, <4>4, <3>1, <2>2, <1>1 DEF Shift
      <4>6. r \in {u, m, p}
          BY <4>4
      <4> QED
          BY <4>2, <4>3, <4>5, <4>6, <2>3
    <3>2. CASE Find(t)
      <4>1. PICK u, m, p : /\ u = UnlockThen(t, locks, IF me.op = "insertOrSet" THEN "aborted"
                                                                               ELSE "putBack")
                           /\ m = [me EXCEPT !.pc = Advance(locks, "shift"), !.locks = locks,
                                             !.del = Len(locks)]
                           /\ p = [me EXCEPT !.pc = Advance(locks, "find"), !.locks = locks]
          OBVIOUS
      <4>2. /\ u.pc = "unlock" /\ p.pc = Advance(locks, "find")
            /\ m.pc = Advance(locks, "shift")
          BY <4>1, <2>1 DEF ThreadState
      <4>3. PICK r : r = IF c = FREE THEN u ELSE IF key[c] = key[me.e] THEN m ELSE p
          OBVIOUS
      <4>4. th' = [th EXCEPT ![t] = r]
          BY <4>1, <4>3, <3>2, <2>2, <1>1 DEF Find
      <4>5. r \in {u, m, p}
          BY <4>3
      <4> QED
          BY <4>2, <4>4, <4>5, <2>3
    <3> QED
        BY <3>1, <3>2, <1>13
  <2> QED
      BY <2>4, <1>2, <1>4 DEF Asking
<1> QED
    BY <1>6, <1>7, <1>8, <1>9, <1>10, <1>11, <1>12, <1>13 DEF Unasked, ListStep

\* It is silent.
LEMMA UnaskedCache ==
    ASSUME HashInv, PlaceInv, HashInv', NoClusterWraps, StepFits, ProbingInv, CacheInv,
           NEW t \in Threads, Unasked(t)
    PROVE  CacheInv' /\ UNCHANGED TheCache!vars
<1>1. ProbingInv' /\ Hashed' = Hashed
    BY UnlockProbing, VisitProbing, LeaveProbing, ShiftProbing, CallProcessProbing,
       UnlinkProbing, RelinkProbing, PutBackProbing, LinkProbing, EvictProbing
       DEF Unasked, ListStep
<1>2. PICK r : /\ th' = [th EXCEPT ![t] = r] /\ r.pc \notin Asking /\ th[t].pc \notin Asking
               /\ UNCHANGED <<key, val, res>>
    BY <1>1, UnaskedState
<1>3. RequestOf(r) = RequestOf(th[t])
    BY <1>2 DEF RequestOf
<1>4. CacheAt(r, key)
    BY <1>2 DEF CacheAt, Asking
<1> QED
    BY <1>1, <1>2, <1>3, <1>4, SilentStep

\* Looking for the evicted element takes it out of the hash, or not yet.
LEMMA FindCache ==
    ASSUME HashInv, PlaceInv, HashInv', NoClusterWraps, StepFits, ProbingInv, CacheInv,
           NEW t \in Threads, Find(t)
    PROVE  CacheInv' /\ (UNCHANGED TheCache!vars \/ TheCache!Evict)
<1>1. /\ ProbingInv'
      /\ \/ Hashed' = Hashed
         \/ th[t].e \in Hashed /\ Hashed' = Hashed \ {th[t].e}
    BY FindProbing
<1>2. PICK r : /\ th' = [th EXCEPT ![t] = r] /\ r.pc \notin Asking /\ th[t].pc \notin Asking
               /\ UNCHANGED <<key, val, res>>
    BY <1>1, UnaskedState
<1>3. RequestOf(r) = RequestOf(th[t])
    BY <1>2 DEF RequestOf
<1>4. CacheAt(r, key)
    BY <1>2 DEF CacheAt, Asking
<1>5. CASE Hashed' = Hashed
    BY <1>1, <1>2, <1>3, <1>4, <1>5, SilentStep
<1>6. CASE th[t].e \in Hashed /\ Hashed' = Hashed \ {th[t].e}
  <2>1. PICK e \in Hashed, k \in Keys, h \in {Hashed} : e = th[t].e /\ k = key[e] /\ h = Hashed
      BY <1>6, OneElement
  <2>2. CacheInv'
      BY <1>2, <1>4, <1>6, CacheStep DEF CacheInv
  <2>3. PICK c, c2 : c = CacheNow /\ c2 = CacheNow' /\ Maps(c, h, key, val)
                     /\ Maps(c2, h \ {e}, key, val)
    <3>1. Maps(CacheNow, Hashed, key, val)
        BY CacheMaps DEF CacheIsMap
    <3>2. Maps(CacheNow', Hashed', key', val')
        BY <1>1, CacheMapsNext
    <3> QED
        BY <3>1, <3>2, <1>2, <1>6, <2>1
  <2>4. c2 = [c EXCEPT ![k] = None]
    <3>1. \A d \in h : key[d] = k => d = e
        BY <2>1, OneElement
    <3> QED
        BY <3>1, <2>1, <2>3, EvictedMap
  <2>5. c[k] # None
    <3>1. c[k] = val[e]
        BY <2>1, <2>3 DEF Maps
    <3>2. val[e] \in Values
        BY <2>1 DEF CacheInv
    <3> QED
        BY <3>1, <3>2, MarkAssumption
  <2>6. Pending' = Pending
    <3>1. Pending' = [Pending EXCEPT ![t] = RequestOf(r)] /\ Pending[t] = RequestOf(th[t])
        BY <1>2, PendingStep
    <3>2. Pending = [u \in Threads |-> Pending[u]]
        BY DEF Pending
    <3> QED
        BY <3>1, <3>2, <1>3
  <2>7. c2 # c
    <3>1. k \in DOMAIN c
        BY <2>1, <2>3 DEF CacheNow
    <3> QED
        BY <3>1, <2>4, <2>5
  <2>8. TheCache!Evict
      BY <2>1, <2>3, <2>4, <2>6, <2>7, <1>2 DEF TheCache!Evict
  <2> QED
      BY <2>2, <2>8
<1> QED
    BY <1>1, <1>5, <1>6

\* A call of get, set, insert or insertOrSet.
LEMMA CallCache ==
    ASSUME HashInv, PlaceInv, HashInv', ProbingInv, CacheInv, NEW t \in Threads,
           NEW o \in Ops \ {"process"}, o # "remove", NEW k \in Keys,
           NEW v \in (IF o \in {"get", "remove"} THEN {None} ELSE Values), Call(t, o, k, v)
    PROVE  CacheInv' /\ TheCache!Call(t)
<1>1. ProbingInv' /\ Hashed' = Hashed
    BY CallProbing
<1>2. th[t] = Idle /\ Idle \in ThreadState /\ Idle.pc = "idle" /\ UNCHANGED <<key, val, res>>
    BY Mine, GoIdle DEF Call, At, ThreadInv, OpAt
<1>3. PICK r : r = [Idle EXCEPT !.pc = "probe", !.op = o, !.key = k, !.val = v,
                                !.start = Home[k],
                                !.e = IF o \in {"insert", "insertOrSet"} THEN Head(free[t])
                                                                        ELSE None]
    OBVIOUS
<1>4. th' = [th EXCEPT ![t] = r] /\ r.pc = "probe" /\ r.op = o /\ r.key = k /\ r.val = v
  <2>1. th' = [th EXCEPT ![t] = r]
      BY <1>3 DEF Call
  <2> QED
      BY <2>1, <1>2, <1>3 DEF ThreadState
<1>5. o \in {"get", "set", "insert", "insertOrSet"}
    BY ParameterAssumption DEF Operations
<1>6. CacheAt(r, key')
    BY <1>4, <1>5 DEF CacheAt
<1>7. CacheInv'
    BY <1>1, <1>2, <1>4, <1>6, CacheStep DEF CacheInv
<1>8. PICK q : q = [op |-> o, key |-> k, val |-> v]
    OBVIOUS
<1>9. q \in TheCache!Request
  <2>1. CASE o = "get"
      BY <2>1, <1>8 DEF TheCache!Request
  <2>2. CASE o # "get"
      BY <2>2, <1>5, <1>8 DEF TheCache!Request
  <2> QED
      BY <2>1, <2>2
<1>10. Pending[t] = None /\ Pending' = [Pending EXCEPT ![t] = q]
  <2>1. RequestOf(th[t]) = None
      BY <1>2 DEF RequestOf, Asking
  <2>2. RequestOf(r) = q
      BY <1>4, <1>8, MarkAssumption DEF RequestOf, Asking
  <2> QED
      BY <2>1, <2>2, <1>4, PendingStep
<1>11. CacheNow' = CacheNow
    BY <1>1, <1>2, SameCache
<1>12. q # None /\ Pending'[t] = q
  <2>1. q # None
      BY <1>5, <1>8, MarkAssumption DEF Operations
  <2> QED
      BY <2>1, <1>10 DEF Pending
<1>13. TheCache!Call(t)
    BY <1>2, <1>9, <1>10, <1>11, <1>12 DEF TheCache!Call
<1> QED
    BY <1>7, <1>13

\* A thread that probes, has found its key or fills a slot, and what it asks.
LEMMA Asked ==
    ASSUME HashInv, ProbingInv, CacheInv, NEW t \in Threads,
           th[t].pc \in {"probe", "found", "fill"}
    PROVE  \E me \in ThreadState, o \in {"get", "set", "insert", "insertOrSet"}, k \in Keys :
               /\ me = th[t] /\ me.op = o /\ me.key = k /\ CacheAt(me, key)
               /\ Pending[t] = [op |-> o, key |-> k, val |-> me.val] /\ Pending[t] # None
               /\ o = "get" => me.val = None
               /\ o # "get" => me.val \in Values
<1>1. PICK me \in ThreadState : me = th[t] /\ ThreadInv(me, key) /\ Regular(me) /\ CacheAt(me, key)
    BY Mine DEF ProbingInv, CacheInv
<1>2. /\ me.op \in {"get", "set", "insert", "insertOrSet"} /\ me.key \in Keys
      /\ me.val \in Values \cup {None}
    BY <1>1 DEF ThreadInv, OpAt, Regular, Goal, Inserts, ThreadState
<1>3. PICK o \in {"get", "set", "insert", "insertOrSet"}, k \in Keys, v \in Values \cup {None} :
          o = me.op /\ k = me.key /\ v = me.val
    BY <1>2
<1>4. PICK q : q = [op |-> o, key |-> k, val |-> v]
    OBVIOUS
<1>5. q # None
    BY <1>4, MarkAssumption DEF Operations
<1>6. Pending[t] = q
  <2>1. RequestOf(me) = q
      BY <1>1, <1>3, <1>4, MarkAssumption DEF RequestOf, Asking
  <2>2. Pending = [u \in Threads |-> RequestOf(th[u])]
      BY DEF Pending, RequestOf, Asking
  <2> QED
      BY <2>1, <2>2, <1>1
<1>7. (o = "get" => me.val = None) /\ (o # "get" => me.val \in Values)
    BY <1>1, <1>3 DEF CacheAt
<1> QED
    BY <1>1, <1>3, <1>4, <1>5, <1>6, <1>7

\* A key no element in the hash has is absent from the map.
LEMMA AbsentNow ==
    ASSUME ProbingInv, NEW k \in Keys, \A e \in Hashed : key[e] # k
    PROVE  CacheNow[k] = None
<1>1. Maps(CacheNow, Hashed, key, val)
    BY CacheMaps DEF CacheIsMap
<1> QED
    BY <1>1 DEF Maps

\* Probing: a get or set takes effect when it comes to a free slot.
LEMMA ProbeCache ==
    ASSUME HashInv, HashInv', NoClusterWraps, StepFits, ProbingInv, CacheInv,
           NEW t \in Threads, Probe(t)
    PROVE  CacheInv' /\ (UNCHANGED TheCache!vars \/ TheCache!TakeEffect(t))
<1>1. ProbingInv' /\ Hashed' = Hashed
    BY ProbeProbing
<1>2. th[t].pc = "probe" /\ LockNext(t) /\ UNCHANGED <<key, val>>
    BY DEF Probe, At
<1>a. PICK me \in ThreadState, o \in {"get", "set", "insert", "insertOrSet"}, k \in Keys :
          /\ me = th[t] /\ me.op = o /\ me.key = k /\ CacheAt(me, key)
          /\ Pending[t] = [op |-> o, key |-> k, val |-> me.val] /\ Pending[t] # None
          /\ o = "get" => me.val = None
          /\ o # "get" => me.val \in Values
    BY <1>2, Asked
<1>3. PICK q :
          /\ me = th[t] /\ me.op = o /\ me.key = k /\ CacheAt(me, key) /\ me.pc = "probe"
          /\ q = [op |-> o, key |-> k, val |-> me.val] /\ Pending[t] = q /\ q # None
          /\ o = "get" => me.val = None
          /\ o # "get" => me.val \in Values
    BY <1>a, <1>2
<1>4. PICK n \in Nat, locks \in Seq(Contents), c \in Contents :
          /\ locks = Locked(t) /\ Len(locks) = n /\ locks[n] = c /\ Last(locks) = c
    BY <1>2, LockedLemma
<1>5. ASSUME NEW r, th' = [th EXCEPT ![t] = r], UNCHANGED res,
             r.op = o, r.key = k, r.val = me.val, r.pc \in Asking, CacheAt(r, key)
      PROVE  CacheInv' /\ UNCHANGED TheCache!vars
  <2>1. RequestOf(r) = RequestOf(th[t])
      BY <1>3, <1>5 DEF RequestOf, Asking
  <2> QED
      BY <2>1, <1>1, <1>2, <1>5, SilentStep
<1>6. CASE c = FREE /\ o \in {"insert", "insertOrSet"}
  <2>1. PICK r : r = [me EXCEPT !.pc = "fill", !.locks = locks]
      OBVIOUS
  <2>2. th' = [th EXCEPT ![t] = r] /\ UNCHANGED res
      BY <2>1, <1>3, <1>4, <1>6 DEF Probe
  <2>3. r.pc = "fill" /\ r.op = o /\ r.key = k /\ r.val = me.val
      BY <2>1, <1>3 DEF ThreadState
  <2>4. CacheAt(r, key) /\ r.pc \in Asking
      BY <2>3, <1>3 DEF CacheAt, Asking
  <2> QED
      BY <2>2, <2>3, <2>4, <1>5
<1>7. CASE c = FREE /\ o \in {"get", "set"}
  <2>1. PICK r : r = UnlockThen(t, locks, "idle")
      OBVIOUS
  <2>2. th' = [th EXCEPT ![t] = r]
      BY <2>1, <1>3, <1>4, <1>7 DEF Probe
  <2>3. r.pc = "unlock"
      BY <2>1, <1>3 DEF UnlockThen, ThreadState
  <2>4. CacheAt(r, key') /\ RequestOf(r) = None
      BY <2>3 DEF CacheAt, RequestOf, Asking
  <2>5. CacheInv'
      BY <2>2, <2>4, <1>1, <1>2, CacheStep DEF CacheInv
  <2>6. Pending' = [Pending EXCEPT ![t] = None]
      BY <2>2, <2>4, PendingStep
  <2>7. CacheNow[k] = None
    <3>1. \A e \in Hashed : key[e] # th[t].key
        BY <1>2, <1>4, <1>7, ProbeAbsent
    <3> QED
        BY <3>1, <1>3, AbsentNow
  <2>8. CacheNow' = CacheNow
      BY <1>1, <1>2, SameCache
  <2>9. q.op = o /\ q.key = k
      BY <1>3
  <2>10. ~TheCache!Writes(q)
      BY <2>7, <2>9, <1>7 DEF TheCache!Writes
  <2>11. res' = [res EXCEPT ![t] = TheCache!Answer(q)]
    <3>1. CASE o = "get"
      <4>1. res' = [res EXCEPT ![t] = None]
          BY <3>1, <1>3, <1>4, <1>7 DEF Probe
      <4>2. TheCache!Answer(q) = None
          BY <3>1, <2>7, <2>9 DEF TheCache!Answer
      <4> QED
          BY <4>1, <4>2
    <3>2. CASE o = "set"
      <4>1. res' = [res EXCEPT ![t] = FALSE]
          BY <3>2, <1>3, <1>4, <1>7 DEF Probe
      <4>2. TheCache!Answer(q) = FALSE
          BY <3>2, <2>7, <2>9 DEF TheCache!Answer
      <4> QED
          BY <4>1, <4>2
    <3> QED
        BY <3>1, <3>2, <1>7
  <2>12. TheCache!TakeEffect(t)
      BY <2>6, <2>8, <2>10, <2>11, <1>3, Effect
  <2> QED
      BY <2>5, <2>12
<1>8. CASE c # FREE /\ key[c] = me.key
  <2>1. PICK r : r = [me EXCEPT !.pc = "found", !.locks = locks, !.x = c]
      OBVIOUS
  <2>2. th' = [th EXCEPT ![t] = r] /\ UNCHANGED res
      BY <2>1, <1>3, <1>4, <1>8 DEF Probe
  <2>3. /\ r.pc = "found" /\ r.op = o /\ r.key = k /\ r.val = me.val /\ r.x = c
        /\ r.locks = locks
      BY <2>1, <1>3 DEF ThreadState
  <2>4. c \in Elements /\ r.locks[Len(r.locks)] = c
      BY <2>3, <1>4, <1>8 DEF Contents
  <2>5. CacheAt(r, key) /\ r.pc \in Asking
      BY <2>3, <2>4, <1>3, <1>8 DEF CacheAt, Asking
  <2> QED
      BY <2>2, <2>3, <2>5, <1>5
<1>9. CASE c # FREE /\ key[c] # me.key
  <2>1. PICK r : r = [me EXCEPT !.pc = Advance(locks, "probe"), !.locks = locks]
      OBVIOUS
  <2>2. th' = [th EXCEPT ![t] = r] /\ UNCHANGED res
      BY <2>1, <1>3, <1>4, <1>9 DEF Probe
  <2>3. r.pc \in {"probe", "aborted"} /\ r.op = o /\ r.key = k /\ r.val = me.val
      BY <2>1, <1>3 DEF ThreadState, Advance
  <2>4. CacheAt(r, key) /\ r.pc \in Asking
      BY <2>3, <1>3 DEF CacheAt, Asking
  <2> QED
      BY <2>2, <2>3, <2>4, <1>5
<1> QED
    BY <1>3, <1>4, <1>6, <1>7, <1>8, <1>9

\* The key is there: every operation but insert takes effect on its element.
LEMMA FoundCache ==
    ASSUME HashInv, HashInv', ProbingInv, CacheInv, NEW t \in Threads, Found(t)
    PROVE  CacheInv' /\ TheCache!TakeEffect(t)
<1>1. ProbingInv' /\ Hashed' = Hashed
    BY FoundProbing
<1>2. th[t].pc = "found" /\ key' = key
    BY DEF Found, At
<1>a. PICK me \in ThreadState, o \in {"get", "set", "insert", "insertOrSet"}, k \in Keys :
          /\ me = th[t] /\ me.op = o /\ me.key = k /\ CacheAt(me, key)
          /\ Pending[t] = [op |-> o, key |-> k, val |-> me.val] /\ Pending[t] # None
          /\ o = "get" => me.val = None
          /\ o # "get" => me.val \in Values
    BY <1>2, Asked
<1>3. PICK q :
          /\ me = th[t] /\ me.op = o /\ me.key = k /\ CacheAt(me, key) /\ me.pc = "found"
          /\ q = [op |-> o, key |-> k, val |-> me.val] /\ Pending[t] = q /\ q # None
          /\ o = "get" => me.val = None
          /\ o # "get" => me.val \in Values
    BY <1>a, <1>2
<1>4. PICK x \in Elements, h \in {Hashed} :
          x = me.x /\ h = Hashed /\ h \subseteq Elements /\ x \in h /\ key[x] = k
  <2>1. th[t].x \in Hashed /\ key[th[t].x] = th[t].key
      BY <1>2, FoundHashed
  <2> QED
      BY <2>1, <1>3, HashedElements
<1> DEFINE writes == o \in {"set", "insertOrSet"}
<1>5. \A d \in h : val[d] \in Values
    BY <1>4 DEF CacheInv
<1>6. \A e \in Elements : val'[e] = IF writes /\ e = x THEN me.val ELSE val[e]
    BY <1>3, <1>4 DEF Found, HashInv, TableTypes
<1>7. PICK r : r = UnlockThen(t, me.locks, IF me.op = "insert" THEN "putBack" ELSE "unlink")
    OBVIOUS
<1>8. th' = [th EXCEPT ![t] = r] /\ r.pc = "unlock"
  <2>1. th' = [th EXCEPT ![t] = r]
      BY <1>3, <1>7 DEF Found
  <2> QED
      BY <2>1, <1>3, <1>7 DEF UnlockThen, ThreadState
<1>9. CacheAt(r, key') /\ RequestOf(r) = None
    BY <1>8 DEF CacheAt, RequestOf, Asking
<1>10. CacheInv'
  <2>1. \A e \in h : val'[e] \in Values
      BY <1>3, <1>4, <1>5, <1>6
  <2> QED
      BY <2>1, <1>1, <1>2, <1>4, <1>8, <1>9, CacheStep
<1>11. Pending' = [Pending EXCEPT ![t] = None]
    BY <1>8, <1>9, PendingStep
<1>12. PICK c, c2, vals2 : /\ c = CacheNow /\ c2 = CacheNow' /\ vals2 = val'
                           /\ Maps(c, h, key, val) /\ Maps(c2, h, key, vals2)
  <2>1. Maps(CacheNow, Hashed, key, val)
      BY CacheMaps DEF CacheIsMap
  <2>2. Maps(CacheNow', Hashed', key', val')
      BY <1>1, CacheMapsNext
  <2> QED
      BY <2>1, <2>2, <1>1, <1>2, <1>4
<1>13. c[k] = val[x] /\ c[k] # None
  <2>1. c[k] = val[x]
      BY <1>4, <1>12 DEF Maps
  <2> QED
      BY <2>1, <1>4, <1>5, MarkAssumption
<1>14. q.op = o /\ q.key = k /\ q.val = me.val
    BY <1>3
<1>15. TheCache!Writes(q) <=> writes
    BY <1>12, <1>13, <1>14 DEF TheCache!Writes
<1>16. c2 = IF writes THEN [c EXCEPT ![k] = me.val] ELSE c
  <2>1. CASE writes
    <3>1. \A d \in h : d # x => vals2[d] = val[d]
        BY <1>4, <1>6, <1>12
    <3>2. c2 = [c EXCEPT ![k] = vals2[x]]
        BY <3>1, <1>4, <1>12, WrittenMap
    <3>3. vals2[x] = me.val
        BY <2>1, <1>6, <1>12
    <3> QED
        BY <2>1, <3>2, <3>3
  <2>2. CASE ~writes
    <3>1. \A d \in h : vals2[d] = val[d]
        BY <2>2, <1>4, <1>6, <1>12
    <3> QED
        BY <2>2, <3>1, <1>12, SameMap
  <2> QED
      BY <2>1, <2>2
<1>17. res' = [res EXCEPT ![t] = TheCache!Answer(q)]
  <2>1. CASE o = "get"
    <3>1. res' = [res EXCEPT ![t] = val[x]]
        BY <2>1, <1>3, <1>4 DEF Found
    <3>2. TheCache!Answer(q) = val[x]
        BY <2>1, <1>12, <1>13, <1>14 DEF TheCache!Answer
    <3> QED
        BY <3>1, <3>2
  <2>2. CASE o = "set"
    <3>1. res' = [res EXCEPT ![t] = TRUE]
        BY <2>2, <1>3 DEF Found
    <3>2. TheCache!Answer(q) = TRUE
        BY <2>2, <1>12, <1>13, <1>14 DEF TheCache!Answer
    <3> QED
        BY <3>1, <3>2
  <2>3. CASE o \in {"insert", "insertOrSet"}
    <3>1. res' = [res EXCEPT ![t] = FALSE]
        BY <2>3, <1>3 DEF Found
    <3>2. TheCache!Answer(q) = FALSE
        BY <2>3, <1>12, <1>13, <1>14 DEF TheCache!Answer
    <3> QED
        BY <3>1, <3>2
  <2> QED
      BY <2>1, <2>2, <2>3
<1>18. TheCache!TakeEffect(t)
  <2>1. CacheNow' = IF TheCache!Writes(q) THEN [CacheNow EXCEPT ![q.key] = q.val] ELSE CacheNow
      BY <1>12, <1>14, <1>15, <1>16
  <2> QED
      BY <2>1, <1>3, <1>11, <1>17, Effect
<1> QED
    BY <1>10, <1>18

\* The key is not there: insert and insertOrSet add it.
LEMMA FillCache ==
    ASSUME HashInv, PlaceInv, HashInv', StepFits, ProbingInv, CacheInv, NEW t \in Threads, Fill(t)
    PROVE  CacheInv' /\ TheCache!TakeEffect(t)
<1>1. ProbingInv' /\ Hashed' = Hashed \cup {th[t].e} /\ th[t].e \notin Hashed
    BY FillProbing
<1>2. th[t].pc = "fill"
    BY DEF Fill, At
<1>a. PICK me \in ThreadState, o \in {"get", "set", "insert", "insertOrSet"}, k \in Keys :
          /\ me = th[t] /\ me.op = o /\ me.key = k /\ CacheAt(me, key)
          /\ Pending[t] = [op |-> o, key |-> k, val |-> me.val] /\ Pending[t] # None
          /\ o = "get" => me.val = None
          /\ o # "get" => me.val \in Values
    BY <1>2, Asked
<1>3. PICK q :
          /\ me = th[t] /\ me.op = o /\ me.key = k /\ CacheAt(me, key) /\ me.pc = "fill"
          /\ q = [op |-> o, key |-> k, val |-> me.val] /\ Pending[t] = q /\ q # None
          /\ o = "get" => me.val = None
          /\ o # "get" => me.val \in Values
    BY <1>a, <1>2
<1>4. o \in {"insert", "insertOrSet"} /\ me.e \in Elements
  <2>1. ThreadInv(me, key)
      BY <1>3 DEF HashInv
  <2> QED
      BY <2>1, <1>3 DEF ThreadInv, OpAt, ElementAt, Goal, Inserts, ThreadState
<1>5. PICK e \in Elements, v \in Values : e = me.e /\ v = me.val
    BY <1>3, <1>4
<1>6. PICK h : h = Hashed /\ h \subseteq Elements /\ e \notin h /\ Hashed' = h \cup {e}
    BY <1>1, <1>3, <1>5, HashedElements
<1>7. \A d \in Elements : /\ key'[d] = IF d = e THEN k ELSE key[d]
                          /\ val'[d] = IF d = e THEN v ELSE val[d]
    BY <1>3, <1>5, <1>6 DEF Fill, HashInv, TableTypes
<1>8. PICK r : r = UnlockThen(t, Append(Front(me.locks), me.e), "link")
    OBVIOUS
<1>9. th' = [th EXCEPT ![t] = r] /\ r.pc = "unlock"
  <2>1. th' = [th EXCEPT ![t] = r]
      BY <1>3, <1>8 DEF Fill
  <2> QED
      BY <2>1, <1>3, <1>8 DEF UnlockThen, ThreadState
<1>10. CacheAt(r, key') /\ RequestOf(r) = None
    BY <1>9 DEF CacheAt, RequestOf, Asking
<1>11. CacheInv'
  <2>1. \A d \in h : val[d] \in Values
      BY <1>5, <1>6 DEF CacheInv
  <2>2. \A d \in h : key'[d] = key[d]
      BY <1>5, <1>6, <1>7
  <2>3. \A d \in h \cup {e} : val'[d] \in Values
      BY <2>1, <1>5, <1>6, <1>7
  <2> QED
      BY <2>2, <2>3, <1>5, <1>6, <1>9, <1>10, CacheStep
<1>12. Pending' = [Pending EXCEPT ![t] = None]
    BY <1>9, <1>10, PendingStep
<1>13. PICK c, c2, h2, keys2, vals2 :
          /\ c = CacheNow /\ c2 = CacheNow' /\ keys2 = key' /\ vals2 = val' /\ h2 = h \cup {e}
          /\ Maps(c, h, key, val) /\ Maps(c2, h2, keys2, vals2)
  <2>1. Maps(CacheNow, Hashed, key, val)
      BY CacheMaps DEF CacheIsMap
  <2>2. Maps(CacheNow', Hashed', key', val')
      BY <1>1, CacheMapsNext
  <2> QED
      BY <2>1, <2>2, <1>5, <1>6
<1>14. c[k] = None
  <2>1. \A d \in Hashed : key[d] # th[t].key
      BY <1>2, FillAbsent
  <2> QED
      BY <2>1, <1>3, <1>13, AbsentNow
<1>15. q.op = o /\ q.key = k /\ q.val = v
    BY <1>3, <1>5, <1>6
<1>16. TheCache!Writes(q)
    BY <1>4, <1>13, <1>14, <1>15 DEF TheCache!Writes
<1>17. c2 = [c EXCEPT ![k] = v]
  <2>1. e \in h2 /\ keys2[e] = k /\ e \notin h /\ \A d : d # e => (d \in h2 <=> d \in h)
      BY <1>5, <1>6, <1>7, <1>13
  <2>2. \A d \in h : d # e => keys2[d] = key[d] /\ vals2[d] = val[d]
      BY <1>5, <1>6, <1>7, <1>13
  <2>3. c2 = [c EXCEPT ![k] = vals2[e]]
      BY <2>1, <2>2, <1>13, WrittenMap
  <2>4. vals2[e] = v
      BY <1>7, <1>13
  <2> QED
      BY <2>3, <2>4
<1>18. res' = [res EXCEPT ![t] = TheCache!Answer(q)]
  <2>1. res' = [res EXCEPT ![t] = TRUE]
      BY DEF Fill
  <2>2. TheCache!Answer(q) = TRUE
      BY <1>4, <1>13, <1>14, <1>15 DEF TheCache!Answer
  <2> QED
      BY <2>1, <2>2
<1>19. TheCache!TakeEffect(t)
  <2>1. CacheNow' = IF TheCache!Writes(q) THEN [CacheNow EXCEPT ![q.key] = q.val] ELSE CacheNow
      BY <1>13, <1>15, <1>16, <1>17
  <2> QED
      BY <2>1, <1>3, <1>12, <1>18, Effect
<1> QED
    BY <1>11, <1>19

-----------------------------------------------------------------------------
(* All steps *)

\* At the start the loaded elements are in the hash and nothing is asked for.
LEMMA CacheInit == Init => CacheInv /\ TheCache!Init
<1> SUFFICES ASSUME Init PROVE CacheInv /\ TheCache!Init
    OBVIOUS
<1>1. ProbingInv
    BY ProbingInit
<1>2. ASSUME NEW e \in Hashed PROVE val[e] \in Values
  <2>1. e \in Elements /\ key[e] \in Keys /\ key[e] # None
      BY <1>1, OneElement, MarkAssumption
  <2>2. val[e] = LoadedValue
      BY <2>1 DEF Init
  <2> QED
      BY <2>2, ParameterAssumption
<1>3. \A t \in Threads : th[t] = Idle
    BY DEF Init
<1>4. CacheInv
  <2>1. \A t \in Threads : CacheAt(th[t], key)
      BY <1>3, GoIdle DEF CacheAt
  <2> QED
      BY <2>1, <1>2 DEF CacheInv
<1>5. CacheNow \in [Keys -> Values \cup {None}]
  <2>1. Maps(CacheNow, Hashed, key, val)
      BY <1>1, CacheMaps DEF CacheIsMap
  <2>2. ASSUME NEW k \in Keys PROVE CacheNow[k] \in Values \cup {None}
    <3>1. CASE \E e \in Hashed : key[e] = k
        BY <3>1, <2>1, <1>2 DEF Maps
    <3>2. CASE \A e \in Hashed : key[e] # k
        BY <3>2, <2>1 DEF Maps
    <3> QED
        BY <3>1, <3>2
  <2>3. CacheNow = [k \in Keys |-> CacheNow[k]]
      BY <2>1 DEF Maps
  <2> QED
      BY <2>2, <2>3
<1>6. Pending = [t \in Threads |-> None]
  <2>1. Pending = [t \in Threads |-> RequestOf(th[t])]
      BY DEF Pending, RequestOf, Asking
  <2>2. RequestOf(Idle) = None
      BY GoIdle DEF RequestOf, Asking
  <2> QED
      BY <2>1, <2>2, <1>3
<1>7. res = [t \in Threads |-> None]
    BY DEF Init
<1> QED
    BY <1>4, <1>5, <1>6, <1>7 DEF TheCache!Init

\* Every step of the table is a step of the cache or silent.
LEMMA CacheNext ==
    ASSUME "remove" \notin Ops, HashInv, HashInv', PlaceInv, ProbingInv, CacheInv,
           NoClusterWraps, StepFits, [Next]_vars
    PROVE  CacheInv' /\ [TheCache!Next]_(TheCache!vars)
<1>1. ASSUME NEW t \in Threads, HashStep(t) \/ ListStep(t) \/ CallProcess(t)
      PROVE  CacheInv' /\ [TheCache!Next]_(TheCache!vars)
  <2>1. ~FindKey(t) /\ ~Again(t)
      BY DEF ProbingInv, Regular, FindKey, Again, At
  <2>2. CASE Unasked(t)
      BY <2>2, UnaskedCache
  <2>3. CASE Find(t)
    <3>1. CacheInv' /\ (UNCHANGED TheCache!vars \/ TheCache!Evict)
        BY <2>3, FindCache
    <3> QED
        BY <3>1 DEF TheCache!Next
  <2>4. CASE Probe(t) \/ Found(t) \/ Fill(t)
    <3>1. CacheInv' /\ (UNCHANGED TheCache!vars \/ TheCache!TakeEffect(t))
        BY <2>4, ProbeCache, FoundCache, FillCache
    <3> QED
        BY <3>1 DEF TheCache!Next
  <2> QED
      BY <2>1, <2>2, <2>3, <2>4, <1>1 DEF HashStep, Unasked
<1>2. ASSUME NEW t \in Threads, NEW o \in Ops \ {"process"}, NEW k \in Keys,
             NEW v \in (IF o \in {"get", "remove"} THEN {None} ELSE Values), Call(t, o, k, v)
      PROVE  CacheInv' /\ [TheCache!Next]_(TheCache!vars)
  <2>1. o # "remove"
      OBVIOUS
  <2>2. CacheInv' /\ TheCache!Call(t)
      BY <2>1, <1>2, CallCache
  <2> QED
      BY <2>2 DEF TheCache!Next
<1>3. CASE UNCHANGED vars
  <2>1. UNCHANGED <<slot, key, val, th, res>>
      BY <1>3 DEF vars
  <2>2. Hashed' = Hashed
      BY <2>1 DEF Hashed, Raw, Entry, IsHole, Holds, SlotAt
  <2>3. CacheInv'
      BY <2>1, <2>2 DEF CacheInv
  <2>4. CacheNow' = CacheNow /\ Pending' = Pending
      BY <2>1, <2>2 DEF CacheNow, Pending
  <2> QED
      BY <2>1, <2>3, <2>4 DEF TheCache!vars
<1> QED
    BY <1>1, <1>2, <1>3 DEF Next, Step, Stopped

\* The hash table is a linearizable cache, as long as no cluster goes around the
\* end of the array and the locks fit their array: every get, set, insert and
\* insertOrSet of any number of threads takes effect at one instant between its
\* call and its return, and entries disappear only by eviction.
THEOREM HashIsCache == "remove" \notin Ops => (Spec /\ []Fits => ImplementsCache)
<1> SUFFICES ASSUME "remove" \notin Ops PROVE Spec /\ []Fits => ImplementsCache
    OBVIOUS
<1>1. /\ HashInv /\ HashInv' /\ PlaceInv /\ ProbingInv /\ Fits /\ Fits' /\ CacheInv /\ [Next]_vars
      => CacheInv' /\ [TheCache!Next]_(TheCache!vars)
    BY CacheNext DEF Fits, StepFits
<1> QED
    BY <1>1, CacheInit, ProbingInductive, HashInductive, PlaceInductive, PTL
       DEF Spec, ImplementsCache, TheCache!Spec
=============================================================================
