----------------------- MODULE HashTableProbingProofs -----------------------
(***************************************************************************)
(* Probing in the hash table is right, for every number of threads, slots, *)
(* elements and keys, as long as no cluster goes around the end of the     *)
(* array, no probe is longer than the array of locks and nobody removes    *)
(* keys.  The first two are conditions on the load of the table.           *)
(***************************************************************************)
EXTENDS HashTableElementsProofs

\* No cluster goes around the end of elementLinks.
NoClusterWraps == Raw(0) = FREE \/ Raw(HashSize - 1) = FREE
\* No thread has locked more slots than its array has room for.
LocksFit == \A t \in Threads : Len(th[t].locks) <= MaxLockDepth
Fits == NoClusterWraps /\ LocksFit

\* The steps that lock another slot lead to a state that fits.
Growing == {"probe", "find", "shift"}
StepFits == NoClusterWraps' /\ LocksFit'

-----------------------------------------------------------------------------
(* The inductive invariant *)

RawSlots == [s \in Slots |-> Raw(s)]
Entries == [s \in Slots |-> Entry(s)]

\* raw and entry are the contents of the slots without and with the holes of
\* removals in progress, keys are the keys of the elements.  An entry is at or
\* after its home slot, without a free slot in between; no two have one key.
Probing(raw, entry, keys) ==
    /\ \A s \in Slots : entry[s] # FREE =>
          /\ entry[s] \in Elements /\ raw[s] = entry[s] /\ keys[entry[s]] \in Keys
          /\ Home[keys[entry[s]]] <= s
          /\ \A d \in Home[keys[entry[s]]] .. s : raw[d] # FREE
    /\ \A r, s \in Slots : entry[r] # FREE /\ entry[s] # FREE /\ r # s
                           => keys[entry[r]] # keys[entry[s]]

\* A thread that looks for key k has passed n entries with other keys.
Passed(r, n, k, keys) == \A i \in 1 .. n : r.locks[i] # FREE /\ keys[r.locks[i]] # k

\* What a thread knows about the slots it has locked.
RunInv(r, keys) ==
    /\ r.pc \in {"probe", "fill"} => r.start = Home[r.key]
    /\ r.pc = "probe" => /\ r.start + Len(r.locks) <= HashSize
                         /\ Passed(r, Len(r.locks), r.key, keys)
    /\ r.pc = "fill" => /\ r.start + Len(r.locks) - 1 <= HashSize
                        /\ Passed(r, Len(r.locks) - 1, r.key, keys)
                        /\ r.locks[Len(r.locks)] = FREE
    /\ r.pc = "find" => /\ r.start = Home[keys[r.e]] /\ r.start + Len(r.locks) <= HashSize
                        /\ Passed(r, Len(r.locks), keys[r.e], keys)
    /\ r.pc = "shift" =>
          /\ \E k \in Keys : r.start = Home[k]
          /\ r.start + Len(r.locks) <= HashSize
          /\ \A i \in 1 .. Len(r.locks) : r.locks[i] # FREE
          /\ \A i \in r.del + 1 .. Len(r.locks) :
                Home[keys[r.locks[i]]] > r.start + r.del - 1

\* Neither a removal nor an abort.
Regular(r) == /\ r.pc \notin {"findKey", "again", "wildRead", "aborted"}
              /\ Goal(r) # "aborted" /\ r.op # "remove"

\* The element in a thread's hands is in the hash between fill and find.  At
\* evict it is in an LRU list already, and another thread may have evicted it.
HandInv(r, hashed) ==
    /\ Goal(r) \in {"link", "find"} => r.e \in hashed
    /\ Goal(r) \notin {"link", "evict", "find"} => r.e \notin hashed
    /\ r.pc = "relink" => r.x \in hashed

\* Listed elements are in the hash, free ones are not.
UseInv == \A t \in Threads : /\ Elems(lru[t]) \subseteq Hashed
                             /\ Elems(free[t]) \cap Hashed = {}

ProbingInv ==
    /\ Probing(RawSlots, Entries, key)
    /\ UseInv
    /\ \A t \in Threads : /\ Regular(th[t]) /\ RunInv(th[t], key)
                          /\ HandInv(th[t], Hashed)
-----------------------------------------------------------------------------
(* The four changes of the contents *)

\* A key that no entry has is put into the first free slot from its home on.
LEMMA FillCore ==
    ASSUME NEW raw, NEW entry, NEW keys, Probing(raw, entry, keys),
           NEW raw2, NEW entry2, NEW keys2,
           NEW z \in Slots, NEW e \in Elements, NEW k \in Keys, raw[z] = FREE,
           \A s \in Slots : entry[s] # e,
           Home[k] <= z, \A d \in Home[k] .. z - 1 : raw[d] # FREE /\ keys[raw[d]] # k,
           \A s \in Slots : raw2[s] = IF s = z THEN e ELSE raw[s],
           \A s \in Slots : entry2[s] = IF s = z THEN e ELSE entry[s],
           \A x \in Elements : keys2[x] = IF x = e THEN k ELSE keys[x]
    PROVE  Probing(raw2, entry2, keys2)
<1>1. Home[k] \in Slots /\ e # FREE
    BY ParameterAssumption, MarkAssumption
<1>2. entry[z] = FREE
    BY DEF Probing
<1>3. ASSUME NEW s \in Slots, s # z, entry2[s] # FREE
      PROVE  /\ entry2[s] = entry[s] /\ entry[s] # FREE /\ entry[s] \in Elements
             /\ raw2[s] = entry[s] /\ keys2[entry[s]] = keys[entry[s]]
             /\ keys[entry[s]] \in Keys /\ keys[entry[s]] # k
             /\ Home[keys[entry[s]]] \in Slots /\ Home[keys[entry[s]]] <= s
             /\ \A d \in Home[keys[entry[s]]] .. s : raw[d] # FREE
  <2>1. /\ entry2[s] = entry[s] /\ entry[s] # FREE /\ entry[s] \in Elements
        /\ raw2[s] = entry[s] /\ raw[s] = entry[s] /\ keys[entry[s]] \in Keys
        /\ Home[keys[entry[s]]] <= s
        /\ \A d \in Home[keys[entry[s]]] .. s : raw[d] # FREE
      BY <1>3 DEF Probing
  <2>2. Home[keys[entry[s]]] \in Slots
      BY <2>1, ParameterAssumption
  <2>3. keys2[entry[s]] = keys[entry[s]]
      BY <2>1
  <2>4. ASSUME keys[entry[s]] = k PROVE FALSE
    <3>1. z \notin Home[k] .. s
        BY <2>1, <2>4
    <3>2. s \in Home[k] .. z - 1
        BY <3>1, <2>1, <2>4, <1>1, <1>3 DEF Slots
    <3> QED
        BY <3>2, <2>1, <2>4
  <2> QED
      BY <2>1, <2>2, <2>3, <2>4
<1>4. ASSUME NEW s \in Slots, entry2[s] # FREE
      PROVE  /\ entry2[s] \in Elements /\ raw2[s] = entry2[s] /\ keys2[entry2[s]] \in Keys
             /\ Home[keys2[entry2[s]]] <= s
             /\ \A d \in Home[keys2[entry2[s]]] .. s : raw2[d] # FREE
  <2>1. CASE s = z
    <3>1. entry2[s] = e /\ raw2[s] = e /\ keys2[e] = k
        BY <2>1
    <3>2. \A d \in Home[k] .. s : d \in Slots /\ (d = z \/ d \in Home[k] .. z - 1)
        BY <2>1, <1>1, SizePositive DEF Slots
    <3>3. \A d \in Home[k] .. s : raw2[d] # FREE
        BY <3>2, <1>1
    <3> QED
        BY <3>1, <3>3, <2>1
  <2>2. CASE s # z
    <3>1. \A d \in Home[keys[entry[s]]] .. s : d \in Slots /\ raw[d] # FREE
        BY <2>2, <1>3, <1>4, SizePositive DEF Slots
    <3>2. \A d \in Home[keys[entry[s]]] .. s : raw2[d] # FREE
        BY <3>1, <1>1
    <3> QED
        BY <3>2, <2>2, <1>3, <1>4
  <2> QED
      BY <2>1, <2>2
<1>5. ASSUME NEW r \in Slots, NEW s \in Slots, entry2[r] # FREE, entry2[s] # FREE, r # s
      PROVE  keys2[entry2[r]] # keys2[entry2[s]]
  <2>1. CASE r = z
      BY <2>1, <1>3, <1>5
  <2>2. CASE s = z
      BY <2>2, <1>3, <1>5
  <2>3. CASE r # z /\ s # z
      BY <2>3, <1>3, <1>5 DEF Probing
  <2> QED
      BY <2>1, <2>2, <2>3
<1> QED
    BY <1>4, <1>5 DEF Probing

\* An entry becomes a hole.
LEMMA HoleCore ==
    ASSUME NEW raw, NEW entry, NEW keys, Probing(raw, entry, keys),
           NEW entry2, NEW h \in Slots,
           \A s \in Slots : entry2[s] = IF s = h THEN FREE ELSE entry[s]
    PROVE  Probing(raw, entry2, keys)
<1>1. \A s \in Slots : entry2[s] # FREE => entry2[s] = entry[s]
    OBVIOUS
<1> QED
    BY <1>1 DEF Probing

\* An entry moves back into a hole and leaves a new one.
LEMMA MoveCore ==
    ASSUME NEW raw, NEW entry, NEW keys, Probing(raw, entry, keys), NEW raw2, NEW entry2,
           NEW h \in Slots, NEW z \in Slots, h < z, entry[h] = FREE, raw[h] # FREE,
           entry[z] # FREE, Home[keys[entry[z]]] <= h,
           \A s \in Slots : raw2[s] = IF s = h THEN entry[z] ELSE raw[s],
           \A s \in Slots : entry2[s] = IF s = h THEN entry[z]
                                        ELSE IF s = z THEN FREE ELSE entry[s]
    PROVE  Probing(raw2, entry2, keys)
<1>1. \A s \in Slots : raw2[s] = FREE <=> raw[s] = FREE
    OBVIOUS
<1>2. /\ entry[z] \in Elements /\ keys[entry[z]] \in Keys /\ Home[keys[entry[z]]] \in Slots
      /\ \A d \in Home[keys[entry[z]]] .. z : raw[d] # FREE
    BY ParameterAssumption DEF Probing
<1>3. ASSUME NEW s \in Slots, entry2[s] # FREE
      PROVE  /\ entry2[s] \in Elements /\ raw2[s] = entry2[s] /\ keys[entry2[s]] \in Keys
             /\ Home[keys[entry2[s]]] <= s
             /\ \A d \in Home[keys[entry2[s]]] .. s : raw2[d] # FREE
  <2>1. CASE s = h
    <3>1. \A d \in Home[keys[entry[z]]] .. h : d \in Slots /\ raw[d] # FREE
        BY <1>2, SizePositive DEF Slots
    <3> QED
        BY <3>1, <2>1, <1>1, <1>2
  <2>2. CASE s # h
    <3>1. s # z /\ entry2[s] = entry[s] /\ raw2[s] = raw[s]
        BY <2>2, <1>3
    <3>2. /\ entry[s] \in Elements /\ raw[s] = entry[s] /\ keys[entry[s]] \in Keys
          /\ Home[keys[entry[s]]] <= s
          /\ \A d \in Home[keys[entry[s]]] .. s : raw[d] # FREE
        BY <3>1, <1>3 DEF Probing
    <3>3. Home[keys[entry[s]]] \in Slots
        BY <3>2, ParameterAssumption
    <3>4. \A d \in Home[keys[entry[s]]] .. s : d \in Slots
        BY <3>3, SizePositive DEF Slots
    <3> QED
        BY <3>1, <3>2, <3>4, <1>1
  <2> QED
      BY <2>1, <2>2
<1>4. ASSUME NEW r \in Slots, NEW s \in Slots, entry2[r] # FREE, entry2[s] # FREE, r # s
      PROVE  keys[entry2[r]] # keys[entry2[s]]
  <2>1. \A x \in Slots, y \in Slots : entry[x] # FREE /\ entry[y] # FREE /\ x # y
                                      => keys[entry[x]] # keys[entry[y]]
      BY DEF Probing
  <2>2. CASE r = h
    <3>1. entry2[r] = entry[z] /\ s # h /\ s # z /\ entry2[s] = entry[s]
        BY <2>2, <1>4
    <3> QED
        BY <3>1, <2>1, <1>4
  <2>3. CASE s = h
    <3>1. entry2[s] = entry[z] /\ r # h /\ r # z /\ entry2[r] = entry[r]
        BY <2>3, <1>4
    <3> QED
        BY <3>1, <2>1, <1>4
  <2>4. CASE r # h /\ s # h
    <3>1. entry2[s] = entry[s] /\ entry2[r] = entry[r]
        BY <2>4, <1>4
    <3> QED
        BY <3>1, <2>1, <1>4
  <2> QED
      BY <2>2, <2>3, <2>4
<1> QED
    BY <1>3, <1>4 DEF Probing

\* The last hole becomes a free slot.
LEMMA CloseCore ==
    ASSUME NEW raw, NEW entry, NEW keys, Probing(raw, entry, keys), NEW raw2,
           NEW h \in Slots, entry[h] = FREE,
           \A s \in Slots : entry[s] # FREE /\ s > h => Home[keys[entry[s]]] > h,
           \A s \in Slots : raw2[s] = IF s = h THEN FREE ELSE raw[s]
    PROVE  Probing(raw2, entry, keys)
<1>1. ASSUME NEW s \in Slots, entry[s] # FREE
      PROVE  raw2[s] = entry[s] /\ \A d \in Home[keys[entry[s]]] .. s : raw2[d] # FREE
  <2>1. /\ keys[entry[s]] \in Keys /\ raw[s] = entry[s] /\ s # h
        /\ \A d \in Home[keys[entry[s]]] .. s : raw[d] # FREE
      BY <1>1 DEF Probing
  <2>2. Home[keys[entry[s]]] \in Slots
      BY <2>1, ParameterAssumption
  <2>3. \A d \in Home[keys[entry[s]]] .. s : d \in Slots /\ d # h
      BY <2>1, <2>2, <1>1, SizePositive DEF Slots
  <2> QED
      BY <2>1, <2>3
<1> QED
    BY <1>1 DEF Probing

-----------------------------------------------------------------------------
(* The contents of the slots *)

\* The i-th slot of the run of a thread in state r.
Nth(r, i) == (r.start + i - 1) % HashSize
IsHoleAt(r, i) == r.pc \in {"shift", "again"} /\ i = r.del

\* A slot that is not locked has its own content, a locked one that which the
\* thread that has locked it remembers.
SlotFacts ==
    /\ \A s \in Slots : slot[s] # LOCK => RawSlots[s] = slot[s] /\ Entries[s] = slot[s]
    /\ \A t \in Threads : \A i \in 1 .. Len(th[t].locks) :
          /\ RawSlots[Nth(th[t], i)] = th[t].locks[i]
          /\ Entries[Nth(th[t], i)] = IF IsHoleAt(th[t], i) THEN FREE ELSE th[t].locks[i]

\* Two positions of a run are two slots.
LEMMA PositionsDiffer ==
    ASSUME NEW a \in Slots, NEW i \in 1 .. HashSize, NEW j \in 1 .. HashSize,
           (a + i - 1) % HashSize = (a + j - 1) % HashSize
    PROVE  i = j
<1>1. /\ (a + i - 1) % HashSize = IF a + i - 1 < HashSize THEN a + i - 1 ELSE a + i - 1 - HashSize
      /\ (a + j - 1) % HashSize = IF a + j - 1 < HashSize THEN a + j - 1 ELSE a + j - 1 - HashSize
    BY SizePositive, ModLemma DEF Slots
<1> QED
    BY <1>1, SizePositive DEF Slots

\* A thread in state r holds its slots, the i-th of which is in the array.
LEMMA RunSlots ==
    ASSUME HashInv, NEW t \in Threads
    PROVE  /\ th[t] \in ThreadState /\ th[t].start \in Slots
           /\ Len(th[t].locks) \in Nat /\ Len(th[t].locks) <= HashSize
           /\ DOMAIN th[t].locks = 1 .. Len(th[t].locks)
           /\ th[t].del \in Nat /\ th[t].del <= Len(th[t].locks)
           /\ \A i \in Nat : Nth(th[t], i) \in Slots /\ Nth(th[t], i) = SlotAt(t, i)
           /\ \A i \in 1 .. Len(th[t].locks) : Nth(th[t], i) \in HeldBy(th[t])
           /\ \A s \in HeldBy(th[t]) : \E i \in 1 .. Len(th[t].locks) : s = Nth(th[t], i)
           /\ \A s : Holds(t, s) <=> s \in HeldBy(th[t])
<1>1. PICK r \in ThreadState : r = th[t] /\ ThreadInv(r, key)
    BY Mine
<1>2. /\ r.start \in Slots /\ Len(r.locks) \in Nat /\ DOMAIN r.locks = 1 .. Len(r.locks)
      /\ r.del \in Nat /\ r.del <= Len(r.locks)
    BY <1>1 DEF ThreadState, ThreadInv, LocksAt
<1>3. Len(r.locks) <= HashSize
    BY <1>1 DEF HashInv, LockInv
<1>4. \A i \in Nat : Nth(r, i) \in Slots /\ Nth(r, i) = SlotAt(t, i)
    BY <1>1, <1>2, SizePositive DEF Nth, SlotAt, Slots
<1>5. HeldBy(r) = {Nth(r, i) : i \in 1 .. Len(r.locks)}
    BY <1>2 DEF HeldBy, Run, Nth
<1>6. \A s : Holds(t, s) <=> s \in HeldBy(r)
    BY <1>1, <1>2, <1>4, <1>5 DEF Holds
<1> QED
    BY <1>1, <1>2, <1>3, <1>4, <1>5, <1>6

\* What Raw and Entry are.
LEMMA SlotContents == HashInv => SlotFacts
<1> SUFFICES ASSUME HashInv PROVE SlotFacts
    OBVIOUS
<1>1. ASSUME NEW t \in Threads, th[t].pc \in {"shift", "again"}
      PROVE  /\ th[t].del \in 1 .. Len(th[t].locks)
             /\ SlotAt(t, th[t].del) = Nth(th[t], th[t].del)
             /\ Nth(th[t], th[t].del) \in HeldBy(th[t])
  <2>1. th[t].del > 0
      BY <1>1, Mine DEF ThreadInv, LocksAt
  <2>2. th[t].del \in 1 .. Len(th[t].locks)
      BY <2>1, RunSlots
  <2> QED
      BY <2>2, RunSlots
<1>2. ASSUME NEW s \in Slots, slot[s] # LOCK
      PROVE  RawSlots[s] = slot[s] /\ Entries[s] = slot[s]
  <2>1. \A t \in Threads : s \notin HeldBy(th[t])
      BY <1>2 DEF HashInv, LockInv
  <2>2. ~IsHole(s)
      BY <2>1, <1>1 DEF IsHole
  <2>3. Raw(s) = slot[s]
      BY <1>2 DEF Raw
  <2> QED
      BY <2>2, <2>3 DEF RawSlots, Entries, Entry
<1>3. ASSUME NEW t \in Threads, NEW i \in 1 .. Len(th[t].locks)
      PROVE  /\ RawSlots[Nth(th[t], i)] = th[t].locks[i]
             /\ Entries[Nth(th[t], i)] = IF IsHoleAt(th[t], i) THEN FREE ELSE th[t].locks[i]
  <2>1. PICK s \in Slots : s = Nth(th[t], i) /\ s = SlotAt(t, i) /\ s \in HeldBy(th[t])
      BY RunSlots
  <2>2. \A u \in Threads : s \in HeldBy(th[u]) => u = t
      BY <2>1 DEF HashInv, LockInv
  <2>3. \A j \in 1 .. Len(th[t].locks) : SlotAt(t, j) = s => j = i
    <3> SUFFICES ASSUME NEW j \in 1 .. Len(th[t].locks), SlotAt(t, j) = s PROVE j = i
        OBVIOUS
    <3>1. j \in 1 .. HashSize /\ i \in 1 .. HashSize /\ th[t].start \in Slots
        BY RunSlots, SizePositive
    <3>2. (th[t].start + j - 1) % HashSize = (th[t].start + i - 1) % HashSize
        BY <2>1 DEF SlotAt
    <3> QED
        BY <3>1, <3>2, PositionsDiffer
  <2>4. slot[s] = LOCK
      BY <2>1 DEF HashInv, LockInv
  <2>5. t = CHOOSE u \in Threads : Holds(u, s)
    <3>1. \A u \in Threads : Holds(u, s) <=> u = t
        BY <2>1, <2>2, RunSlots
    <3> QED
        BY <3>1
  <2>6. i = CHOOSE j \in DOMAIN th[t].locks : SlotAt(t, j) = s
    <3>1. DOMAIN th[t].locks = 1 .. Len(th[t].locks)
        BY RunSlots
    <3>2. \A j \in DOMAIN th[t].locks : SlotAt(t, j) = s <=> j = i
        BY <3>1, <2>1, <2>3
    <3> QED
        BY <3>1, <3>2
  <2>7. Raw(s) = th[t].locks[i]
      BY <2>4, <2>5, <2>6 DEF Raw
  <2>8. IsHole(s) <=> IsHoleAt(th[t], i)
    <3>1. ASSUME IsHole(s) PROVE IsHoleAt(th[t], i)
      <4>1. PICK u \in Threads : th[u].pc \in {"shift", "again"} /\ SlotAt(u, th[u].del) = s
          BY <3>1 DEF IsHole
      <4>2. u = t
          BY <4>1, <1>1, <2>2
      <4> QED
          BY <4>1, <4>2, <1>1, <2>3 DEF IsHoleAt
    <3>2. ASSUME IsHoleAt(th[t], i) PROVE IsHole(s)
        BY <3>2, <2>1 DEF IsHole, IsHoleAt
    <3> QED
        BY <3>1, <3>2
  <2> QED
      BY <2>1, <2>7, <2>8 DEF RawSlots, Entries, Entry
<1> QED
    BY <1>2, <1>3 DEF SlotFacts

\* The same after a step.
LEMMA SlotContentsNext == HashInv' => SlotFacts'
BY SlotContents, PTL

-----------------------------------------------------------------------------
(* What a step of one thread does to the contents *)

\* A slot that thread t has locked neither before nor after the step.
LEMMA OtherSlots ==
    ASSUME HashInv, HashInv', NEW t \in Threads, NEW r \in ThreadState,
           th' = [th EXCEPT ![t] = r], NEW s \in Slots, slot'[s] = slot[s],
           s \notin HeldBy(th[t]), s \notin HeldBy(r)
    PROVE  RawSlots'[s] = RawSlots[s] /\ Entries'[s] = Entries[s]
<1>1. SlotFacts /\ SlotFacts'
    BY SlotContents, SlotContentsNext
<1>2. th'[t] = r /\ \A u \in Threads : u # t => th'[u] = th[u]
    BY DEF HashInv, ThreadTypes
<1>3. CASE slot[s] # LOCK
    BY <1>1, <1>3 DEF SlotFacts
<1>4. CASE slot[s] = LOCK
  <2>1. PICK u \in Threads : s \in HeldBy(th[u])
      BY <1>4 DEF HashInv, LockInv
  <2>2. u # t /\ th'[u] = th[u]
      BY <2>1, <1>2
  <2>3. PICK i \in 1 .. Len(th[u].locks) : s = Nth(th[u], i)
      BY <2>1, RunSlots
  <2> QED
      BY <2>2, <2>3, <1>1 DEF SlotFacts
<1> QED
    BY <1>3, <1>4

\* The contents as a whole, when no slot has changed.
LEMMA SameContents ==
    ASSUME HashInv, HashInv', NEW t \in Threads, NEW r \in ThreadState,
           th' = [th EXCEPT ![t] = r],
           \A s \in Slots :
              \/ slot'[s] = slot[s] /\ s \notin HeldBy(th[t]) /\ s \notin HeldBy(r)
              \/ RawSlots'[s] = RawSlots[s] /\ Entries'[s] = Entries[s]
    PROVE  RawSlots' = RawSlots /\ Entries' = Entries
<1>1. ASSUME NEW s \in Slots
      PROVE  RawSlots'[s] = RawSlots[s] /\ Entries'[s] = Entries[s]
    BY OtherSlots
<1>2. /\ RawSlots = [s \in Slots |-> RawSlots[s]] /\ RawSlots' = [s \in Slots |-> RawSlots'[s]]
      /\ Entries = [s \in Slots |-> Entries[s]] /\ Entries' = [s \in Slots |-> Entries'[s]]
    BY DEF RawSlots, Entries
<1> QED
    BY <1>1, <1>2

\* No slot is locked or unlocked.
LEMMA KeptContents ==
    ASSUME HashInv, HashInv', NEW t \in Threads, NEW r \in ThreadState,
           th' = [th EXCEPT ![t] = r], slot' = slot,
           \/ r.locks = <<>> /\ th[t].locks = <<>>
           \/ /\ r.start = th[t].start /\ r.locks = th[t].locks
              /\ r.pc \notin {"shift", "again"} /\ th[t].pc \notin {"shift", "again"}
    PROVE  RawSlots' = RawSlots /\ Entries' = Entries
<1>1. SlotFacts /\ SlotFacts' /\ th'[t] = r
    BY SlotContents, SlotContentsNext DEF HashInv, ThreadTypes
<1>2. CASE r.locks = <<>> /\ th[t].locks = <<>>
  <2>1. HeldBy(r) = {} /\ HeldBy(th[t]) = {}
    <3>1. Len(r.locks) = 0 /\ Len(th[t].locks) = 0 /\ r.start \in Slots /\ th[t].start \in Slots
        BY <1>2, RunSlots DEF ThreadState
    <3> QED
        BY <3>1, RunEmpty DEF HeldBy
  <2> QED
      BY <2>1, SameContents
<1>3. CASE /\ r.start = th[t].start /\ r.locks = th[t].locks
           /\ r.pc \notin {"shift", "again"} /\ th[t].pc \notin {"shift", "again"}
  <2>1. HeldBy(r) = HeldBy(th[t]) /\ \A i : Nth(r, i) = Nth(th[t], i)
      BY <1>3 DEF HeldBy, Nth
  <2>2. ASSUME NEW s \in HeldBy(th[t])
        PROVE  RawSlots'[s] = RawSlots[s] /\ Entries'[s] = Entries[s]
    <3>1. PICK i \in 1 .. Len(th[t].locks) : s = Nth(th[t], i)
        BY RunSlots
    <3>2. ~IsHoleAt(r, i) /\ ~IsHoleAt(th[t], i)
        BY <1>3 DEF IsHoleAt
    <3>3. i \in 1 .. Len(th'[t].locks) /\ s = Nth(th'[t], i) /\ th'[t].locks = th[t].locks
        BY <3>1, <2>1, <1>1, <1>3
    <3>4. RawSlots[s] = th[t].locks[i] /\ Entries[s] = th[t].locks[i]
        BY <3>1, <3>2, <1>1 DEF SlotFacts
    <3>5. RawSlots'[s] = th'[t].locks[i] /\ Entries'[s] = th'[t].locks[i]
        BY <3>2, <3>3, <1>1 DEF SlotFacts
    <3> QED
        BY <3>3, <3>4, <3>5
  <2>3. \A s \in Slots :
              \/ slot'[s] = slot[s] /\ s \notin HeldBy(th[t]) /\ s \notin HeldBy(r)
              \/ RawSlots'[s] = RawSlots[s] /\ Entries'[s] = Entries[s]
      BY <2>1, <2>2
  <2> QED
      BY <2>3, SameContents
<1> QED
    BY <1>2, <1>3

\* The next slot of the run is locked and its content remembered.
LEMMA LockedLemma ==
    ASSUME HashInv, NEW t \in Threads, LockNext(t)
    PROVE  \E n \in Nat, z \in Slots, locks \in Seq(Contents) :
              /\ n = Len(th[t].locks) /\ z = Nth(th[t], n + 1) /\ z = SlotAt(t, n + 1)
              /\ z = (th[t].start + n) % HashSize /\ n < HashSize
              /\ locks = Locked(t) /\ Len(locks) = n + 1
              /\ locks[n + 1] = slot[z] /\ Last(locks) = slot[z] /\ slot[z] # LOCK
              /\ slot[z] \in Contents
              /\ slot' = [slot EXCEPT ![z] = LOCK]
              /\ \A i \in 1 .. n : locks[i] = th[t].locks[i]
<1>1. PICK me \in ThreadState, n \in Nat : me = th[t] /\ n = Len(me.locks) /\ n <= HashSize
    BY RunSlots
<1>2. PICK z \in Slots : z = Nth(me, n + 1) /\ z = SlotAt(t, n + 1)
    BY <1>1, RunSlots
<1>3. z = (me.start + n) % HashSize
  <2>1. me.start + (n + 1) - 1 = me.start + n
      BY <1>1 DEF ThreadState, Slots
  <2> QED
      BY <2>1, <1>2 DEF Nth
<1>4. slot[z] # LOCK /\ slot' = [slot EXCEPT ![z] = LOCK] /\ Locked(t) = Append(me.locks, slot[z])
    BY <1>1, <1>2 DEF LockNext, Locked
<1>5. slot[z] \in Contents
    BY <1>4 DEF HashInv, TableTypes
<1>6. PICK q \in Seq(Contents), c \in Contents : q = me.locks /\ c = slot[z] /\ Len(q) = n
    BY <1>1, <1>5 DEF ThreadState
<1>7. PICK w : w = Append(q, c)
    OBVIOUS
<1>8. w \in Seq(Contents) /\ Len(w) = n + 1 /\ w[n + 1] = c /\ \A i \in 1 .. n : w[i] = q[i]
    BY <1>6, <1>7
<1>9. Last(w) = c
    BY <1>8 DEF Last
<1>10. n # HashSize
  <2>1. z \notin HeldBy(me)
      BY <1>1, <1>4 DEF HashInv, LockInv
  <2>2. me.start \in Slots
      BY DEF ThreadState
  <2> QED
      BY <2>1, <2>2, <1>1, <1>3, RunFull DEF HeldBy
<1>11. n < HashSize
    BY <1>1, <1>10, SizePositive
<1> QED
    BY <1>1, <1>2, <1>3, <1>4, <1>5, <1>6, <1>7, <1>8, <1>9, <1>11

\* The contents before and after a step that locks the next slot.
LEMMA LockContents ==
    ASSUME HashInv, HashInv', NEW t \in Threads, LockNext(t), NEW r \in ThreadState,
           th' = [th EXCEPT ![t] = r], r.start = th[t].start,
           NEW n \in Nat, n = Len(th[t].locks), Len(r.locks) = n + 1,
           NEW z \in Slots, z = Nth(th[t], n + 1)
    PROVE  /\ \A i \in 1 .. n :
                 /\ RawSlots[Nth(th[t], i)] = th[t].locks[i]
                 /\ Entries[Nth(th[t], i)] = IF IsHoleAt(th[t], i) THEN FREE ELSE th[t].locks[i]
           /\ RawSlots[z] = slot[z] /\ Entries[z] = slot[z]
           /\ \A i \in 1 .. n + 1 :
                 /\ RawSlots'[Nth(th[t], i)] = r.locks[i]
                 /\ Entries'[Nth(th[t], i)] = IF IsHoleAt(r, i) THEN FREE ELSE r.locks[i]
           /\ \A s \in Slots : \/ \E i \in 1 .. n + 1 : s = Nth(th[t], i)
                               \/ RawSlots'[s] = RawSlots[s] /\ Entries'[s] = Entries[s]
<1>1. SlotFacts /\ SlotFacts' /\ th'[t] = r
    BY SlotContents, SlotContentsNext DEF HashInv, ThreadTypes
<1>2. slot[z] # LOCK /\ slot' = [slot EXCEPT ![z] = LOCK]
    BY LockedLemma
<1>3. \A i : Nth(r, i) = Nth(th[t], i)
    BY DEF Nth
<1>4. /\ HeldBy(th[t]) = {Nth(th[t], i) : i \in 1 .. n}
      /\ HeldBy(r) = {Nth(th[t], i) : i \in 1 .. n + 1}
    BY DEF HeldBy, Run, Nth
<1>5. ASSUME NEW s \in Slots, ~ \E i \in 1 .. n + 1 : s = Nth(th[t], i)
      PROVE  RawSlots'[s] = RawSlots[s] /\ Entries'[s] = Entries[s]
  <2>1. s \notin HeldBy(r) /\ s \notin HeldBy(th[t]) /\ s # z
    <3>1. \A i \in 1 .. n : i \in 1 .. n + 1
        OBVIOUS
    <3>2. n + 1 \in 1 .. n + 1
        OBVIOUS
    <3> QED
        BY <3>1, <3>2, <1>4, <1>5
  <2>2. slot'[s] = slot[s]
      BY <2>1, <1>2 DEF HashInv, TableTypes
  <2> QED
      BY <2>1, <2>2, OtherSlots
<1>6. ASSUME NEW i \in 1 .. n + 1
      PROVE  /\ RawSlots'[Nth(th[t], i)] = r.locks[i]
             /\ Entries'[Nth(th[t], i)] = IF IsHoleAt(r, i) THEN FREE ELSE r.locks[i]
    BY <1>1, <1>3 DEF SlotFacts
<1> QED
    BY <1>1, <1>2, <1>5, <1>6 DEF SlotFacts

\* A step that locks the next slot and changes nothing.
LEMMA LockKeeps ==
    ASSUME HashInv, HashInv', NEW t \in Threads, LockNext(t), NEW r \in ThreadState,
           th' = [th EXCEPT ![t] = r], r.start = th[t].start, r.locks = Locked(t),
           \/ r.pc \notin {"shift", "again"} /\ th[t].pc \notin {"shift", "again"}
           \/ r.pc = "shift" /\ th[t].pc = "shift" /\ r.del = th[t].del
    PROVE  RawSlots' = RawSlots /\ Entries' = Entries
<1>1. PICK n \in Nat, z \in Slots :
          /\ n = Len(th[t].locks) /\ z = Nth(th[t], n + 1) /\ Len(r.locks) = n + 1
          /\ r.locks[n + 1] = slot[z] /\ \A i \in 1 .. n : r.locks[i] = th[t].locks[i]
    BY LockedLemma
<1>2. \A i \in 1 .. n : IsHoleAt(r, i) <=> IsHoleAt(th[t], i)
    BY DEF IsHoleAt
<1>3. ~IsHoleAt(r, n + 1)
  <2>1. th[t].del \in Nat /\ th[t].del <= n
      BY <1>1, RunSlots
  <2> QED
      BY <2>1 DEF IsHoleAt
<1>4. \A i \in 1 .. n + 1 : i \in 1 .. n \/ i = n + 1
    OBVIOUS
<1>5. ASSUME NEW s \in Slots
      PROVE  RawSlots'[s] = RawSlots[s] /\ Entries'[s] = Entries[s]
  <2>1. CASE \E i \in 1 .. n + 1 : s = Nth(th[t], i)
    <3>1. PICK i \in 1 .. n + 1 : s = Nth(th[t], i)
        BY <2>1
    <3>2. CASE i \in 1 .. n
      <4>1. /\ RawSlots[s] = th[t].locks[i] /\ RawSlots'[s] = r.locks[i]
            /\ Entries[s] = IF IsHoleAt(th[t], i) THEN FREE ELSE th[t].locks[i]
            /\ Entries'[s] = IF IsHoleAt(r, i) THEN FREE ELSE r.locks[i]
          BY <3>1, <3>2, <1>1, LockContents
      <4> QED
          BY <4>1, <3>2, <1>1, <1>2
    <3>3. CASE i = n + 1
        BY <3>1, <3>3, <1>1, <1>3, LockContents
    <3> QED
        BY <3>2, <3>3, <1>4
  <2>2. CASE ~ \E i \in 1 .. n + 1 : s = Nth(th[t], i)
      BY <2>2, <1>1, LockContents
  <2> QED
      BY <2>1, <2>2
<1> QED
    BY <1>5, SameContents

\* A step that gives back the first slot of the run.
LEMMA ReleaseKeeps ==
    ASSUME HashInv, HashInv', NEW t \in Threads, NEW r \in ThreadState,
           th' = [th EXCEPT ![t] = r], th[t].locks # <<>>,
           slot' = [slot EXCEPT ![th[t].start] = Head(th[t].locks)],
           r.locks = Tail(th[t].locks),
           Len(th[t].locks) > 1 => r.start = (th[t].start + 1) % HashSize,
           r.pc \notin {"shift", "again"}, th[t].pc \notin {"shift", "again"}
    PROVE  RawSlots' = RawSlots /\ Entries' = Entries
<1>1. SlotFacts /\ SlotFacts' /\ th'[t] = r
    BY SlotContents, SlotContentsNext DEF HashInv, ThreadTypes
<1>2. PICK a \in Slots, q \in Seq(Contents), n \in Nat \ {0} :
          a = th[t].start /\ q = th[t].locks /\ n = Len(q) /\ n <= HashSize
    BY RunSlots DEF ThreadState
<1>3. Head(q) = q[1] /\ Len(Tail(q)) = n - 1 /\ \A i \in 1 .. n - 1 : Tail(q)[i] = q[i + 1]
    BY <1>2
<1>4. Head(q) \in Contents /\ Head(q) # LOCK
    BY <1>2, <1>3, MarkAssumption DEF Contents
<1>5. Nth(th[t], 1) = a
  <2>1. (a + 1 - 1) % HashSize = a
      BY SizePositive DEF Slots
  <2> QED
      BY <2>1, <1>2 DEF Nth
<1>6. \A s \in Slots : slot'[s] = IF s = a THEN Head(q) ELSE slot[s]
    BY <1>2 DEF HashInv, TableTypes
<1>7. RawSlots'[a] = RawSlots[a] /\ Entries'[a] = Entries[a]
  <2>1. RawSlots[a] = q[1] /\ Entries[a] = q[1]
    <3>1. ~IsHoleAt(th[t], 1) /\ 1 \in 1 .. Len(th[t].locks)
        BY <1>2 DEF IsHoleAt
    <3> QED
        BY <3>1, <1>1, <1>2, <1>5 DEF SlotFacts
  <2>2. slot'[a] = q[1] /\ slot'[a] # LOCK
      BY <1>3, <1>4, <1>6
  <2>3. RawSlots'[a] = slot'[a] /\ Entries'[a] = slot'[a]
      BY <2>2, <1>1 DEF SlotFacts
  <2> QED
      BY <2>1, <2>2, <2>3
<1>8. ASSUME NEW i \in 2 .. n
      PROVE  /\ RawSlots'[Nth(th[t], i)] = RawSlots[Nth(th[t], i)]
             /\ Entries'[Nth(th[t], i)] = Entries[Nth(th[t], i)]
  <2>1. PICK j \in 1 .. n - 1 : i = j + 1
    <3>1. i - 1 \in 1 .. n - 1 /\ i = (i - 1) + 1
        OBVIOUS
    <3> QED
        BY <3>1
  <2>2. r.start = (a + 1) % HashSize
      BY <1>2
  <2>3. Nth(r, j) = Nth(th[t], i)
    <3>1. (((a + 1) % HashSize) + j - 1) % HashSize = (a + (j + 1) - 1) % HashSize
      <4>1. (a + 1) % HashSize = IF a + 1 < HashSize THEN a + 1 ELSE 0
          BY SizePositive DEF Slots
      <4>2. CASE a + 1 < HashSize
          BY <4>1, <4>2, SizePositive DEF Slots
      <4>3. CASE ~(a + 1 < HashSize)
        <5>1. a + 1 = HashSize
            BY <4>3, SizePositive DEF Slots
        <5>2. ((a + 1) % HashSize) + j - 1 = j - 1 /\ a + (j + 1) - 1 = HashSize + (j - 1)
            BY <4>1, <5>1 DEF Slots
        <5>3. j - 1 \in 0 .. HashSize - 1
            BY <1>2, SizePositive
        <5>4. (j - 1) % HashSize = j - 1 /\ (HashSize + (j - 1)) % HashSize = j - 1
            BY <5>3, SizePositive
        <5> QED
            BY <5>2, <5>4
      <4> QED
          BY <4>2, <4>3
    <3> QED
        BY <3>1, <2>1, <2>2, <1>2 DEF Nth
  <2>4. ~IsHoleAt(r, j) /\ ~IsHoleAt(th[t], i)
      BY DEF IsHoleAt
  <2>5. r.locks[j] = q[i] /\ j \in 1 .. Len(r.locks) /\ i \in 1 .. Len(th[t].locks)
      BY <2>1, <1>2, <1>3
  <2>6. RawSlots[Nth(th[t], i)] = q[i] /\ Entries[Nth(th[t], i)] = q[i]
      BY <2>4, <2>5, <1>1, <1>2 DEF SlotFacts
  <2>7. j \in 1 .. Len(th'[t].locks) /\ ~IsHoleAt(th'[t], j)
      BY <2>4, <2>5, <1>1
  <2>8. RawSlots'[Nth(th'[t], j)] = th'[t].locks[j] /\ Entries'[Nth(th'[t], j)] = th'[t].locks[j]
      BY <2>7, <1>1 DEF SlotFacts
  <2> QED
      BY <2>3, <2>5, <2>6, <2>8, <1>1
<1>9. ASSUME NEW s \in Slots
      PROVE  \/ slot'[s] = slot[s] /\ s \notin HeldBy(th[t]) /\ s \notin HeldBy(r)
             \/ RawSlots'[s] = RawSlots[s] /\ Entries'[s] = Entries[s]
  <2>1. CASE s \in HeldBy(th[t])
    <3>1. PICK i \in 1 .. n : s = Nth(th[t], i)
        BY <2>1, <1>2, RunSlots
    <3>2. CASE i = 1
        BY <3>1, <3>2, <1>5, <1>7
    <3>3. CASE i \in 2 .. n
        BY <3>1, <3>3, <1>8
    <3> QED
        BY <3>2, <3>3
  <2>2. CASE s \notin HeldBy(th[t])
    <3>1. s # a
      <4>1. 1 \in 1 .. Len(th[t].locks)
          BY <1>2
      <4> QED
          BY <4>1, <2>2, <1>5, RunSlots
    <3>2. s \notin HeldBy(r)
      <4>1. Len(r.locks) = n - 1
          BY <1>2, <1>3
      <4>2. HeldBy(th[t]) = Run(a, n)
          BY <1>2 DEF HeldBy
      <4>3. CASE n > 1
        <5>1. HeldBy(r) = Run((a + 1) % HashSize, n - 1)
            BY <4>1, <4>3, <1>2 DEF HeldBy
        <5>2. n \in 1 .. HashSize
            BY <1>2, SizePositive
        <5> QED
            BY <5>1, <5>2, <4>2, <2>2, RunShrinks
      <4>4. CASE n = 1
        <5>1. Len(r.locks) = 0 /\ r.start \in Slots
            BY <4>1, <4>4 DEF ThreadState
        <5> QED
            BY <5>1, RunEmpty DEF HeldBy
      <4> QED
          BY <4>3, <4>4
    <3> QED
        BY <3>1, <3>2, <2>2, <1>6
  <2> QED
      BY <2>1, <2>2
<1> QED
    BY <1>9, SameContents

-----------------------------------------------------------------------------
(* Steps that leave the contents alone *)

\* The elements in the hash.
LEMMA HashedLemma == Hashed = {Entries[s] : s \in Slots} \ {FREE}
BY DEF Hashed, Entries

\* The same after a step.
LEMMA HashedNext == Hashed' = {Entries'[s] : s \in Slots} \ {FREE}
BY DEF Hashed, Entries

\* The state of thread t before and after a step of its own.
LEMMA MyState ==
    ASSUME HashInv, HashInv', ProbingInv, NEW t \in Threads, NEW r, th' = [th EXCEPT ![t] = r]
    PROVE  /\ r \in ThreadState /\ ThreadInv(r, key') /\ th'[t] = r
           /\ \A u \in Threads : u # t => th'[u] = th[u]
           /\ Regular(th[t]) /\ RunInv(th[t], key) /\ HandInv(th[t], Hashed)
BY DEF HashInv, ThreadTypes, ProbingInv

\* Only elements are in the hash.
LEMMA HashedElements ==
    ASSUME ProbingInv
    PROVE  Hashed \subseteq Elements /\ None \notin Hashed
BY HashedLemma, MarkAssumption DEF ProbingInv, Probing

\* A thread without an operation.
LEMMA IdleProbing ==
    ASSUME ProbingInv
    PROVE  Regular(Idle) /\ RunInv(Idle, key) /\ HandInv(Idle, Hashed)
<1>1. Idle.pc = "idle" /\ Idle.e = None /\ Idle.op = None
    BY GoIdle
<1>2. None # "remove"
    BY MarkAssumption DEF Operations
<1> QED
    BY <1>1, <1>2, HashedElements DEF Regular, RunInv, HandInv, Goal

\* A step that changes neither contents nor keys, and so not what is hashed.
LEMMA QuietStep ==
    ASSUME HashInv, HashInv', ProbingInv, NEW t \in Threads, NEW r, th' = [th EXCEPT ![t] = r],
           RawSlots' = RawSlots, Entries' = Entries, key' = key,
           UseInv' \/ UNCHANGED lists,
           Regular(r), RunInv(r, key), HandInv(r, Hashed)
    PROVE  ProbingInv' /\ Hashed' = Hashed
<1>1. Hashed' = Hashed
    BY HashedLemma, HashedNext
<1>2. UseInv'
  <2>1. CASE UNCHANGED lists
      BY <2>1, <1>1 DEF lists, ProbingInv, UseInv
  <2> QED
      BY <2>1
<1>3. ASSUME NEW u \in Threads
      PROVE  Regular(th'[u]) /\ RunInv(th'[u], key') /\ HandInv(th'[u], Hashed')
  <2>1. CASE u = t
      BY <2>1, <1>1, MyState
  <2>2. CASE u # t
    <3>1. th'[u] = th[u]
        BY <2>2, MyState
    <3> QED
        BY <3>1, <1>1 DEF ProbingInv
  <2> QED
      BY <2>1, <2>2
<1>4. Probing(RawSlots', Entries', key')
    BY DEF ProbingInv
<1> QED
    BY <1>1, <1>2, <1>3, <1>4 DEF ProbingInv

\* While no cluster goes around the end of the array, nor does a run whose
\* slots are all taken; the slot after the last one is free.
LEMMA NoWrap ==
    ASSUME HashInv, NoClusterWraps, NEW t \in Threads,
           NEW n \in Nat, n = Len(th[t].locks),
           NEW z \in Slots, z = (th[t].start + n) % HashSize, slot[z] # LOCK,
           th[t].start + n <= HashSize,
           \A i \in 1 .. n : th[t].locks[i] # FREE
    PROVE  /\ th[t].start + n < HashSize => z = th[t].start + n
           /\ slot[z] # FREE => th[t].start + n < HashSize
           /\ \A i \in 1 .. n : Nth(th[t], i) = th[t].start + i - 1
<1>1. PICK a \in Slots : a = th[t].start /\ z = (a + n) % HashSize /\ a + n <= HashSize
    BY RunSlots
<1>2. a + n < HashSize => z = a + n
  <2>1. a + n \in Nat
      BY DEF Slots
  <2> QED
      BY <2>1, <1>1, SizePositive
<1>3. \A i \in 1 .. n : Nth(th[t], i) = a + i - 1
  <2>1. a \in Nat /\ a + n <= HashSize /\ HashSize \in Nat
      BY <1>1, SizePositive DEF Slots
  <2>2. \A i \in 1 .. n : a + i - 1 \in 0 .. HashSize - 1
      BY <2>1
  <2>3. \A i \in 1 .. n : (a + i - 1) % HashSize = a + i - 1
      BY <2>2, SizePositive
  <2> QED
      BY <2>3, <1>1 DEF Nth
<1>4. ASSUME a + n = HashSize PROVE slot[z] = FREE
  <2>1. n \in 1 .. n /\ a + n - 1 = HashSize - 1
      BY <1>4, SizePositive DEF Slots
  <2>2. RawSlots[HashSize - 1] = th[t].locks[n]
      BY <2>1, <1>3, SlotContents DEF SlotFacts
  <2>3. Raw(HashSize - 1) # FREE
      BY <2>1, <2>2, SizePositive DEF RawSlots, Slots
  <2>4. Raw(0) = FREE
      BY <2>3 DEF NoClusterWraps
  <2>5. z = 0
      BY <1>1, <1>4, SizePositive
  <2>6. RawSlots[z] = slot[z]
      BY SlotContents DEF SlotFacts
  <2> QED
      BY <2>4, <2>5, <2>6 DEF RawSlots
<1>5. slot[z] # FREE => a + n < HashSize
  <2>1. a + n \in Nat
      BY DEF Slots
  <2> QED
      BY <2>1, <1>1, <1>4, SizePositive
<1> QED
    BY <1>1, <1>2, <1>3, <1>5

\* The array of locks has room.
LEMMA NotTooDeep ==
    ASSUME StepFits, HashInv, HashInv', NEW t \in Threads, th[t].pc \in Growing,
           Len(th'[t].locks) = Len(th[t].locks) + 1
    PROVE  ~TooDeep(th'[t].locks) /\ \A label : Advance(th'[t].locks, label) = label
<1>1. Len(th[t].locks) \in Nat
    BY DEF HashInv, ThreadTypes, ThreadState
<1>2. Len(th'[t].locks) <= MaxLockDepth
    BY DEF StepFits, LocksFit
<1>3. ~TooDeep(th'[t].locks)
    BY <1>1, <1>2, ParameterAssumption DEF TooDeep
<1> QED
    BY <1>3 DEF Advance

\* Probing passes another key, finds its key or comes to a free slot.
LEMMA ProbeProbing ==
    ASSUME HashInv, HashInv', NoClusterWraps, StepFits, ProbingInv, NEW t \in Threads, Probe(t)
    PROVE  ProbingInv' /\ Hashed' = Hashed
<1>1. PICK me \in ThreadState : /\ me = th[t] /\ ThreadInv(me, key) /\ Regular(me)
                                /\ RunInv(me, key) /\ HandInv(me, Hashed)
    BY Mine DEF ProbingInv
<1>2. me.pc = "probe" /\ LockNext(t) /\ key' = key /\ UNCHANGED lists
    BY <1>1 DEF Probe, At
<1>3. PICK n \in Nat, z \in Slots, locks \in Seq(Contents), c \in Contents :
          /\ n = Len(me.locks) /\ z = (me.start + n) % HashSize /\ slot[z] # LOCK
          /\ locks = Locked(t) /\ Len(locks) = n + 1 /\ c = slot[z]
          /\ locks[n + 1] = c /\ Last(locks) = c /\ \A i \in 1 .. n : locks[i] = me.locks[i]
    BY <1>1, <1>2, LockedLemma
<1>4. /\ me.start = Home[me.key] /\ me.start \in Slots /\ me.start + n <= HashSize
      /\ \A i \in 1 .. n : me.locks[i] # FREE /\ key[me.locks[i]] # me.key
    BY <1>1, <1>2, <1>3 DEF RunInv, Passed, ThreadState
<1>5. c # FREE => me.start + (n + 1) <= HashSize
  <2>1. c # FREE => me.start + n < HashSize
      BY <1>1, <1>3, <1>4, NoWrap
  <2> QED
      BY <2>1, <1>4, SizePositive DEF Slots
<1>6. me.e \notin Hashed
    BY <1>1, <1>2 DEF HandInv, Goal
<1>7. ASSUME NEW r, th' = [th EXCEPT ![t] = r], r.locks = locks, r.start = me.start,
             r.pc \notin {"shift", "again"}, Regular(r), RunInv(r, key), HandInv(r, Hashed)
      PROVE  ProbingInv' /\ Hashed' = Hashed
  <2>1. r \in ThreadState
      BY <1>7, MyState
  <2>2. RawSlots' = RawSlots /\ Entries' = Entries
      BY <2>1, <1>1, <1>2, <1>3, <1>7, LockKeeps
  <2> QED
      BY <2>2, <1>2, <1>7, QuietStep
<1>8. CASE c = FREE /\ me.op \in Inserts
  <2>1. PICK r : r = [me EXCEPT !.pc = "fill", !.locks = locks]
      OBVIOUS
  <2>2. th' = [th EXCEPT ![t] = r]
      BY <2>1, <1>1, <1>3, <1>8 DEF Probe, Inserts
  <2>3. /\ r.pc = "fill" /\ r.locks = locks /\ r.start = me.start /\ r.key = me.key
        /\ r.e = me.e /\ r.op = me.op
      BY <2>1 DEF ThreadState
  <2>4. RunInv(r, key)
    <3>1. me.start + (n + 1) - 1 <= HashSize /\ (n + 1) - 1 = n
        BY <1>4 DEF Slots
    <3>2. Passed(r, n, r.key, key) /\ r.locks[n + 1] = FREE
        BY <2>3, <1>3, <1>4, <1>8 DEF Passed
    <3> QED
        BY <2>3, <3>1, <3>2, <1>3, <1>4 DEF RunInv
  <2>5. Regular(r) /\ HandInv(r, Hashed)
      BY <2>3, <1>1, <1>6 DEF Regular, HandInv, Goal
  <2> QED
      BY <2>2, <2>3, <2>4, <2>5, <1>7
<1>9. CASE c = FREE /\ me.op \in {"get", "set"}
  <2>1. PICK r : r = UnlockThen(t, locks, "idle")
      OBVIOUS
  <2>2. th' = [th EXCEPT ![t] = r]
      BY <2>1, <1>1, <1>3, <1>9 DEF Probe
  <2>3. /\ r.pc = "unlock" /\ r.next = "idle" /\ r.locks = locks /\ r.start = me.start
        /\ r.e = me.e /\ r.op = me.op
      BY <2>1, <1>1 DEF ThreadState, UnlockThen
  <2>4. Regular(r) /\ RunInv(r, key) /\ HandInv(r, Hashed)
      BY <2>3, <1>1, <1>6 DEF Regular, RunInv, HandInv, Goal
  <2> QED
      BY <2>2, <2>3, <2>4, <1>7
<1>10. CASE c # FREE /\ key[c] = me.key
  <2>1. PICK r : r = [me EXCEPT !.pc = "found", !.locks = locks, !.x = c]
      OBVIOUS
  <2>2. th' = [th EXCEPT ![t] = r]
      BY <2>1, <1>1, <1>3, <1>10 DEF Probe
  <2>3. /\ r.pc = "found" /\ r.locks = locks /\ r.start = me.start /\ r.e = me.e /\ r.op = me.op
      BY <2>1 DEF ThreadState
  <2>4. Regular(r) /\ RunInv(r, key) /\ HandInv(r, Hashed)
      BY <2>3, <1>1, <1>6 DEF Regular, RunInv, HandInv, Goal
  <2> QED
      BY <2>2, <2>3, <2>4, <1>7
<1>11. CASE c # FREE /\ key[c] # me.key
  <2>1. PICK r : r = [me EXCEPT !.pc = Advance(locks, "probe"), !.locks = locks]
      OBVIOUS
  <2>2. th' = [th EXCEPT ![t] = r]
      BY <2>1, <1>1, <1>3, <1>11 DEF Probe
  <2>3. /\ r.pc = Advance(locks, "probe") /\ r.locks = locks /\ r.start = me.start
        /\ r.key = me.key /\ r.e = me.e /\ r.op = me.op
      BY <2>1 DEF ThreadState
  <2>4. r.pc = "probe"
    <3>1. th'[t].locks = locks
        BY <2>2, <2>3, MyState
    <3>2. th[t].pc \in Growing /\ Len(th'[t].locks) = Len(th[t].locks) + 1
        BY <3>1, <1>1, <1>2, <1>3 DEF Growing
    <3>3. \A label : Advance(locks, label) = label
        BY <3>1, <3>2, NotTooDeep
    <3> QED
        BY <3>3, <2>3
  <2>5. RunInv(r, key)
    <3>1. \A i \in 1 .. n + 1 : i \in 1 .. n \/ i = n + 1
        OBVIOUS
    <3>2. Passed(r, n + 1, r.key, key)
        BY <3>1, <2>3, <1>3, <1>4, <1>11 DEF Passed
    <3> QED
        BY <3>2, <2>3, <2>4, <1>3, <1>4, <1>5, <1>11 DEF RunInv
  <2>6. Regular(r) /\ HandInv(r, Hashed)
      BY <2>3, <2>4, <1>1, <1>6 DEF Regular, HandInv, Goal
  <2> QED
      BY <2>2, <2>3, <2>4, <2>5, <2>6, <1>7
<1> QED
    BY <1>1, <1>3, <1>8, <1>9, <1>10, <1>11 DEF Probe, Inserts

\* processHash locks a slot.
LEMMA VisitProbing ==
    ASSUME HashInv, HashInv', ProbingInv, NEW t \in Threads, Visit(t)
    PROVE  ProbingInv' /\ Hashed' = Hashed
<1>1. PICK me \in ThreadState : /\ me = th[t] /\ Regular(me) /\ HandInv(me, Hashed)
    BY Mine DEF ProbingInv
<1>2. me.pc = "visit" /\ LockNext(t) /\ key' = key /\ UNCHANGED lists
    BY <1>1 DEF Visit, At
<1>3. PICK r : r = [me EXCEPT !.pc = "leave", !.locks = Locked(t)]
    OBVIOUS
<1>4. th' = [th EXCEPT ![t] = r] /\ r \in ThreadState
  <2>1. th' = [th EXCEPT ![t] = r]
      BY <1>1, <1>3 DEF Visit
  <2> QED
      BY <2>1, MyState
<1>5. /\ r.pc = "leave" /\ r.locks = Locked(t) /\ r.start = me.start
      /\ r.e = me.e /\ r.op = me.op
    BY <1>3 DEF ThreadState
<1>6. RawSlots' = RawSlots /\ Entries' = Entries
    BY <1>1, <1>2, <1>4, <1>5, LockKeeps
<1>7. Regular(r) /\ RunInv(r, key) /\ HandInv(r, Hashed)
    BY <1>1, <1>2, <1>5 DEF Regular, RunInv, HandInv, Goal
<1> QED
    BY <1>2, <1>4, <1>6, <1>7, QuietStep

\* One slot is unlocked.
LEMMA UnlockProbing ==
    ASSUME HashInv, HashInv', ProbingInv, NEW t \in Threads, Unlock(t)
    PROVE  ProbingInv' /\ Hashed' = Hashed
<1>1. PICK me \in ThreadState : /\ me = th[t] /\ ThreadInv(me, key)
                                /\ Regular(me) /\ HandInv(me, Hashed)
    BY Mine DEF ProbingInv
<1>2. /\ me.pc = "unlock" /\ key' = key /\ UNCHANGED lists
      /\ slot' = [slot EXCEPT ![me.start] = Head(me.locks)]
    BY <1>1 DEF Unlock, At
<1>3. /\ me.locks # <<>> /\ me.locks \in Seq(Contents)
      /\ me.next \in {"idle", "putBack", "unlink", "link"}
    BY <1>1, <1>2 DEF ThreadInv, LocksAt, OpAt, ThreadState, Regular, Goal
<1>4. PICK q : q = [me EXCEPT !.start = (@ + 1) % HashSize, !.locks = Tail(@)]
    OBVIOUS
<1>5. /\ q.pc = "unlock" /\ q.start = (me.start + 1) % HashSize /\ q.locks = Tail(me.locks)
      /\ q.next = me.next /\ q.e = me.e /\ q.op = me.op
    BY <1>2, <1>4 DEF ThreadState
<1>6. ASSUME NEW r, th' = [th EXCEPT ![t] = r], r.locks = Tail(me.locks),
             Len(me.locks) > 1 => r.start = (me.start + 1) % HashSize,
             r.pc \in {"unlock", "idle", "putBack", "unlink", "link"},
             Regular(r), HandInv(r, Hashed)
      PROVE  ProbingInv' /\ Hashed' = Hashed
  <2>1. r \in ThreadState
      BY <1>6, MyState
  <2>2. r.pc \notin {"shift", "again"} /\ me.pc \notin {"shift", "again"}
      BY <1>2, <1>6
  <2>3. RawSlots' = RawSlots /\ Entries' = Entries
      BY <2>1, <2>2, <1>1, <1>2, <1>3, <1>6, ReleaseKeeps
  <2>4. RunInv(r, key)
      BY <1>6 DEF RunInv
  <2> QED
      BY <2>3, <2>4, <1>2, <1>6, QuietStep
<1>7. CASE Len(me.locks) > 1
  <2>1. th' = [th EXCEPT ![t] = q]
      BY <1>1, <1>4, <1>7 DEF Unlock
  <2>2. Regular(q) /\ HandInv(q, Hashed)
      BY <1>1, <1>2, <1>5 DEF Regular, HandInv, Goal
  <2> QED
      BY <2>1, <2>2, <1>5, <1>6
<1>8. CASE ~(Len(me.locks) > 1)
  <2>1. Tail(me.locks) = <<>>
    <3>1. Len(me.locks) \in Nat \ {0}
        BY <1>3
    <3> QED
        BY <3>1, <1>3, <1>8
  <2>2. CASE me.next = "idle"
    <3>1. th' = [th EXCEPT ![t] = Idle]
        BY <2>2, <1>1, <1>8 DEF Unlock
    <3>2. Idle.locks = <<>> /\ Idle.pc = "idle" /\ Idle.e = None /\ Idle.op = None
        BY GoIdle
    <3>3. Regular(Idle) /\ HandInv(Idle, Hashed)
        BY IdleProbing
    <3> QED
        BY <3>1, <3>2, <3>3, <2>1, <1>6, <1>8
  <2>3. CASE me.next # "idle"
    <3>1. PICK r : r = [q EXCEPT !.pc = me.next]
        OBVIOUS
    <3>2. th' = [th EXCEPT ![t] = r]
        BY <3>1, <2>3, <1>1, <1>4, <1>8 DEF Unlock
    <3>3. r.pc = me.next /\ r.locks = q.locks /\ r.e = me.e /\ r.op = me.op
        BY <3>1, <1>4, <1>5 DEF ThreadState
    <3>4. Regular(r) /\ HandInv(r, Hashed)
        BY <3>3, <1>1, <1>2, <1>3 DEF Regular, HandInv, Goal
    <3> QED
        BY <3>2, <3>3, <3>4, <1>3, <1>5, <1>6, <1>8
  <2> QED
      BY <2>2, <2>3
<1> QED
    BY <1>7, <1>8

\* Nothing is left of a list of one.
LEMMA LastOne ==
    ASSUME NEW S, NEW l \in Seq(S), Len(l) = 1
    PROVE  l # <<>> /\ Tail(l) = <<>> /\ ~(Len(l) > 1)
<1>1. l # <<>> /\ ~(Len(l) > 1)
    BY EmptySeq
<1>2. Tail(l) \in Seq(S) /\ Len(Tail(l)) = 0
    BY <1>1, HeadTailProperties
<1>3. Tail(l) = <<>>
    BY <1>2, EmptySeq
<1> QED
    BY <1>1, <1>3

\* processHash unlocks a slot.
LEMMA LeaveProbing ==
    ASSUME HashInv, HashInv', ProbingInv, NEW t \in Threads, Leave(t)
    PROVE  ProbingInv' /\ Hashed' = Hashed
<1>1. PICK me \in ThreadState : /\ me = th[t] /\ ThreadInv(me, key)
                                /\ Regular(me) /\ HandInv(me, Hashed)
    BY Mine DEF ProbingInv
<1>2. /\ me.pc = "leave" /\ key' = key /\ UNCHANGED lists
      /\ slot' = [slot EXCEPT ![me.start] = Head(me.locks)]
    BY <1>1 DEF Leave, At
<1>3. /\ me.locks \in Seq(Contents) /\ Len(me.locks) = 1 /\ me.op = "process" /\ me.e = None
    BY <1>1, <1>2 DEF ThreadInv, LocksAt, OpAt, ElementAt, ThreadState
<1>4. me.locks # <<>> /\ Tail(me.locks) = <<>> /\ ~(Len(me.locks) > 1)
    BY <1>3, LastOne
<1>5. ASSUME NEW r, th' = [th EXCEPT ![t] = r], r.locks = <<>>, r.pc \in {"idle", "visit"},
             Regular(r), RunInv(r, key), HandInv(r, Hashed)
      PROVE  ProbingInv' /\ Hashed' = Hashed
  <2>1. r \in ThreadState
      BY <1>5, MyState
  <2>2. RawSlots' = RawSlots /\ Entries' = Entries
      BY <2>1, <1>1, <1>2, <1>4, <1>5, ReleaseKeeps
  <2> QED
      BY <2>2, <1>2, <1>5, QuietStep
<1>6. CASE me.start = HashSize - 1
  <2>1. th' = [th EXCEPT ![t] = Idle] /\ Idle.locks = <<>> /\ Idle.pc = "idle"
      BY <1>1, <1>6, GoIdle DEF Leave
  <2> QED
      BY <2>1, <1>5, IdleProbing
<1>7. CASE me.start # HashSize - 1
  <2>1. PICK r : r = [me EXCEPT !.pc = "visit", !.start = me.start + 1, !.locks = <<>>]
      OBVIOUS
  <2>2. th' = [th EXCEPT ![t] = r]
      BY <2>1, <1>1, <1>7 DEF Leave
  <2>3. r.pc = "visit" /\ r.locks = <<>> /\ r.e = me.e /\ r.op = me.op
      BY <2>1 DEF ThreadState
  <2>4. Regular(r) /\ RunInv(r, key) /\ HandInv(r, Hashed)
      BY <2>3, <1>1, <1>3, HashedElements DEF Regular, RunInv, HandInv, Goal
  <2> QED
      BY <2>2, <2>3, <2>4, <1>5
<1> QED
    BY <1>6, <1>7

\* The value of the key found is read or written.
LEMMA FoundProbing ==
    ASSUME HashInv, HashInv', ProbingInv, NEW t \in Threads, Found(t)
    PROVE  ProbingInv' /\ Hashed' = Hashed
<1>1. PICK me \in ThreadState : /\ me = th[t] /\ Regular(me) /\ HandInv(me, Hashed)
    BY Mine DEF ProbingInv
<1>2. me.pc = "found" /\ slot' = slot /\ key' = key /\ UNCHANGED lists
    BY <1>1 DEF Found, At
<1>3. PICK l \in {"putBack", "unlink"} : l = IF me.op = "insert" THEN "putBack" ELSE "unlink"
    OBVIOUS
<1>4. PICK r : r = UnlockThen(t, me.locks, l)
    OBVIOUS
<1>5. th' = [th EXCEPT ![t] = r] /\ r \in ThreadState
  <2>1. th' = [th EXCEPT ![t] = r]
      BY <1>1, <1>3, <1>4 DEF Found
  <2> QED
      BY <2>1, MyState
<1>6. /\ r.pc = "unlock" /\ r.next = l /\ r.locks = me.locks /\ r.start = me.start
      /\ r.e = me.e /\ r.op = me.op
    BY <1>1, <1>4 DEF UnlockThen, ThreadState
<1>7. RawSlots' = RawSlots /\ Entries' = Entries
    BY <1>1, <1>2, <1>5, <1>6, KeptContents
<1>8. Regular(r) /\ RunInv(r, key) /\ HandInv(r, Hashed)
    BY <1>1, <1>2, <1>3, <1>6 DEF Regular, RunInv, HandInv, Goal
<1> QED
    BY <1>2, <1>5, <1>7, <1>8, QuietStep

\* A step on the lists.
LEMMA ListProbing ==
    ASSUME HashInv, HashInv', ProbingInv, NEW t \in Threads, NEW r, th' = [th EXCEPT ![t] = r],
           slot' = slot, key' = key, th[t].locks = <<>>, r.locks = <<>>,
           \A u \in Threads : Elems(lru'[u]) \subseteq Hashed /\ Elems(free'[u]) \cap Hashed = {},
           Regular(r), RunInv(r, key), HandInv(r, Hashed)
    PROVE  ProbingInv' /\ Hashed' = Hashed
<1>1. r \in ThreadState
    BY MyState
<1>2. RawSlots' = RawSlots /\ Entries' = Entries
    BY <1>1, KeptContents
<1>3. Hashed' = Hashed
    BY <1>2, HashedLemma, HashedNext
<1>4. UseInv'
    BY <1>3 DEF UseInv
<1> QED
    BY <1>2, <1>4, QuietStep

\* A call takes a free element.
LEMMA CallProbing ==
    ASSUME HashInv, PlaceInv, HashInv', ProbingInv, NEW t \in Threads,
           NEW o \in Ops \ {"process"}, o # "remove", NEW k \in Keys, NEW v, Call(t, o, k, v)
    PROVE  ProbingInv' /\ Hashed' = Hashed
<1>1. th[t] = Idle /\ lru' = lru /\ slot' = slot /\ key' = key /\ th[t].locks = <<>>
    BY Mine, GoIdle DEF Call, At, ThreadInv, OpAt
<1>2. free[t] # <<>> /\ free \in [Threads -> Seq(Elements)] /\ free[t] \in Seq(Elements)
  <2>1. None \notin Inserts
      BY MarkAssumption DEF Operations, Inserts
  <2> QED
      BY <2>1, <1>1, GoIdle, HasFree DEF HashInv, TableTypes
<1>3. /\ Elems(Tail(free[t])) \subseteq Elems(free[t])
      /\ Head(free[t]) \in Elems(free[t])
    BY <1>2, ElemsTail DEF PlaceInv
<1>4. \A u \in Threads : Elems(lru[u]) \subseteq Hashed /\ Elems(free[u]) \cap Hashed = {}
    BY DEF ProbingInv, UseInv
<1>5. PICK e : e = IF o \in {"insert", "insertOrSet"} THEN Head(free[t]) ELSE None
    OBVIOUS
<1>6. e \notin Hashed
    BY <1>3, <1>4, <1>5, HashedElements
<1>7. PICK r : r = [Idle EXCEPT !.pc = "probe", !.op = o, !.key = k, !.val = v,
                                !.start = Home[k], !.e = e]
    OBVIOUS
<1>8. th' = [th EXCEPT ![t] = r]
    BY <1>5, <1>7 DEF Call
<1>9. /\ r.pc = "probe" /\ r.op = o /\ r.key = k /\ r.start = Home[k] /\ r.e = e
      /\ r.locks = <<>> /\ Len(r.locks) = 0
    BY <1>7, GoIdle DEF ThreadState
<1>10. Home[k] \in Slots /\ Home[k] + 0 <= HashSize
    BY ParameterAssumption DEF Slots
<1>11. Regular(r) /\ RunInv(r, key) /\ HandInv(r, Hashed)
    BY <1>6, <1>9, <1>10 DEF Regular, RunInv, Passed, HandInv, Goal
<1>12. \A u \in Threads : free'[u] = free[u] \/ (u = t /\ free'[u] = Tail(free[t]))
    BY <1>2 DEF Call
<1>13. \A u \in Threads : Elems(lru'[u]) \subseteq Hashed /\ Elems(free'[u]) \cap Hashed = {}
    BY <1>1, <1>3, <1>4, <1>12
<1> QED
    BY <1>1, <1>8, <1>9, <1>11, <1>13, ListProbing

\* processHash begins.
LEMMA CallProcessProbing ==
    ASSUME HashInv, HashInv', ProbingInv, NEW t \in Threads, CallProcess(t)
    PROVE  ProbingInv' /\ Hashed' = Hashed
<1>1. th[t] = Idle /\ lru' = lru /\ free' = free /\ slot' = slot /\ key' = key /\ th[t].locks = <<>>
    BY Mine, GoIdle DEF CallProcess, At, ThreadInv, OpAt, lists
<1>2. PICK r : r = [Idle EXCEPT !.pc = "visit", !.op = "process"]
    OBVIOUS
<1>3. th' = [th EXCEPT ![t] = r]
    BY <1>2 DEF CallProcess
<1>4. r.pc = "visit" /\ r.op = "process" /\ r.e = None /\ r.locks = <<>>
    BY <1>2, GoIdle DEF ThreadState
<1>5. Regular(r) /\ RunInv(r, key) /\ HandInv(r, Hashed)
    BY <1>4, HashedElements DEF Regular, RunInv, HandInv, Goal
<1>6. \A u \in Threads : Elems(lru'[u]) \subseteq Hashed /\ Elems(free'[u]) \cap Hashed = {}
    BY <1>1 DEF ProbingInv, UseInv
<1> QED
    BY <1>1, <1>3, <1>4, <1>5, <1>6, ListProbing

\* Where an operation goes after it has moved the element found.
LEMMA TouchProbing ==
    ASSUME HashInv, ProbingInv, NEW t \in Threads, th[t].pc \in {"unlink", "relink"},
           NEW r, r = FinishTouch(th[t])
    PROVE  /\ Regular(r) /\ RunInv(r, key) /\ HandInv(r, Hashed)
           /\ r.locks = <<>> /\ th[t].locks = <<>>
<1>1. PICK me \in ThreadState : /\ me = th[t] /\ ThreadInv(me, key)
                                /\ Regular(me) /\ HandInv(me, Hashed)
    BY Mine DEF ProbingInv
<1>2. me.locks = <<>> /\ me.e \notin Hashed
    BY <1>1 DEF ThreadInv, LocksAt, HandInv, Goal
<1>3. CASE me.op = "insertOrSet"
  <2>1. r.pc = "putBack" /\ r.e = me.e /\ r.op = me.op /\ r.locks = me.locks
      BY <1>1, <1>3 DEF FinishTouch, ThreadState
  <2> QED
      BY <2>1, <1>1, <1>2, <1>3 DEF Regular, RunInv, HandInv, Goal
<1>4. CASE me.op # "insertOrSet"
    BY <1>1, <1>2, <1>4, IdleProbing, GoIdle DEF FinishTouch
<1> QED
    BY <1>3, <1>4

\* The element found is taken from the list it is in.
LEMMA UnlinkProbing ==
    ASSUME HashInv, PlaceInv, HashInv', ProbingInv, NEW t \in Threads, Unlink(t)
    PROVE  ProbingInv' /\ Hashed' = Hashed
<1>1. PICK me \in ThreadState : /\ me = th[t] /\ ThreadInv(me, key)
                                /\ Regular(me) /\ HandInv(me, Hashed)
    BY Mine DEF ProbingInv
<1>2. me.pc = "unlink" /\ free' = free /\ slot' = slot /\ key' = key /\ me.op # "remove"
    BY <1>1 DEF Unlink, At, Regular
<1>3. lru' = [o \in Threads |-> IF Unlinkable(lru[o], me.x)
                                THEN Unlinked(lru[o], me.x) ELSE lru[o]]
    BY <1>1 DEF Unlink
<1>4. lru \in [Threads -> Seq(Elements)]
    BY DEF HashInv, TableTypes
<1>5. \A u \in Threads : Elems(lru[u]) \subseteq Hashed /\ Elems(free[u]) \cap Hashed = {}
    BY DEF ProbingInv, UseInv
<1>6. ASSUME NEW u \in Threads, Unlinkable(lru[u], me.x)
      PROVE  Elems(Unlinked(lru[u], me.x)) \subseteq Hashed /\ me.x \in Hashed
  <2>1. /\ Elems(Unlinked(lru[u], me.x)) = Elems(lru[u]) \ {me.x}
        /\ me.x \in Elems(lru[u])
      BY <1>4, <1>6, ElemsUnlinked DEF PlaceInv
  <2> QED
      BY <2>1, <1>5
<1>7. \A u \in Threads : Elems(lru'[u]) \subseteq Hashed /\ Elems(free'[u]) \cap Hashed = {}
    BY <1>2, <1>3, <1>5, <1>6
<1>8. CASE \A o \in Threads : ~Unlinkable(lru[o], me.x)
  <2>1. PICK r : r = FinishTouch(me)
      OBVIOUS
  <2>2. th' = [th EXCEPT ![t] = r]
      BY <2>1, <1>1, <1>8 DEF Unlink
  <2>3. /\ Regular(r) /\ RunInv(r, key) /\ HandInv(r, Hashed)
        /\ r.locks = <<>> /\ th[t].locks = <<>>
      BY <2>1, <1>1, <1>2, TouchProbing
  <2> QED
      BY <2>2, <2>3, <1>2, <1>7, ListProbing
<1>9. CASE \E o \in Threads : Unlinkable(lru[o], me.x)
  <2>1. PICK r : r = [me EXCEPT !.pc = "relink"]
      OBVIOUS
  <2>2. th' = [th EXCEPT ![t] = r]
      BY <2>1, <1>1, <1>2, <1>9 DEF Unlink
  <2>3. /\ r.pc = "relink" /\ r.e = me.e /\ r.x = me.x /\ r.op = me.op /\ r.locks = me.locks
      BY <2>1 DEF ThreadState
  <2>4. me.locks = <<>>
      BY <1>1, <1>2 DEF ThreadInv, LocksAt
  <2>5. me.x \in Hashed
      BY <1>6, <1>9
  <2>6. Regular(r) /\ RunInv(r, key) /\ HandInv(r, Hashed)
      BY <2>3, <2>5, <1>1, <1>2 DEF Regular, RunInv, HandInv, Goal
  <2> QED
      BY <2>2, <2>3, <2>4, <2>6, <1>1, <1>2, <1>7, ListProbing
<1> QED
    BY <1>8, <1>9

\* linkHead puts an element of the hash into a list.
LEMMA LinkedProbing ==
    ASSUME HashInv, PlaceInv, ProbingInv, NEW t \in Threads, NEW x \in Hashed, x \in Elements,
           \A u \in Threads : x \notin Elems(lru[u]),
           lru' = [lru EXCEPT ![t] = <<x>> \o @], free' = free
    PROVE  \A u \in Threads : Elems(lru'[u]) \subseteq Hashed /\ Elems(free'[u]) \cap Hashed = {}
<1>1. \A u \in Threads : Elems(lru[u]) \subseteq Hashed /\ Elems(free[u]) \cap Hashed = {}
    BY DEF ProbingInv, UseInv
<1>2. lru \in [Threads -> Seq(Elements)]
    BY DEF HashInv, TableTypes
<1>3. Elems(<<x>> \o lru[t]) = Elems(lru[t]) \cup {x}
    BY <1>2, ElemsPrepend DEF PlaceInv
<1>4. \A u \in Threads : lru'[u] = IF u = t THEN <<x>> \o lru[t] ELSE lru[u]
    BY <1>2
<1> QED
    BY <1>1, <1>3, <1>4

\* What is in a thread's hands is in no list.
LEMMA HandNotListed ==
    ASSUME PlaceInv, NEW t \in Threads, NEW x \in HandOf(th[t]), NEW u \in Threads
    PROVE  x \notin Elems(lru[u]) /\ x \notin Elems(free[u])
<1>1. /\ PlaceOf(t, "hand") \cap PlaceOf(u, "lru") = {}
      /\ PlaceOf(t, "hand") \cap PlaceOf(u, "free") = {}
    BY DEF PlaceInv, Kinds
<1> QED
    BY <1>1 DEF PlaceOf

\* The element found is the youngest now.
LEMMA RelinkProbing ==
    ASSUME HashInv, PlaceInv, HashInv', ProbingInv, NEW t \in Threads, Relink(t)
    PROVE  ProbingInv' /\ Hashed' = Hashed
<1>1. PICK me \in ThreadState : /\ me = th[t] /\ ThreadInv(me, key)
                                /\ Regular(me) /\ HandInv(me, Hashed)
    BY Mine DEF ProbingInv
<1>2. me.pc = "relink" /\ free' = free /\ slot' = slot /\ key' = key
    BY <1>1 DEF Relink, At
<1>3. PICK x \in Hashed : x = me.x /\ x \in Elements /\ x # None
    BY <1>1, <1>2, HashedElements DEF HandInv
<1>4. x \in HandOf(th[t])
    BY <1>1, <1>2, <1>3 DEF HandOf
<1>5. lru' = [lru EXCEPT ![t] = <<x>> \o @]
    BY <1>1, <1>3 DEF Relink
<1>6. \A u \in Threads : Elems(lru'[u]) \subseteq Hashed /\ Elems(free'[u]) \cap Hashed = {}
  <2>1. \A u \in Threads : x \notin Elems(lru[u])
      BY <1>4, HandNotListed
  <2> QED
      BY <2>1, <1>2, <1>3, <1>5, LinkedProbing
<1>7. PICK r : r = FinishTouch(th[t])
    OBVIOUS
<1>8. th' = [th EXCEPT ![t] = r]
    BY <1>7 DEF Relink
<1>9. /\ Regular(r) /\ RunInv(r, key) /\ HandInv(r, Hashed)
      /\ r.locks = <<>> /\ th[t].locks = <<>>
    BY <1>1, <1>2, <1>7, TouchProbing
<1> QED
    BY <1>2, <1>6, <1>8, <1>9, ListProbing

\* The element in the thread's hands becomes free.
LEMMA PutBackProbing ==
    ASSUME HashInv, PlaceInv, HashInv', ProbingInv, NEW t \in Threads, PutBack(t)
    PROVE  ProbingInv' /\ Hashed' = Hashed
<1>1. PICK me \in ThreadState : /\ me = th[t] /\ ThreadInv(me, key)
                                /\ Regular(me) /\ HandInv(me, Hashed)
    BY Mine DEF ProbingInv
<1>2. me.pc = "putBack" /\ lru' = lru /\ slot' = slot /\ key' = key
    BY <1>1 DEF PutBack, At
<1>3. me.locks = <<>> /\ me.e \notin Hashed /\ me.e # None
    BY <1>1, <1>2 DEF ThreadInv, LocksAt, ElementAt, HandInv, Goal
<1>4. PICK x \in Elements : x = me.e
    BY <1>3 DEF ThreadState
<1>5. x \in HandOf(th[t])
    BY <1>1, <1>2, <1>3, <1>4 DEF HandOf
<1>6. free \in [Threads -> Seq(Elements)]
    BY DEF HashInv, TableTypes
<1>7. Elems(<<x>> \o free[t]) = Elems(free[t]) \cup {x}
  <2>1. x \notin Elems(free[t]) /\ Distinct(free[t])
      BY <1>5, HandNotListed DEF PlaceInv
  <2> QED
      BY <2>1, <1>6, ElemsPrepend
<1>8. \A u \in Threads : free'[u] = IF u = t THEN <<x>> \o free[t] ELSE free[u]
    BY <1>1, <1>4, <1>6 DEF PutBack
<1>9. \A u \in Threads : Elems(lru'[u]) \subseteq Hashed /\ Elems(free'[u]) \cap Hashed = {}
    BY <1>2, <1>3, <1>4, <1>7, <1>8 DEF ProbingInv, UseInv
<1>10. th' = [th EXCEPT ![t] = Idle]
    BY DEF PutBack
<1> QED
    BY <1>1, <1>2, <1>3, <1>9, <1>10, IdleProbing, GoIdle, ListProbing

\* The new element is the youngest.
LEMMA LinkProbing ==
    ASSUME HashInv, PlaceInv, HashInv', ProbingInv, NEW t \in Threads, Link(t)
    PROVE  ProbingInv' /\ Hashed' = Hashed
<1>1. PICK me \in ThreadState : /\ me = th[t] /\ ThreadInv(me, key)
                                /\ Regular(me) /\ HandInv(me, Hashed)
    BY Mine DEF ProbingInv
<1>2. me.pc = "link" /\ free' = free /\ slot' = slot /\ key' = key /\ me.locks = <<>>
    BY <1>1 DEF Link, At, ThreadInv, LocksAt
<1>3. PICK x \in Hashed : x = me.e /\ x \in Elements /\ x # None
    BY <1>1, <1>2, HashedElements DEF HandInv, Goal
<1>4. x \in HandOf(th[t])
    BY <1>1, <1>2, <1>3 DEF HandOf
<1>5. lru' = [lru EXCEPT ![t] = <<x>> \o @]
    BY <1>1, <1>3 DEF Link
<1>6. \A u \in Threads : Elems(lru'[u]) \subseteq Hashed /\ Elems(free'[u]) \cap Hashed = {}
  <2>1. \A u \in Threads : x \notin Elems(lru[u])
      BY <1>4, HandNotListed
  <2> QED
      BY <2>1, <1>2, <1>3, <1>5, LinkedProbing
<1>7. CASE free[t] # <<>>
  <2>1. th' = [th EXCEPT ![t] = Idle]
      BY <1>7 DEF Link
  <2> QED
      BY <2>1, <1>1, <1>2, <1>6, IdleProbing, GoIdle, ListProbing
<1>8. CASE free[t] = <<>>
  <2>1. PICK r : r = [me EXCEPT !.pc = "evict"]
      OBVIOUS
  <2>2. th' = [th EXCEPT ![t] = r]
      BY <2>1, <1>1, <1>8 DEF Link
  <2>3. r.pc = "evict" /\ r.e = me.e /\ r.op = me.op /\ r.locks = me.locks
      BY <2>1 DEF ThreadState
  <2>4. Regular(r) /\ RunInv(r, key) /\ HandInv(r, Hashed)
      BY <2>3, <1>1 DEF Regular, RunInv, HandInv, Goal
  <2> QED
      BY <2>2, <2>3, <2>4, <1>1, <1>2, <1>6, ListProbing
<1> QED
    BY <1>7, <1>8

\* The oldest element of the list is taken out, to be looked for in the hash.
LEMMA EvictProbing ==
    ASSUME HashInv, PlaceInv, HashInv', ProbingInv, NEW t \in Threads, Evict(t)
    PROVE  ProbingInv' /\ Hashed' = Hashed
<1>1. PICK me \in ThreadState : /\ me = th[t] /\ ThreadInv(me, key) /\ Regular(me)
    BY Mine DEF ProbingInv
<1>2. me.pc = "evict" /\ free' = free /\ slot' = slot /\ key' = key /\ me.locks = <<>>
    BY <1>1 DEF Evict, At, ThreadInv, LocksAt
<1>3. lru \in [Threads -> Seq(Elements)] /\ lru[t] # <<>>
    BY <1>1, <1>2 DEF HashInv, TableTypes, ListInv, At
<1>4. PICK x : x = Last(lru[t])
    OBVIOUS
<1>5. Elems(Front(lru[t])) = Elems(lru[t]) \ {x} /\ x \in Elems(lru[t])
    BY <1>3, <1>4, ElemsFront DEF PlaceInv
<1>6. \A u \in Threads : Elems(lru[u]) \subseteq Hashed /\ Elems(free[u]) \cap Hashed = {}
    BY DEF ProbingInv, UseInv
<1>7. \A u \in Threads : lru'[u] = IF u = t THEN Front(lru[t]) ELSE lru[u]
    BY <1>3 DEF Evict
<1>8. \A u \in Threads : Elems(lru'[u]) \subseteq Hashed /\ Elems(free'[u]) \cap Hashed = {}
    BY <1>2, <1>5, <1>6, <1>7
<1>9. x \in Hashed /\ key[x] \in Keys /\ Home[key[x]] \in Slots
  <2>1. x \in Hashed
      BY <1>5, <1>6
  <2>2. key[x] \in Keys
      BY <2>1, HashedLemma DEF ProbingInv, Probing
  <2> QED
      BY <2>1, <2>2, ParameterAssumption
<1>10. PICK r : r = [Idle EXCEPT !.pc = "find", !.op = me.op, !.e = x, !.start = Home[key[x]]]
    OBVIOUS
<1>11. th' = [th EXCEPT ![t] = r]
    BY <1>1, <1>4, <1>10 DEF Evict
<1>12. /\ r.pc = "find" /\ r.op = me.op /\ r.e = x /\ r.start = Home[key[x]]
       /\ r.locks = <<>> /\ Len(r.locks) = 0
    BY <1>10, GoIdle DEF ThreadState
<1>13. Home[key[x]] + 0 <= HashSize
    BY <1>9, SizePositive DEF Slots
<1>14. Regular(r) /\ RunInv(r, key) /\ HandInv(r, Hashed)
    BY <1>1, <1>9, <1>12, <1>13 DEF Regular, RunInv, Passed, HandInv, Goal
<1> QED
    BY <1>1, <1>2, <1>8, <1>11, <1>12, <1>14, ListProbing

-----------------------------------------------------------------------------
(* Steps that change the contents *)

\* The invariant after a step in which thread t goes to state r.
LEMMA ChangeStep ==
    ASSUME HashInv, HashInv', ProbingInv, NEW t \in Threads, NEW r, th' = [th EXCEPT ![t] = r],
           Probing(RawSlots', Entries', key'), UseInv',
           Regular(r), RunInv(r, key'), HandInv(r, Hashed'),
           \A u \in Threads : u # t => RunInv(th[u], key') /\ HandInv(th[u], Hashed')
    PROVE  ProbingInv'
<1>1. th'[t] = r /\ \A u \in Threads : u # t => th'[u] = th[u]
    BY MyState
<1>2. ASSUME NEW u \in Threads
      PROVE  Regular(th'[u]) /\ RunInv(th'[u], key') /\ HandInv(th'[u], Hashed')
  <2>1. CASE u = t
      BY <2>1, <1>1
  <2>2. CASE u # t
      BY <2>2, <1>1 DEF ProbingInv
  <2> QED
      BY <2>1, <2>2
<1> QED
    BY <1>2 DEF ProbingInv

\* The element in another thread's hands stays in the hash or outside.
LEMMA OthersHands ==
    ASSUME HashInv, PlaceInv, ProbingInv, NEW t \in Threads, NEW e \in HandOf(th[t]),
           e \in Elements, NEW hashed, \A x : x # e => (x \in hashed <=> x \in Hashed),
           NEW u \in Threads, u # t
    PROVE  HandInv(th[u], hashed)
<1>1. PICK r \in ThreadState : r = th[u] /\ ThreadInv(r, key) /\ HandInv(r, Hashed)
    BY Mine DEF ProbingInv
<1>2. e \notin HandOf(r)
  <2>1. PlaceOf(t, "hand") \cap PlaceOf(u, "hand") = {}
      BY DEF PlaceInv, Kinds
  <2> QED
      BY <2>1, <1>1 DEF PlaceOf
<1>3. e # None
    BY MarkAssumption
<1>4. Goal(r) # "evict" => r.pc # "evict"
    BY DEF Goal
<1>5. Goal(r) # "evict" => r.e # e
    BY <1>2, <1>3, <1>4 DEF HandOf
<1>6. r.pc = "relink" => r.x # e
    BY <1>2, <1>3 DEF HandOf
<1> QED
    BY <1>1, <1>5, <1>6 DEF HandInv

\* What another thread knows about its slots does not depend on the key of an
\* element that is not in the hash.
LEMMA OthersRuns ==
    ASSUME HashInv, PlaceInv, ProbingInv, NEW t \in Threads, NEW e \in HandOf(th[t]),
           e \in Elements, e \notin Hashed, NEW keys, \A x \in Elements : x # e => keys[x] = key[x],
           NEW u \in Threads, u # t
    PROVE  RunInv(th[u], keys)
<1>1. PICK r \in ThreadState : r = th[u] /\ ThreadInv(r, key) /\ RunInv(r, key)
    BY Mine DEF ProbingInv
<1>2. e \notin HandOf(r) /\ e # None
  <2>1. PlaceOf(t, "hand") \cap PlaceOf(u, "hand") = {}
      BY DEF PlaceInv, Kinds
  <2> QED
      BY <2>1, <1>1, MarkAssumption DEF PlaceOf
<1>3. r.pc = "find" => r.e # e /\ r.e \in Elements
    BY <1>1, <1>2 DEF HandOf, ThreadInv, OpAt, ElementAt, Goal, ThreadState
<1>4. ASSUME NEW i \in 1 .. Len(r.locks), ~IsHoleAt(r, i), r.locks[i] # FREE
      PROVE  r.locks[i] # e /\ r.locks[i] \in Elements
  <2>1. Entries[Nth(r, i)] = r.locks[i] /\ Nth(r, i) \in Slots
    <3>1. i \in Nat /\ i \in 1 .. Len(th[u].locks)
        BY <1>1
    <3> QED
        BY <3>1, <1>1, <1>4, SlotContents, RunSlots DEF SlotFacts
  <2>2. r.locks[i] \in Hashed
      BY <2>1, <1>4, HashedLemma
  <2> QED
      BY <2>2, HashedElements
<1>5. r.pc = "probe" => Passed(r, Len(r.locks), r.key, keys)
    BY <1>1, <1>4 DEF RunInv, Passed, IsHoleAt
<1>6. r.pc = "fill" => Passed(r, Len(r.locks) - 1, r.key, keys)
  <2> SUFFICES ASSUME r.pc = "fill", NEW i \in 1 .. Len(r.locks) - 1
               PROVE  r.locks[i] # FREE /\ keys[r.locks[i]] # r.key
      BY DEF Passed
  <2>1. Len(r.locks) \in Nat
      BY DEF ThreadState
  <2>2. i \in 1 .. Len(r.locks)
      BY <2>1
  <2>3. r.locks[i] # FREE /\ key[r.locks[i]] # r.key
      BY <1>1 DEF RunInv, Passed
  <2>4. ~IsHoleAt(r, i)
      BY DEF IsHoleAt
  <2> QED
      BY <2>2, <2>3, <2>4, <1>4
<1>7. r.pc = "find" => keys[r.e] = key[r.e] /\ Passed(r, Len(r.locks), keys[r.e], keys)
    BY <1>1, <1>3, <1>4 DEF RunInv, Passed, IsHoleAt
<1>8. r.pc = "shift" => \A i \in r.del + 1 .. Len(r.locks) :
                          Home[keys[r.locks[i]]] > r.start + r.del - 1
  <2> SUFFICES ASSUME r.pc = "shift", NEW i \in r.del + 1 .. Len(r.locks)
               PROVE  Home[keys[r.locks[i]]] > r.start + r.del - 1
      OBVIOUS
  <2>1. r.del \in Nat /\ Len(r.locks) \in Nat
      BY DEF ThreadState
  <2>2. i \in 1 .. Len(r.locks) /\ i # r.del
      BY <2>1
  <2>3. r.locks[i] # e /\ r.locks[i] \in Elements
      BY <2>2, <1>1, <1>4 DEF RunInv, IsHoleAt
  <2>4. keys[r.locks[i]] = key[r.locks[i]]
      BY <2>3
  <2>5. Home[key[r.locks[i]]] > r.start + r.del - 1
      BY <1>1 DEF RunInv
  <2> QED
      BY <2>4, <2>5
<1>9. RunInv(r, keys)
    BY <1>1, <1>5, <1>6, <1>7, <1>8 DEF RunInv
<1> QED
    BY <1>1, <1>9

\* The lists after an element in a thread's hands comes or goes.
LEMMA OthersLists ==
    ASSUME HashInv, PlaceInv, ProbingInv, NEW t \in Threads, NEW e \in HandOf(th[t]),
           \A x : x # e => (x \in Hashed' <=> x \in Hashed), UNCHANGED lists
    PROVE  UseInv'
<1>1. ASSUME NEW u \in Threads
      PROVE  Elems(lru'[u]) \subseteq Hashed' /\ Elems(free'[u]) \cap Hashed' = {}
  <2>1. e \notin Elems(lru[u]) /\ e \notin Elems(free[u])
      BY HandNotListed
  <2> QED
      BY <2>1 DEF lists, ProbingInv, UseInv
<1> QED
    BY <1>1 DEF UseInv

\* Putting an element at the end of the locks.
LEMMA FilledLocks ==
    ASSUME NEW locks \in Seq(Contents), locks # <<>>, NEW e \in Contents, NEW n \in Nat, n = Len(locks)
    PROVE  /\ n > 0 /\ Len(Append(Front(locks), e)) = n
           /\ Append(Front(locks), e)[n] = e
           /\ \A i \in 1 .. n - 1 : Append(Front(locks), e)[i] = locks[i]
<1>1. n > 0
    OBVIOUS
<1>2. PICK q : q = Front(locks)
    OBVIOUS
<1>3. q \in Seq(Contents) /\ Len(q) = n - 1 /\ \A i \in 1 .. n - 1 : q[i] = locks[i]
    BY <1>1, <1>2 DEF Front
<1> QED
    BY <1>1, <1>2, <1>3

\* The new element is put into the free slot.
LEMMA FillProbing ==
    ASSUME HashInv, PlaceInv, HashInv', StepFits, ProbingInv, NEW t \in Threads, Fill(t)
    PROVE  ProbingInv' /\ Hashed' = Hashed \cup {th[t].e} /\ th[t].e \notin Hashed
<1>1. PICK me \in ThreadState : /\ me = th[t] /\ ThreadInv(me, key) /\ Regular(me)
                                /\ RunInv(me, key) /\ HandInv(me, Hashed)
    BY Mine DEF ProbingInv
<1>2. /\ me.pc = "fill" /\ slot' = slot /\ UNCHANGED lists
      /\ key' = [key EXCEPT ![me.e] = me.key]
    BY <1>1 DEF Fill, At
<1>3. /\ me.locks # <<>> /\ me.locks \in Seq(Contents) /\ me.start \in Slots
      /\ me.op \in Inserts /\ me.e # None /\ me.e \in Elements
      /\ me.key \in Keys /\ me.e \notin Hashed
    BY <1>1, <1>2 DEF ThreadInv, LocksAt, OpAt, ElementAt, HandInv, Goal, ThreadState
<1>4. PICK n \in Nat, a \in Slots, e \in Elements, k \in Keys :
          n = Len(me.locks) /\ a = me.start /\ e = me.e /\ k = me.key
    BY <1>3
<1>5. /\ a = Home[k] /\ a + n - 1 <= HashSize /\ me.locks[n] = FREE
      /\ \A i \in 1 .. n - 1 : me.locks[i] # FREE /\ key[me.locks[i]] # k
    BY <1>1, <1>2, <1>4 DEF RunInv, Passed
<1>6. PICK w : w = Append(Front(me.locks), e)
    OBVIOUS
<1>7. n > 0 /\ Len(w) = n /\ w[n] = e /\ \A i \in 1 .. n - 1 : w[i] = me.locks[i]
    BY <1>3, <1>4, <1>6, FilledLocks DEF Contents
<1>8. PICK r : r = UnlockThen(t, w, "link")
    OBVIOUS
<1>9. th' = [th EXCEPT ![t] = r] /\ r \in ThreadState /\ th'[t] = r
  <2>1. th' = [th EXCEPT ![t] = r]
      BY <1>1, <1>4, <1>6, <1>8 DEF Fill
  <2> QED
      BY <2>1, MyState
<1>10. /\ r.pc = "unlock" /\ r.next = "link" /\ r.locks = w /\ r.start = a
       /\ r.e = e /\ r.op = me.op
    BY <1>1, <1>4, <1>8 DEF UnlockThen, ThreadState
<1>11. \A i : Nth(r, i) = Nth(me, i) /\ ~IsHoleAt(r, i) /\ ~IsHoleAt(me, i)
    BY <1>2, <1>4, <1>10 DEF Nth, IsHoleAt
<1>12. HeldBy(r) = HeldBy(me)
    BY <1>4, <1>7, <1>10 DEF HeldBy
<1>13. \A i \in 1 .. n : /\ RawSlots[Nth(me, i)] = me.locks[i] /\ Entries[Nth(me, i)] = me.locks[i]
                         /\ RawSlots'[Nth(me, i)] = w[i] /\ Entries'[Nth(me, i)] = w[i]
  <2>1. \A i \in 1 .. Len(th[t].locks) : /\ RawSlots[Nth(th[t], i)] = th[t].locks[i]
                                         /\ Entries[Nth(th[t], i)] = th[t].locks[i]
      BY <1>1, <1>11, SlotContents DEF SlotFacts
  <2>2. \A i \in 1 .. Len(th'[t].locks) : /\ RawSlots'[Nth(th'[t], i)] = th'[t].locks[i]
                                          /\ Entries'[Nth(th'[t], i)] = th'[t].locks[i]
      BY <1>9, <1>11, SlotContentsNext DEF SlotFacts
  <2> QED
      BY <2>1, <2>2, <1>1, <1>4, <1>7, <1>9, <1>10, <1>11
<1>14. a \in Nat /\ a < HashSize /\ HashSize \in Nat
    BY SizePositive DEF Slots
<1>15. e # FREE
    BY MarkAssumption
<1>16. a + n - 1 < HashSize
  <2> SUFFICES ASSUME ~(a + n - 1 < HashSize) PROVE FALSE
      OBVIOUS
  <2>1. a + n - 1 = HashSize /\ n - 1 \in 1 .. n - 1 /\ n - 1 \in 1 .. n /\ n \in 1 .. n
      BY <1>5, <1>7, <1>14
  <2>2. a + (n - 1) - 1 = HashSize - 1
      BY <2>1, <1>14
  <2>3. Nth(me, n) = 0 /\ Nth(me, n - 1) = HashSize - 1
    <3>1. HashSize % HashSize = 0 /\ (HashSize - 1) % HashSize = HashSize - 1
        BY SizePositive
    <3> QED
        BY <3>1, <2>1, <2>2, <1>4 DEF Nth
  <2>4. /\ RawSlots'[0] = e /\ RawSlots'[HashSize - 1] # FREE
        /\ RawSlots[HashSize - 1] # FREE
      BY <2>1, <2>3, <1>5, <1>7, <1>13
  <2>5. 0 \in Slots /\ HashSize - 1 \in Slots
      BY SizePositive DEF Slots
  <2> QED
      BY <2>4, <2>5, <1>15 DEF StepFits, NoClusterWraps, RawSlots
<1>17. PICK z \in Slots : z = a + n - 1
    BY <1>7, <1>14, <1>16 DEF Slots
<1>18. \A i \in 1 .. n : Nth(me, i) = a + i - 1
  <2>1. \A i \in 1 .. n : a + i - 1 \in 0 .. HashSize - 1
      BY <1>14, <1>16
  <2>2. \A i \in 1 .. n : (a + i - 1) % HashSize = a + i - 1
      BY <2>1, SizePositive
  <2> QED
      BY <2>2, <1>4 DEF Nth
<1>19. Nth(me, n) = z /\ n \in 1 .. n
    BY <1>7, <1>17, <1>18
<1>20. ASSUME NEW s \in Slots
       PROVE  /\ RawSlots'[s] = IF s = z THEN e ELSE RawSlots[s]
              /\ Entries'[s] = IF s = z THEN e ELSE Entries[s]
  <2>1. CASE s = z
      BY <2>1, <1>7, <1>13, <1>19
  <2>2. CASE s # z /\ s \in HeldBy(me)
    <3>1. PICK i \in 1 .. n : s = Nth(me, i)
        BY <2>2, <1>1, <1>4, RunSlots
    <3>2. i \in 1 .. n - 1
        BY <3>1, <2>2, <1>19
    <3> QED
        BY <3>1, <3>2, <2>2, <1>7, <1>13
  <2>3. CASE s # z /\ s \notin HeldBy(me)
      BY <2>3, <1>1, <1>2, <1>9, <1>12, OtherSlots
  <2> QED
      BY <2>1, <2>2, <2>3
<1>21. ASSUME NEW d \in Home[k] .. z - 1 PROVE RawSlots[d] # FREE /\ key[RawSlots[d]] # k
  <2>1. d - a + 1 \in 1 .. n - 1 /\ a + (d - a + 1) - 1 = d
      BY <1>5, <1>14, <1>17
  <2>2. d - a + 1 \in 1 .. n
      BY <2>1
  <2>3. RawSlots[d] = me.locks[d - a + 1]
      BY <2>1, <2>2, <1>13, <1>18
  <2> QED
      BY <2>1, <2>3, <1>5
<1>22. RawSlots[z] = FREE /\ Entries[z] = FREE
    BY <1>5, <1>13, <1>19
<1>23. \A s \in Slots : Entries[s] # e
    BY <1>3, <1>4, <1>15, HashedLemma
<1>24. \A x \in Elements : key'[x] = IF x = e THEN k ELSE key[x]
    BY <1>2, <1>4 DEF HashInv, TableTypes
<1>25. Home[k] <= z
    BY <1>5, <1>7, <1>14, <1>17
<1>26. Probing(RawSlots', Entries', key')
  <2>1. Probing(RawSlots, Entries, key)
      BY DEF ProbingInv
  <2> QED
      BY <2>1, <1>20, <1>21, <1>22, <1>23, <1>24, <1>25, FillCore
<1>27. \A x : x # e => (x \in Hashed' <=> x \in Hashed)
  <2>1. \A s \in Slots : Entries'[s] = IF s = z THEN e ELSE Entries[s]
      BY <1>20
  <2> QED
      BY <2>1, <1>22, HashedLemma, HashedNext
<1>28. e \in Hashed'
    BY <1>15, <1>20, HashedNext
<1>29. e \in HandOf(th[t])
    BY <1>1, <1>2, <1>3, <1>4 DEF HandOf
<1>30. \A x \in Elements : x # e => key'[x] = key[x]
    BY <1>24
<1>31. ASSUME NEW u \in Threads, u # t PROVE RunInv(th[u], key') /\ HandInv(th[u], Hashed')
  <2>1. HandInv(th[u], Hashed')
      BY <1>27, <1>29, <1>31, OthersHands
  <2>2. e \notin Hashed
      BY <1>3, <1>4
  <2>3. RunInv(th[u], key')
      BY <2>2, <1>29, <1>30, <1>31, OthersRuns
  <2> QED
      BY <2>1, <2>3
<1>32. UseInv'
    BY <1>2, <1>27, <1>29, OthersLists
<1>33. Regular(r) /\ RunInv(r, key') /\ HandInv(r, Hashed')
    BY <1>1, <1>10, <1>28 DEF Regular, RunInv, HandInv, Goal
<1>34. ProbingInv'
    BY <1>9, <1>26, <1>31, <1>32, <1>33, ChangeStep
<1>35. Hashed' = Hashed \cup {e}
    BY <1>27, <1>28
<1> QED
    BY <1>1, <1>3, <1>4, <1>34, <1>35

\* Looking for the evicted element's key, the thread comes to it before it comes
\* to a free slot or to the end of the array.
LEMMA FindProbing ==
    ASSUME HashInv, PlaceInv, HashInv', NoClusterWraps, StepFits, ProbingInv,
           NEW t \in Threads, Find(t)
    PROVE  /\ ProbingInv'
           /\ \/ Hashed' = Hashed
              \/ th[t].e \in Hashed /\ Hashed' = Hashed \ {th[t].e}
<1>1. PICK me \in ThreadState : /\ me = th[t] /\ ThreadInv(me, key) /\ Regular(me)
                                /\ RunInv(me, key) /\ HandInv(me, Hashed)
    BY Mine DEF ProbingInv
<1>2. me.pc = "find" /\ LockNext(t) /\ key' = key /\ UNCHANGED lists
    BY <1>1 DEF Find, At
<1>3. PICK n \in Nat, z \in Slots, locks \in Seq(Contents), c \in Contents :
          /\ n = Len(me.locks) /\ z = (me.start + n) % HashSize /\ slot[z] # LOCK
          /\ z = Nth(me, n + 1)
          /\ locks = Locked(t) /\ Len(locks) = n + 1 /\ c = slot[z]
          /\ locks[n + 1] = c /\ Last(locks) = c /\ \A i \in 1 .. n : locks[i] = me.locks[i]
    BY <1>1, <1>2, LockedLemma
<1>4. PICK a \in Slots, e \in Elements : a = me.start /\ e = me.e /\ e \in Hashed
    BY <1>1, <1>2, HashedElements DEF HandInv, Goal, ThreadState
<1>5. /\ a = Home[key[e]] /\ a + n <= HashSize
      /\ \A i \in 1 .. n : me.locks[i] # FREE /\ key[me.locks[i]] # key[e]
    BY <1>1, <1>2, <1>3, <1>4 DEF RunInv, Passed
<1>6. a \in Nat /\ a < HashSize /\ HashSize \in Nat
    BY SizePositive DEF Slots
<1>7. Probing(RawSlots, Entries, key) /\ SlotFacts
    BY SlotContents DEF ProbingInv
<1>8. PICK y \in Slots : Entries[y] = e /\ e # FREE
    BY <1>4, HashedLemma, MarkAssumption
<1>9. /\ RawSlots[y] = e /\ a <= y /\ \A d \in a .. y : RawSlots[d] # FREE
    BY <1>5, <1>7, <1>8 DEF Probing
<1>10. /\ a + n < HashSize => z = a + n
       /\ \A i \in 1 .. n : Nth(me, i) = a + i - 1
  <2>1. /\ n = Len(th[t].locks) /\ z = (th[t].start + n) % HashSize /\ slot[z] # LOCK
        /\ th[t].start + n <= HashSize /\ \A i \in 1 .. n : th[t].locks[i] # FREE
      BY <1>1, <1>3, <1>4, <1>5
  <2>2. /\ th[t].start + n < HashSize => z = th[t].start + n
        /\ \A i \in 1 .. n : Nth(th[t], i) = th[t].start + i - 1
      BY <2>1, NoWrap
  <2> QED
      BY <2>2, <1>1, <1>4
<1>11. a + n <= y
  <2> SUFFICES ASSUME ~(a + n <= y) PROVE FALSE
      OBVIOUS
  <2>1. y - a + 1 \in 1 .. n /\ a + (y - a + 1) - 1 = y
      BY <1>6, <1>9 DEF Slots
  <2>2. Nth(th[t], y - a + 1) = y /\ y - a + 1 \in 1 .. Len(th[t].locks)
      BY <2>1, <1>1, <1>3, <1>10
  <2>3. RawSlots[y] = me.locks[y - a + 1]
      BY <2>2, <1>1, <1>7 DEF SlotFacts
  <2> QED
      BY <2>1, <2>3, <1>5, <1>9
<1>12. a + n < HashSize /\ z = a + n
  <2>1. a + n < HashSize
      BY <1>6, <1>11 DEF Slots
  <2> QED
      BY <2>1, <1>10
<1>13. RawSlots[z] = c /\ Entries[z] = c
    BY <1>3, <1>7 DEF SlotFacts
<1>14. c # FREE
  <2>1. z \in a .. y
      BY <1>6, <1>11, <1>12 DEF Slots
  <2> QED
      BY <2>1, <1>9, <1>13
<1>15. a + (n + 1) <= HashSize
    BY <1>6, <1>12
<1>16. CASE key[c] # key[e]
  <2>1. PICK r : r = [me EXCEPT !.pc = Advance(locks, "find"), !.locks = locks]
      OBVIOUS
  <2>2. th' = [th EXCEPT ![t] = r]
      BY <2>1, <1>1, <1>3, <1>4, <1>14, <1>16 DEF Find
  <2>3. /\ r.pc = Advance(locks, "find") /\ r.locks = locks /\ r.start = a
        /\ r.e = e /\ r.op = me.op /\ r \in ThreadState /\ th'[t] = r
      BY <2>1, <2>2, <1>4, MyState DEF ThreadState
  <2>4. r.pc = "find"
    <3>1. /\ th[t].pc \in Growing /\ Len(th'[t].locks) = Len(th[t].locks) + 1
          /\ th'[t].locks = locks
        BY <2>3, <1>1, <1>2, <1>3 DEF Growing
    <3>2. \A label : Advance(locks, label) = label
        BY <3>1, NotTooDeep
    <3> QED
        BY <3>2, <2>3
  <2>5. RunInv(r, key)
    <3>1. \A i \in 1 .. n + 1 : i \in 1 .. n \/ i = n + 1
        OBVIOUS
    <3>2. Passed(r, n + 1, key[r.e], key)
        BY <3>1, <2>3, <1>3, <1>5, <1>14, <1>16 DEF Passed
    <3> QED
        BY <3>2, <2>3, <2>4, <1>3, <1>5, <1>15 DEF RunInv
  <2>6. Regular(r) /\ HandInv(r, Hashed)
      BY <2>3, <2>4, <1>1, <1>4 DEF Regular, HandInv, Goal
  <2>7. RawSlots' = RawSlots /\ Entries' = Entries
      BY <2>2, <2>3, <2>4, <1>1, <1>2, <1>3, <1>4, LockKeeps
  <2> QED
      BY <2>2, <2>5, <2>6, <2>7, <1>2, QuietStep
<1>17. CASE key[c] = key[e]
  <2>1. PICK r : r = [me EXCEPT !.pc = Advance(locks, "shift"), !.locks = locks, !.del = n + 1]
      OBVIOUS
  <2>2. th' = [th EXCEPT ![t] = r]
      BY <2>1, <1>1, <1>3, <1>4, <1>14, <1>17 DEF Find
  <2>3. /\ r.pc = Advance(locks, "shift") /\ r.locks = locks /\ r.start = a /\ r.del = n + 1
        /\ r.e = e /\ r.op = me.op /\ r \in ThreadState /\ th'[t] = r
      BY <2>1, <2>2, <1>4, MyState DEF ThreadState
  <2>4. r.pc = "shift"
    <3>1. /\ th[t].pc \in Growing /\ Len(th'[t].locks) = Len(th[t].locks) + 1
          /\ th'[t].locks = locks
        BY <2>3, <1>1, <1>2, <1>3 DEF Growing
    <3>2. \A label : Advance(locks, label) = label
        BY <3>1, NotTooDeep
    <3> QED
        BY <3>2, <2>3
  <2>5. z = y /\ c = e
    <3>1. z = y
        BY <1>7, <1>8, <1>13, <1>14, <1>17 DEF Probing
    <3> QED
        BY <3>1, <1>8, <1>13
  <2>6. RunInv(r, key)
    <3>1. \A i \in 1 .. n + 1 : i \in 1 .. n \/ i = n + 1
        OBVIOUS
    <3>2. \A i \in 1 .. n + 1 : locks[i] # FREE
        BY <3>1, <1>3, <1>5, <1>14
    <3>3. \A i \in (n + 1) + 1 .. n + 1 : FALSE
        OBVIOUS
    <3>4. \E k \in Keys : a = Home[k]
        BY <1>5, <1>7, <1>8 DEF Probing
    <3> QED
        BY <3>2, <3>3, <3>4, <2>3, <2>4, <1>3, <1>15 DEF RunInv
  <2>7. ASSUME NEW s \in Slots
        PROVE  /\ RawSlots'[s] = RawSlots[s]
               /\ Entries'[s] = IF s = z THEN FREE ELSE Entries[s]
    <3>1. /\ \A i \in 1 .. n :
                 /\ RawSlots[Nth(me, i)] = me.locks[i] /\ Entries[Nth(me, i)] = me.locks[i]
                 /\ RawSlots'[Nth(me, i)] = locks[i] /\ Entries'[Nth(me, i)] = locks[i]
          /\ RawSlots'[z] = c /\ Entries'[z] = FREE
          /\ \A x \in Slots : \/ \E i \in 1 .. n + 1 : x = Nth(me, i)
                              \/ RawSlots'[x] = RawSlots[x] /\ Entries'[x] = Entries[x]
      <4>1. \A i \in 1 .. n : i \in 1 .. n + 1 /\ ~IsHoleAt(me, i) /\ ~IsHoleAt(r, i)
          BY <2>3, <2>4, <1>2 DEF IsHoleAt
      <4>2. n + 1 \in 1 .. n + 1 /\ IsHoleAt(r, n + 1)
          BY <2>3, <2>4 DEF IsHoleAt
      <4>3. /\ \A i \in 1 .. n :
                 /\ RawSlots[Nth(me, i)] = me.locks[i]
                 /\ Entries[Nth(me, i)] = IF IsHoleAt(me, i) THEN FREE ELSE me.locks[i]
            /\ \A i \in 1 .. n + 1 :
                 /\ RawSlots'[Nth(me, i)] = locks[i]
                 /\ Entries'[Nth(me, i)] = IF IsHoleAt(r, i) THEN FREE ELSE locks[i]
            /\ \A x \in Slots : \/ \E i \in 1 .. n + 1 : x = Nth(me, i)
                                \/ RawSlots'[x] = RawSlots[x] /\ Entries'[x] = Entries[x]
        <5>1. /\ r.start = th[t].start /\ n = Len(th[t].locks) /\ Len(r.locks) = n + 1
              /\ z = Nth(th[t], n + 1)
            BY <2>3, <1>1, <1>3, <1>4
        <5>2. r \in ThreadState /\ LockNext(t)
            BY <2>3, <1>2
        <5>3. /\ \A i \in 1 .. n :
                 /\ RawSlots[Nth(th[t], i)] = th[t].locks[i]
                 /\ Entries[Nth(th[t], i)] = IF IsHoleAt(th[t], i) THEN FREE ELSE th[t].locks[i]
              /\ \A i \in 1 .. n + 1 :
                 /\ RawSlots'[Nth(th[t], i)] = r.locks[i]
                 /\ Entries'[Nth(th[t], i)] = IF IsHoleAt(r, i) THEN FREE ELSE r.locks[i]
              /\ \A x \in Slots : \/ \E i \in 1 .. n + 1 : x = Nth(th[t], i)
                                  \/ RawSlots'[x] = RawSlots[x] /\ Entries'[x] = Entries[x]
            BY <5>1, <5>2, <2>2, LockContents
        <5> QED
            BY <5>3, <2>3, <1>1
      <4> QED
          BY <4>1, <4>2, <4>3, <1>3
    <3>2. CASE s = z
        BY <3>1, <3>2, <1>13
    <3>3. CASE s # z /\ \E i \in 1 .. n + 1 : s = Nth(me, i)
      <4>1. PICK i \in 1 .. n : s = Nth(me, i)
          BY <3>3, <1>3
      <4> QED
          BY <4>1, <3>1, <3>3, <1>3
    <3>4. CASE s # z /\ ~ \E i \in 1 .. n + 1 : s = Nth(me, i)
        BY <3>1, <3>4
    <3> QED
        BY <3>2, <3>3, <3>4
  <2>8. RawSlots' = RawSlots
    <3>1. /\ RawSlots = [s \in Slots |-> RawSlots[s]]
          /\ RawSlots' = [s \in Slots |-> RawSlots'[s]]
        BY DEF RawSlots
    <3> QED
        BY <3>1, <2>7
  <2>9. Probing(RawSlots', Entries', key')
    <3>1. Probing(RawSlots, Entries', key)
        BY <2>7, <1>7, HoleCore
    <3> QED
        BY <3>1, <2>8, <1>2
  <2>10. (\A x : x # e => (x \in Hashed' <=> x \in Hashed)) /\ e \notin Hashed'
    <3>1. \A s \in Slots : Entries'[s] = IF s = z THEN FREE ELSE Entries[s]
        BY <2>7
    <3>2. \A s \in Slots : Entries[s] = e => s = z
        BY <2>5, <1>7, <1>8 DEF Probing
    <3> QED
        BY <3>1, <3>2, <2>5, <1>8, HashedLemma, HashedNext
  <2>11. e \in HandOf(th[t])
      BY <1>1, <1>2, <1>4, MarkAssumption DEF HandOf
  <2>12. \A u \in Threads : u # t => RunInv(th[u], key') /\ HandInv(th[u], Hashed')
    <3>1. \A u \in Threads : RunInv(th[u], key')
        BY <1>2 DEF ProbingInv
    <3> QED
        BY <3>1, <2>10, <2>11, OthersHands
  <2>13. UseInv'
      BY <2>10, <2>11, <1>2, OthersLists
  <2>14. Regular(r) /\ HandInv(r, Hashed')
      BY <2>3, <2>4, <2>10, <1>1 DEF Regular, HandInv, Goal
  <2>15. ProbingInv'
      BY <2>2, <2>6, <2>9, <2>12, <2>13, <2>14, <1>2, ChangeStep
  <2>16. Hashed' = Hashed \ {e}
      BY <2>10
  <2> QED
      BY <2>15, <2>16, <1>1, <1>4
<1> QED
    BY <1>16, <1>17

\* The backward shift passes an entry, moves one into the hole, or comes to a
\* free slot and clears the hole.
LEMMA ShiftProbing ==
    ASSUME HashInv, PlaceInv, HashInv', NoClusterWraps, StepFits, ProbingInv,
           NEW t \in Threads, Shift(t)
    PROVE  ProbingInv' /\ Hashed' = Hashed
<1>1. PICK me \in ThreadState : /\ me = th[t] /\ ThreadInv(me, key) /\ Regular(me)
                                /\ RunInv(me, key) /\ HandInv(me, Hashed)
    BY Mine DEF ProbingInv
<1>2. me.pc = "shift" /\ LockNext(t) /\ key' = key /\ UNCHANGED lists /\ me.op # "remove"
    BY <1>1 DEF Shift, At, Regular
<1>3. PICK n \in Nat, z \in Slots, locks \in Seq(Contents), c \in Contents :
          /\ n = Len(me.locks) /\ z = (me.start + n) % HashSize /\ slot[z] # LOCK
          /\ z = Nth(me, n + 1)
          /\ locks = Locked(t) /\ Len(locks) = n + 1 /\ c = slot[z]
          /\ locks[n + 1] = c /\ Last(locks) = c /\ \A i \in 1 .. n : locks[i] = me.locks[i]
  <2>1. PICK n \in Nat, z \in Slots, locks \in Seq(Contents) :
           /\ n = Len(th[t].locks) /\ z = Nth(th[t], n + 1)
           /\ z = (th[t].start + n) % HashSize
           /\ locks = Locked(t) /\ Len(locks) = n + 1
           /\ locks[n + 1] = slot[z] /\ Last(locks) = slot[z] /\ slot[z] # LOCK
           /\ slot[z] \in Contents
           /\ \A i \in 1 .. n : locks[i] = th[t].locks[i]
      BY <1>2, LockedLemma
  <2>2. PICK c \in Contents : c = slot[z]
      BY <2>1
  <2> QED
      BY <1>1, <2>1, <2>2
<1>4. PICK a \in Slots, del \in 1 .. n : a = me.start /\ del = me.del
  <2>1. me.del > 0 /\ me.del <= n /\ me.del \in Nat /\ me.start \in Slots
      BY <1>1, <1>2, <1>3 DEF ThreadInv, LocksAt, ThreadState
  <2> QED
      BY <2>1
<1>5. /\ a + n <= HashSize /\ \A i \in 1 .. n : me.locks[i] # FREE
      /\ \E k \in Keys : a = Home[k]
      /\ \A i \in del + 1 .. n : Home[key[me.locks[i]]] > a + del - 1
    BY <1>1, <1>2, <1>3, <1>4 DEF RunInv
<1>6. a \in Nat /\ a < HashSize /\ HashSize \in Nat
    BY SizePositive DEF Slots
<1>7. Probing(RawSlots, Entries, key) /\ SlotFacts
    BY SlotContents DEF ProbingInv
<1>8. me.e \notin Hashed
    BY <1>1, <1>2 DEF HandInv, Goal
<1>9. /\ a + n < HashSize => z = a + n
      /\ c # FREE => a + n < HashSize
      /\ \A i \in 1 .. n : Nth(me, i) = a + i - 1
  <2>1. /\ n = Len(th[t].locks) /\ z = (th[t].start + n) % HashSize /\ slot[z] # LOCK
        /\ th[t].start + n <= HashSize /\ \A i \in 1 .. n : th[t].locks[i] # FREE
      BY <1>1, <1>3, <1>4, <1>5
  <2>2. slot[z] # FREE => th[t].start + n < HashSize
      BY <2>1, NoWrap
  <2>3. /\ th[t].start + n < HashSize => z = th[t].start + n
        /\ \A i \in 1 .. n : Nth(th[t], i) = th[t].start + i - 1
      BY <2>1, NoWrap
  <2> QED
      BY <2>2, <2>3, <1>1, <1>3, <1>4
<1>10. PICK h \in Slots : h = a + del - 1 /\ h = Nth(me, del) /\ h = SlotAt(t, me.del)
    BY <1>1, <1>4, <1>9, RunSlots
<1>11. /\ \A i \in 1 .. n : /\ RawSlots[Nth(me, i)] = me.locks[i]
                            /\ Entries[Nth(me, i)] = IF i = del THEN FREE ELSE me.locks[i]
       /\ RawSlots[z] = c /\ Entries[z] = c
  <2>1. \A i \in 1 .. n : IsHoleAt(me, i) <=> i = del
      BY <1>2, <1>4 DEF IsHoleAt
  <2> QED
      BY <2>1, <1>1, <1>3, <1>7 DEF SlotFacts
<1>12. RawSlots[h] # FREE /\ Entries[h] = FREE
    BY <1>5, <1>10, <1>11
<1>13. c # FREE => key[c] \in Keys /\ Home[key[c]] \in Slots
  <2>1. c # FREE => key[c] \in Keys
      BY <1>7, <1>11 DEF Probing
  <2> QED
      BY <2>1, ParameterAssumption
<1>14. ASSUME NEW r, th' = [th EXCEPT ![t] = r], r.start = a, Len(r.locks) = n + 1
       PROVE  /\ \A i \in 1 .. n + 1 :
                    /\ RawSlots'[Nth(me, i)] = r.locks[i]
                    /\ Entries'[Nth(me, i)] = IF IsHoleAt(r, i) THEN FREE ELSE r.locks[i]
              /\ \A s \in Slots : \/ \E i \in 1 .. n : s = Nth(me, i)
                                  \/ s = z
                                  \/ RawSlots'[s] = RawSlots[s] /\ Entries'[s] = Entries[s]
  <2>1. /\ r.start = th[t].start /\ n = Len(th[t].locks) /\ z = Nth(th[t], n + 1)
        /\ r \in ThreadState
      BY <1>1, <1>3, <1>4, <1>14, MyState
  <2>2. /\ \A i \in 1 .. n + 1 :
                    /\ RawSlots'[Nth(th[t], i)] = r.locks[i]
                    /\ Entries'[Nth(th[t], i)] = IF IsHoleAt(r, i) THEN FREE ELSE r.locks[i]
        /\ \A s \in Slots : \/ \E i \in 1 .. n + 1 : s = Nth(th[t], i)
                            \/ RawSlots'[s] = RawSlots[s] /\ Entries'[s] = Entries[s]
      BY <2>1, <1>2, <1>14, LockContents
  <2>3. \A i \in 1 .. n + 1 : i \in 1 .. n \/ i = n + 1
      OBVIOUS
  <2> QED
      BY <2>1, <2>2, <2>3, <1>1
<1>15. \A u \in Threads : RunInv(th[u], key') /\ HandInv(th[u], Hashed)
    BY <1>2 DEF ProbingInv
<1>16. ASSUME Hashed' = Hashed PROVE UseInv'
    BY <1>2, <1>16 DEF lists, ProbingInv, UseInv
<1>17. del \in 1 .. Len(locks) /\ del \in 1 .. n + 1 /\ n + 1 \in 1 .. n + 1 /\ del # n + 1
    BY <1>3
<1>18. CASE c = FREE
  <2>1. PICK w : w = [locks EXCEPT ![del] = FREE]
      OBVIOUS
  <2>2. Len(w) = n + 1 /\ \A i \in 1 .. n + 1 : w[i] = IF i = del THEN FREE ELSE locks[i]
      BY <2>1, <1>3, <1>17
  <2>3. PICK r : r = UnlockThen(t, w, "putBack")
      OBVIOUS
  <2>4. th' = [th EXCEPT ![t] = r]
      BY <2>1, <2>3, <1>1, <1>2, <1>3, <1>4, <1>18 DEF Shift, ClearHole
  <2>5. /\ r.pc = "unlock" /\ r.next = "putBack" /\ r.locks = w /\ r.start = a
        /\ r.e = me.e /\ r.op = me.op
      BY <2>3, <1>1, <1>4 DEF UnlockThen, ThreadState
  <2>6. \A i : ~IsHoleAt(r, i)
      BY <2>5 DEF IsHoleAt
  <2>7. ASSUME NEW s \in Slots
        PROVE  RawSlots'[s] = (IF s = h THEN FREE ELSE RawSlots[s]) /\ Entries'[s] = Entries[s]
    <3>1. CASE s = z
      <4>1. RawSlots'[z] = w[n + 1] /\ Entries'[z] = w[n + 1]
        <5>1. \A i \in 1 .. n + 1 : RawSlots'[Nth(me, i)] = w[i] /\ Entries'[Nth(me, i)] = w[i]
            BY <2>2, <2>4, <2>5, <2>6, <1>14
        <5> QED
            BY <5>1, <1>3, <1>17
      <4> QED
          BY <4>1, <3>1, <2>2, <1>3, <1>11, <1>17, <1>18
    <3>2. CASE \E i \in 1 .. n : s = Nth(me, i)
      <4>1. PICK i \in 1 .. n : s = Nth(me, i)
          BY <3>2
      <4>2. i \in 1 .. n + 1 /\ (i = del <=> s = h)
          BY <4>1, <1>6, <1>9, <1>10
      <4>3. RawSlots'[s] = w[i] /\ Entries'[s] = w[i]
          BY <4>1, <4>2, <2>2, <2>4, <2>5, <2>6, <1>14
      <4> QED
          BY <4>1, <4>2, <4>3, <2>2, <1>3, <1>11
    <3>3. CASE s # z /\ ~ \E i \in 1 .. n : s = Nth(me, i)
      <4>1. s # h
          BY <3>3, <1>10
      <4> QED
          BY <4>1, <3>3, <2>2, <2>4, <2>5, <1>14
    <3> QED
        BY <3>1, <3>2, <3>3
  <2>8. Entries' = Entries
    <3>1. Entries = [s \in Slots |-> Entries[s]] /\ Entries' = [s \in Slots |-> Entries'[s]]
        BY DEF Entries
    <3> QED
        BY <3>1, <2>7
  <2>9. ASSUME NEW s \in Slots, Entries[s] # FREE, s > h
        PROVE  Home[key[Entries[s]]] > h
    <3>1. CASE s < a + n
      <4>1. s - a + 1 \in del + 1 .. n /\ s - a + 1 \in 1 .. n /\ a + (s - a + 1) - 1 = s
          BY <3>1, <2>9, <1>6, <1>10 DEF Slots
      <4>2. Entries[s] = me.locks[s - a + 1]
          BY <4>1, <1>9, <1>11
      <4> QED
          BY <4>1, <4>2, <1>5, <1>10
    <3>2. CASE ~(s < a + n)
      <4>1. z = a + n /\ h < z /\ z <= s /\ z \in Nat /\ h \in Nat
          BY <3>2, <1>6, <1>9, <1>10 DEF Slots
      <4>2. \A d \in Home[key[Entries[s]]] .. s : RawSlots[d] # FREE
          BY <2>9, <1>7 DEF Probing
      <4>3. Home[key[Entries[s]]] \in Slots
          BY <2>9, <1>7, ParameterAssumption DEF Probing
      <4>4. z \notin Home[key[Entries[s]]] .. s
          BY <4>2, <1>11, <1>18
      <4>5. PICK b \in Nat : b = Home[key[Entries[s]]]
          BY <4>3 DEF Slots
      <4> QED
          BY <4>1, <4>4, <4>5 DEF Slots
    <3> QED
        BY <3>1, <3>2
  <2>10. Probing(RawSlots', Entries', key')
    <3>1. Probing(RawSlots', Entries, key)
        BY <2>7, <2>9, <1>7, <1>12, CloseCore
    <3> QED
        BY <3>1, <2>8, <1>2
  <2>11. Hashed' = Hashed
      BY <2>8, HashedLemma, HashedNext
  <2>12. Regular(r) /\ RunInv(r, key') /\ HandInv(r, Hashed')
      BY <2>5, <2>11, <1>1, <1>8 DEF Regular, RunInv, HandInv, Goal
  <2>13. ProbingInv'
      BY <2>4, <2>10, <2>11, <2>12, <1>15, <1>16, ChangeStep
  <2> QED
      BY <2>11, <2>13
<1>19. CASE c # FREE /\ MovesBack(key[c], h)
  <2>1. PICK w : w = [locks EXCEPT ![del] = c]
      OBVIOUS
  <2>2. Len(w) = n + 1 /\ \A i \in 1 .. n + 1 : w[i] = IF i = del THEN c ELSE locks[i]
      BY <2>1, <1>3, <1>17
  <2>3. PICK r : r = [me EXCEPT !.pc = AfterMove(me.op, locks), !.del = n + 1, !.locks = w]
      OBVIOUS
  <2>4. th' = [th EXCEPT ![t] = r]
      BY <2>1, <2>3, <1>1, <1>3, <1>4, <1>10, <1>19 DEF Shift
  <2>5. /\ r.pc = AfterMove(me.op, locks) /\ r.locks = w /\ r.start = a /\ r.del = n + 1
        /\ r.e = me.e /\ r.op = me.op /\ th'[t] = r
      BY <2>3, <2>4, <1>4, MyState DEF ThreadState
  <2>6. r.pc = "shift"
    <3>1. /\ th[t].pc \in Growing /\ Len(th'[t].locks) = Len(th[t].locks) + 1
          /\ th'[t].locks = w
        BY <2>2, <2>5, <1>1, <1>2, <1>3 DEF Growing
    <3>2. ~TooDeep(w)
        BY <3>1, NotTooDeep
    <3>3. ~TooDeep(locks)
        BY <3>2, <2>2, <1>3 DEF TooDeep
    <3> QED
        BY <3>3, <2>5, <1>2 DEF AfterMove, Advance
  <2>7. \A i : IsHoleAt(r, i) <=> i = n + 1
      BY <2>5, <2>6 DEF IsHoleAt
  <2>8. z = a + n /\ a + n < HashSize /\ h < z
      BY <1>6, <1>9, <1>10, <1>19
  <2>9. ASSUME NEW s \in Slots
        PROVE  /\ RawSlots'[s] = IF s = h THEN Entries[z] ELSE RawSlots[s]
               /\ Entries'[s] = IF s = h THEN Entries[z] ELSE IF s = z THEN FREE ELSE Entries[s]
    <3>1. CASE s = z
      <4>1. RawSlots'[z] = w[n + 1] /\ Entries'[z] = FREE
        <5>1. \A i \in 1 .. n + 1 : /\ RawSlots'[Nth(me, i)] = w[i]
                                     /\ Entries'[Nth(me, i)] = IF i = n + 1 THEN FREE ELSE w[i]
            BY <2>2, <2>4, <2>5, <2>7, <1>14
        <5> QED
            BY <5>1, <1>3, <1>17
      <4>2. z # h
          BY <2>8 DEF Slots
      <4> QED
          BY <4>1, <4>2, <3>1, <2>2, <1>3, <1>11, <1>17
    <3>2. CASE \E i \in 1 .. n : s = Nth(me, i)
      <4>1. PICK i \in 1 .. n : s = Nth(me, i)
          BY <3>2
      <4>2. i \in 1 .. n + 1 /\ (i = del <=> s = h) /\ s # z /\ i # n + 1
          BY <4>1, <2>8, <1>6, <1>9, <1>10
      <4>3. RawSlots'[s] = w[i] /\ Entries'[s] = w[i]
          BY <4>1, <4>2, <2>2, <2>4, <2>5, <2>7, <1>14
      <4> QED
          BY <4>1, <4>2, <4>3, <2>2, <1>3, <1>11
    <3>3. CASE s # z /\ ~ \E i \in 1 .. n : s = Nth(me, i)
      <4>1. s # h
          BY <3>3, <1>10
      <4> QED
          BY <4>1, <3>3, <2>2, <2>4, <2>5, <1>14
    <3> QED
        BY <3>1, <3>2, <3>3
  <2>10. Probing(RawSlots', Entries', key')
    <3>1. Home[key[Entries[z]]] <= h /\ Entries[z] # FREE
        BY <1>11, <1>19 DEF MovesBack
    <3>2. Probing(RawSlots', Entries', key)
        BY <3>1, <2>8, <2>9, <1>7, <1>12, MoveCore
    <3> QED
        BY <3>2, <1>2
  <2>11. Hashed' = Hashed
    <3>1. \A s \in Slots : /\ Entries'[s] # FREE => \E y \in Slots : Entries[y] = Entries'[s]
                           /\ Entries[s] # FREE => \E y \in Slots : Entries'[y] = Entries[s]
      <4> SUFFICES ASSUME NEW s \in Slots
                   PROVE  /\ Entries'[s] # FREE => \E y \in Slots : Entries[y] = Entries'[s]
                          /\ Entries[s] # FREE => \E y \in Slots : Entries'[y] = Entries[s]
          OBVIOUS
      <4>1. CASE s = h
          BY <4>1, <2>9, <1>12
      <4>2. CASE s = z
          BY <4>2, <2>9
      <4>3. CASE s # h /\ s # z
          BY <4>3, <2>9
      <4> QED
          BY <4>1, <4>2, <4>3
    <3> QED
        BY <3>1, HashedLemma, HashedNext
  <2>12. RunInv(r, key')
    <3>1. a + (n + 1) <= HashSize
        BY <2>8, <1>6
    <3>2. \A i \in 1 .. n + 1 : w[i] # FREE
      <4>1. \A i \in 1 .. n + 1 : i \in 1 .. n \/ i = n + 1
          OBVIOUS
      <4> QED
          BY <4>1, <2>2, <1>3, <1>5, <1>19
    <3>3. \A i \in (n + 1) + 1 .. n + 1 : FALSE
        OBVIOUS
    <3> QED
        BY <3>1, <3>2, <3>3, <2>2, <2>5, <2>6, <1>5 DEF RunInv
  <2>13. Regular(r) /\ HandInv(r, Hashed')
      BY <2>5, <2>6, <2>11, <1>1, <1>8 DEF Regular, HandInv, Goal
  <2>14. ProbingInv'
      BY <2>4, <2>10, <2>11, <2>12, <2>13, <1>15, <1>16, ChangeStep
  <2> QED
      BY <2>11, <2>14
<1>20. CASE c # FREE /\ ~MovesBack(key[c], h)
  <2>1. PICK r : r = [me EXCEPT !.pc = Advance(locks, "shift"), !.locks = locks]
      OBVIOUS
  <2>2. th' = [th EXCEPT ![t] = r]
      BY <2>1, <1>1, <1>3, <1>10, <1>20 DEF Shift
  <2>3. /\ r.pc = Advance(locks, "shift") /\ r.locks = locks /\ r.start = a /\ r.del = del
        /\ r.e = me.e /\ r.op = me.op /\ r \in ThreadState /\ th'[t] = r
      BY <2>1, <2>2, <1>4, MyState DEF ThreadState
  <2>4. r.pc = "shift"
    <3>1. /\ th[t].pc \in Growing /\ Len(th'[t].locks) = Len(th[t].locks) + 1
          /\ th'[t].locks = locks
        BY <2>3, <1>1, <1>2, <1>3 DEF Growing
    <3>2. \A label : Advance(locks, label) = label
        BY <3>1, NotTooDeep
    <3> QED
        BY <3>2, <2>3
  <2>5. RunInv(r, key)
    <3>1. a + (n + 1) <= HashSize
        BY <1>6, <1>9, <1>20
    <3>2. Home[key[c]] > a + del - 1
      <4>1. PICK b \in Nat : b = Home[key[c]]
          BY <1>13, <1>20 DEF Slots
      <4>2. ~(b <= h)
          BY <4>1, <1>20 DEF MovesBack
      <4> QED
          BY <4>1, <4>2, <1>10 DEF Slots
    <3>3. \A i \in 1 .. n + 1 : i \in 1 .. n \/ i = n + 1
        OBVIOUS
    <3>4. \A i \in del + 1 .. n + 1 : i \in del + 1 .. n \/ i = n + 1
        OBVIOUS
    <3>5. \A i \in del + 1 .. n : i \in 1 .. n
        OBVIOUS
    <3>6. \A i \in 1 .. n + 1 : locks[i] # FREE
        BY <3>3, <1>3, <1>5, <1>20
    <3>7. \A i \in del + 1 .. n + 1 : Home[key[locks[i]]] > a + del - 1
        BY <3>2, <3>4, <3>5, <1>3, <1>5
    <3> QED
        BY <3>1, <3>6, <3>7, <2>3, <2>4, <1>3, <1>5 DEF RunInv
  <2>6. Regular(r) /\ HandInv(r, Hashed)
      BY <2>3, <2>4, <1>1, <1>8 DEF Regular, HandInv, Goal
  <2>7. RawSlots' = RawSlots /\ Entries' = Entries
      BY <2>2, <2>3, <2>4, <1>1, <1>2, <1>3, <1>4, LockKeeps
  <2> QED
      BY <2>2, <2>5, <2>6, <2>7, <1>2, QuietStep
<1> QED
    BY <1>18, <1>19, <1>20

-----------------------------------------------------------------------------
(* The initial state and the theorems *)

\* No loaded key collides with another, and only loaded elements are hashed.
LEMMA ProbingInit == Init => ProbingInv
<1> SUFFICES ASSUME Init PROVE ProbingInv
    OBVIOUS
<1>1. HashInv /\ PlaceInv
    BY HashInit, PlaceInit
<1>2. PICK m \in Nat : /\ m = Len(Loaded) /\ DOMAIN Loaded = 1 .. m
                       /\ \A i \in 1 .. m : Loaded[i] \in Keys /\ i \in Elements
                       /\ \A i, j \in 1 .. m : Home[Loaded[i]] = Home[Loaded[j]] => i = j
  <2>1. Len(Loaded) \in Nat /\ DOMAIN Loaded = 1 .. Len(Loaded) /\ Len(Loaded) < PerThread
      BY ParameterAssumption, LoadedAssumption
  <2>2. \A i \in 1 .. Len(Loaded) : Loaded[i] \in Keys
      BY ParameterAssumption
  <2>3. \A i \in 1 .. Len(Loaded) : i \in Elements
    <3>1. PICK n \in Nat \ {0} : /\ Elements = 1 .. PerThread * n /\ PerThread * n \in Nat
                                 /\ PerThread \in Nat \ {0} /\ PerThread <= PerThread * n
        BY ThreadCount
    <3> QED
        BY <3>1, <2>1
  <2> QED
      BY <2>1, <2>2, <2>3, LoadedAssumption
<1>3. \A e \in Elements : key[e] = IF e \in 1 .. m THEN Loaded[e] ELSE None
    BY <1>2 DEF Init
<1>4. ASSUME NEW s \in Slots
      PROVE  \/ slot[s] = FREE
             \/ slot[s] \in 1 .. m /\ Home[Loaded[slot[s]]] = s
    BY <1>2 DEF Init
<1>5. ASSUME NEW i \in 1 .. m
      PROVE  Home[Loaded[i]] \in Slots /\ slot[Home[Loaded[i]]] = i
  <2>1. PICK s \in Slots : s = Home[Loaded[i]]
      BY <1>2, ParameterAssumption
  <2>2. slot[s] = CHOOSE j \in DOMAIN Loaded : Home[Loaded[j]] = s
      BY <2>1, <1>2 DEF Init
  <2>3. \A j \in DOMAIN Loaded : Home[Loaded[j]] = s <=> j = i
      BY <2>1, <1>2
  <2> QED
      BY <2>1, <2>2, <2>3, <1>2
<1>6. \A s \in Slots : RawSlots[s] = slot[s] /\ Entries[s] = slot[s]
  <2>1. \A s \in Slots : slot[s] # LOCK
      BY <1>2, <1>4, MarkAssumption
  <2> QED
      BY <2>1, <1>1, SlotContents DEF SlotFacts
<1>7. Probing(RawSlots, Entries, key)
  <2>1. ASSUME NEW s \in Slots, Entries[s] # FREE
        PROVE  /\ Entries[s] \in Elements /\ RawSlots[s] = Entries[s]
               /\ key[Entries[s]] \in Keys /\ Home[key[Entries[s]]] = s
      BY <2>1, <1>2, <1>3, <1>4, <1>6
  <2>2. ASSUME NEW s \in Slots, Entries[s] # FREE
        PROVE  /\ Home[key[Entries[s]]] <= s
               /\ \A d \in Home[key[Entries[s]]] .. s : RawSlots[d] # FREE
    <3>1. \A d \in s .. s : d = s
        BY DEF Slots
    <3>2. s <= s
        BY DEF Slots
    <3> QED
        BY <3>1, <3>2, <2>1, <2>2
  <2>3. \A r, s \in Slots : Entries[r] # FREE /\ Entries[s] # FREE /\ r # s
                            => key[Entries[r]] # key[Entries[s]]
      BY <2>1
  <2> QED
      BY <2>1, <2>2, <2>3 DEF Probing
<1>8. Hashed = 1 .. m
  <2>1. \A x \in Hashed : x \in 1 .. m
      BY <1>4, <1>6, HashedLemma
  <2>2. \A x \in 1 .. m : x \in Hashed
    <3> SUFFICES ASSUME NEW x \in 1 .. m PROVE x \in Hashed
        OBVIOUS
    <3>1. Entries[Home[Loaded[x]]] = x /\ Home[Loaded[x]] \in Slots /\ x # FREE
        BY <1>2, <1>5, <1>6, MarkAssumption
    <3> QED
        BY <3>1, HashedLemma
  <2> QED
      BY <2>1, <2>2
<1>9. UseInv
  <2>1. 1 \in Threads /\ Elems(lru[1]) = 1 .. m /\ \A t \in Threads : t # 1 => lru[t] = <<>>
      BY <1>2, LoadedList
  <2>2. \A t \in Threads : Elems(lru[t]) \subseteq 1 .. m
      BY <2>1 DEF Elems
  <2>3. ASSUME NEW t \in Threads PROVE Elems(free[t]) \cap (1 .. m) = {}
    <3>1. PlaceOf(1, "lru") \cap PlaceOf(t, "free") = {}
        BY <2>1, <1>1 DEF PlaceInv, Kinds
    <3> QED
        BY <3>1, <2>1 DEF PlaceOf
  <2> QED
      BY <2>2, <2>3, <1>8 DEF UseInv
<1>10. \A t \in Threads : th[t] = Idle
    BY DEF Init
<1>11. Regular(Idle) /\ RunInv(Idle, key) /\ HandInv(Idle, Hashed)
  <2>1. Idle.pc = "idle" /\ Idle.e = None /\ Idle.op = None
      BY GoIdle
  <2>2. None # "remove" /\ None \notin Hashed
      BY <1>2, <1>8, MarkAssumption DEF Operations
  <2> QED
      BY <2>1, <2>2 DEF Regular, RunInv, HandInv, Goal
<1> QED
    BY <1>7, <1>9, <1>10, <1>11 DEF ProbingInv

\* No step of a thread that neither removes nor goes around the end disturbs it.
LEMMA ProbingNext ==
    ASSUME "remove" \notin Ops, HashInv, HashInv', PlaceInv, ProbingInv,
           NoClusterWraps, StepFits, [Next]_vars
    PROVE  ProbingInv'
<1>1. ASSUME NEW t \in Threads, HashStep(t) PROVE ProbingInv'
  <2>1. ~FindKey(t) /\ ~Again(t)
      BY DEF ProbingInv, Regular, FindKey, Again, At
  <2> QED
      BY <1>1, <2>1, ProbeProbing, FoundProbing, FillProbing, UnlockProbing, VisitProbing,
         LeaveProbing, FindProbing, ShiftProbing DEF HashStep
<1>2. ASSUME NEW t \in Threads, ListStep(t) PROVE ProbingInv'
    BY <1>2, UnlinkProbing, RelinkProbing, PutBackProbing, LinkProbing, EvictProbing DEF ListStep
<1>3. ASSUME NEW t \in Threads, CallProcess(t) PROVE ProbingInv'
    BY <1>3, CallProcessProbing
<1>4. ASSUME NEW t \in Threads, NEW o \in Ops \ {"process"}, NEW k \in Keys,
             NEW v \in (IF o \in {"get", "remove"} THEN {None} ELSE Values), Call(t, o, k, v)
      PROVE  ProbingInv'
  <2>1. o # "remove"
      OBVIOUS
  <2> QED
      BY <2>1, <1>4, CallProbing
<1>5. CASE UNCHANGED vars
  <2>1. slot' = slot /\ key' = key /\ lru' = lru /\ free' = free /\ th' = th
      BY <1>5 DEF vars, lists
  <2>2. RawSlots' = RawSlots /\ Entries' = Entries /\ Hashed' = Hashed
      BY <2>1 DEF RawSlots, Entries, Hashed, Raw, Entry, IsHole, Holds, SlotAt
  <2> QED
      BY <2>1, <2>2 DEF ProbingInv, UseInv
<1> QED
    BY <1>1, <1>2, <1>3, <1>4, <1>5 DEF Next, Step, Stopped

\* The invariant holds in every reachable state, as long as no cluster goes
\* around the end of the array and the locks fit their array.
THEOREM ProbingInductive == "remove" \notin Ops => (Spec /\ []Fits => []ProbingInv)
<1> SUFFICES ASSUME "remove" \notin Ops PROVE Spec /\ []Fits => []ProbingInv
    OBVIOUS
<1>1. HashInv /\ HashInv' /\ PlaceInv /\ Fits /\ Fits' /\ ProbingInv /\ [Next]_vars => ProbingInv'
    BY ProbingNext DEF Fits, StepFits
<1> QED
    BY <1>1, ProbingInit, HashInductive, PlaceInductive, PTL DEF Spec

\* Every entry can be found from its home slot without meeting a free slot, and
\* no key has two entries: insertions, evictions and the backward shift of
\* removeFromHashPos by any number of threads keep it so.
THEOREM HashProbing == "remove" \notin Ops => (Spec /\ []Fits => []ProbeInvariant)
<1> SUFFICES ASSUME "remove" \notin Ops PROVE Spec /\ []Fits => []ProbeInvariant
    OBVIOUS
<1>1. ProbingInv => ProbeInvariant
  <2> SUFFICES ASSUME ProbingInv PROVE ProbeInvariant
      OBVIOUS
  <2>1. Probing(RawSlots, Entries, key)
      BY DEF ProbingInv
  <2>2. ASSUME NEW s \in Slots, Entries[s] # FREE,
               NEW d \in 0 .. ((s - Home[key[Entries[s]]]) % HashSize)
        PROVE  Raw((Home[key[Entries[s]]] + d) % HashSize) # FREE
    <3>1. PICK b \in Slots : b = Home[key[Entries[s]]] /\ b <= s /\ \A x \in b .. s : RawSlots[x] # FREE
        BY <2>1, <2>2, ParameterAssumption DEF Probing
    <3>2. (s - b) % HashSize = s - b
        BY <3>1, SizePositive DEF Slots
    <3>3. d \in 0 .. s - b
        BY <3>1, <3>2
    <3>4. b + d \in b .. s /\ b + d \in Slots
        BY <3>1, <3>3, SizePositive DEF Slots
    <3>5. (b + d) % HashSize = b + d
        BY <3>4, SizePositive DEF Slots
    <3> QED
        BY <3>1, <3>4, <3>5 DEF RawSlots
  <2>3. \A r, s \in Slots : Entries[r] # FREE /\ Entries[s] # FREE /\ r # s
                            => key[Entries[r]] # key[Entries[s]]
      BY <2>1 DEF Probing
  <2>4. Entries = [s \in Slots |-> Entry(s)]
      BY DEF Entries
  <2> QED
      BY <2>2, <2>3, <2>4 DEF ProbeInvariant
<1> QED
    BY <1>1, ProbingInductive, PTL

\* No slot refers to a free element, which the next insertion would overwrite
\* without the lock of that slot.
THEOREM HashFreeNotHashed == "remove" \notin Ops => (Spec /\ []Fits => []FreeNotHashed)
<1> SUFFICES ASSUME "remove" \notin Ops PROVE Spec /\ []Fits => []FreeNotHashed
    OBVIOUS
<1>1. HashInv /\ ProbingInv => FreeNotHashed
  <2> SUFFICES ASSUME HashInv, ProbingInv, NEW t \in Threads
               PROVE  Range(free[t]) \cap Hashed = {}
      BY DEF FreeNotHashed
  <2>1. DOMAIN free[t] = 1 .. Len(free[t])
      BY DEF HashInv, TableTypes
  <2>2. Range(free[t]) = Elems(free[t])
      BY <2>1 DEF Range, Elems
  <2> QED
      BY <2>2 DEF ProbingInv, UseInv
<1> QED
    BY <1>1, HashInductive, ProbingInductive, PTL

\* insertOrSet always finds the element it evicts, so that it does not abort.
THEOREM HashNoAbort == "remove" \notin Ops => (Spec /\ []Fits => []NoAbort)
<1> SUFFICES ASSUME "remove" \notin Ops PROVE Spec /\ []Fits => []NoAbort
    OBVIOUS
<1>1. ProbingInv => NoAbort
    BY DEF ProbingInv, Regular, NoAbort
<1> QED
    BY <1>1, ProbingInductive, PTL
=============================================================================
