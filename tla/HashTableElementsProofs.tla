----------------------- MODULE HashTableElementsProofs -----------------------
(***************************************************************************)
(* The elements of the hash table are conserved, for every number of       *)
(* threads, elements and keys: each is in one LRU list, in one free list   *)
(* or in the hands of one thread.                                          *)
(***************************************************************************)
EXTENDS LFLRUHashTableProofs

-----------------------------------------------------------------------------
(* Where the elements are *)

Elems(s) == {s[i] : i \in 1 .. Len(s)}
Distinct(s) == \A i, j \in 1 .. Len(s) : s[i] = s[j] => i = j
HandOf(r) == ({IF r.pc = "evict" THEN None ELSE r.e,
               IF r.pc = "relink" THEN r.x ELSE None}) \ {None}

\* The LRU list, the free list and the hands of a thread.
Kinds == {"lru", "free", "hand"}
PlaceOf(u, k) == CASE k = "lru"  -> Elems(lru[u])
                   [] k = "free" -> Elems(free[u])
                   [] k = "hand" -> HandOf(th[u])

\* Every element is in one place, and in no list twice.
PlaceInv ==
    /\ \A e \in Elements : \E u \in Threads, k \in Kinds : e \in PlaceOf(u, k)
    /\ \A u, v \in Threads, k, l \in Kinds :
          (u # v \/ k # l) => PlaceOf(u, k) \cap PlaceOf(v, l) = {}
    /\ \A u \in Threads : Distinct(lru[u]) /\ Distinct(free[u])
    /\ \A u \in Threads : At(u, "relink") => th[u].e # th[u].x

\* An element moves from one place to another.
LEMMA ElementMoves ==
    ASSUME PlaceInv, NEW a \in Threads, NEW b \in Threads, NEW i \in Kinds, NEW j \in Kinds,
           a # b \/ i # j, NEW x \in PlaceOf(a, i),
           PlaceOf(a, i)' = PlaceOf(a, i) \ {x},
           PlaceOf(b, j)' = PlaceOf(b, j) \cup {x},
           \A u \in Threads, k \in Kinds :
              (u # a \/ k # i) /\ (u # b \/ k # j) => PlaceOf(u, k)' = PlaceOf(u, k),
           \A u \in Threads : Distinct(lru'[u]) /\ Distinct(free'[u]),
           \A u \in Threads : th'[u].pc = "relink" => th'[u].e # th'[u].x
    PROVE  PlaceInv'
<1>1. ASSUME NEW e \in Elements PROVE \E u \in Threads, k \in Kinds : e \in PlaceOf(u, k)'
  <2>1. CASE e = x
      BY <2>1
  <2>2. CASE e # x
    <3>1. PICK u \in Threads, k \in Kinds : e \in PlaceOf(u, k)
        BY DEF PlaceInv
    <3>2. e \in PlaceOf(u, k)'
        BY <3>1, <2>2
    <3> QED
        BY <3>2
  <2> QED
      BY <2>1, <2>2
<1>2. ASSUME NEW u \in Threads, NEW v \in Threads, NEW k \in Kinds, NEW l \in Kinds,
             u # v \/ k # l, NEW e, e \in PlaceOf(u, k)', e \in PlaceOf(v, l)'
      PROVE  FALSE
  <2>1. PlaceOf(u, k) \cap PlaceOf(v, l) = {}
      BY <1>2 DEF PlaceInv
  <2>2. CASE e # x
    <3>1. \A w \in Threads, m \in Kinds : e \in PlaceOf(w, m)' => e \in PlaceOf(w, m)
        BY <2>2
    <3> QED
        BY <3>1, <2>1, <1>2
  <2>3. CASE e = x
    <3>1. \A w \in Threads, m \in Kinds : x \in PlaceOf(w, m)' => w = b /\ m = j
      <4> SUFFICES ASSUME NEW w \in Threads, NEW m \in Kinds, x \in PlaceOf(w, m)',
                          w # b \/ m # j
                   PROVE  FALSE
          OBVIOUS
      <4>1. w # a \/ m # i
          OBVIOUS
      <4>2. x \in PlaceOf(w, m)
          BY <4>1
      <4>3. PlaceOf(a, i) \cap PlaceOf(w, m) = {}
          BY <4>1 DEF PlaceInv
      <4> QED
          BY <4>2, <4>3
    <3> QED
        BY <3>1, <2>3, <1>2
  <2> QED
      BY <2>2, <2>3
<1>3. \A u, v \in Threads, k, l \in Kinds :
          (u # v \/ k # l) => PlaceOf(u, k)' \cap PlaceOf(v, l)' = {}
    BY <1>2
<1> QED
    BY <1>1, <1>3 DEF PlaceInv, At

\* No element moves.
LEMMA ElementsStay ==
    ASSUME PlaceInv, UNCHANGED lists,
           \A u \in Threads : HandOf(th'[u]) = HandOf(th[u]),
           \A u \in Threads : th'[u].pc = "relink" => th'[u].e # th'[u].x
    PROVE  PlaceInv'
<1>1. \A u \in Threads, k \in Kinds : PlaceOf(u, k)' = PlaceOf(u, k)
    BY DEF PlaceOf, Kinds, lists
<1>2. \A u \in Threads : Distinct(lru'[u]) /\ Distinct(free'[u])
    BY DEF lists, PlaceInv
<1>3. \A e \in Elements : \E u \in Threads, k \in Kinds : e \in PlaceOf(u, k)'
    BY <1>1 DEF PlaceInv
<1>4. \A u, v \in Threads, k, l \in Kinds :
          (u # v \/ k # l) => PlaceOf(u, k)' \cap PlaceOf(v, l)' = {}
    BY <1>1 DEF PlaceInv
<1> QED
    BY <1>2, <1>3, <1>4 DEF PlaceInv, At

-----------------------------------------------------------------------------
(* The elements of a list that grows or shrinks by one *)

\* A list with a new element at its front.
LEMMA ElemsPrepend ==
    ASSUME NEW s \in Seq(Elements), NEW x \in Elements, Distinct(s), x \notin Elems(s)
    PROVE  Elems(<<x>> \o s) = Elems(s) \cup {x} /\ Distinct(<<x>> \o s)
<1>1. PICK n \in Nat : n = Len(s)
    OBVIOUS
<1>2. PICK q \in Seq(Elements) : /\ q = <<x>> \o s /\ Len(q) = n + 1 /\ q[1] = x
                                 /\ \A j \in 1 .. n : q[j + 1] = s[j]
    BY <1>1, PrependLemma
<1>3. \A i \in 1 .. n + 1 : i = 1 \/ (i - 1 \in 1 .. n /\ (i - 1) + 1 = i)
    OBVIOUS
<1>4. \A i \in 1 .. n + 1 : i # 1 => i - 1 \in 1 .. n /\ q[i] = s[i - 1]
    BY <1>2, <1>3
<1>5. \A j \in 1 .. n : s[j] # x
    BY <1>1 DEF Elems
<1>6. ASSUME NEW i \in 1 .. n + 1, NEW j \in 1 .. n + 1, q[i] = q[j] PROVE i = j
  <2>1. CASE i = 1 \/ j = 1
      BY <2>1, <1>2, <1>4, <1>5, <1>6
  <2>2. CASE i # 1 /\ j # 1
    <3>1. s[i - 1] = s[j - 1] /\ i - 1 \in 1 .. n /\ j - 1 \in 1 .. n
        BY <2>2, <1>4, <1>6
    <3>2. i - 1 = j - 1
        BY <3>1, <1>1 DEF Distinct
    <3> QED
        BY <3>2
  <2> QED
      BY <2>1, <2>2
<1>7. Distinct(q)
    BY <1>2, <1>6 DEF Distinct
<1>8. ASSUME NEW e \in Elems(q) PROVE e \in Elems(s) \cup {x}
  <2>1. PICK i \in 1 .. n + 1 : e = q[i]
      BY <1>2, <1>8 DEF Elems
  <2>2. CASE i = 1
      BY <2>1, <2>2, <1>2
  <2>3. CASE i # 1
      BY <2>1, <2>3, <1>1, <1>4 DEF Elems
  <2> QED
      BY <2>2, <2>3
<1>9. ASSUME NEW e \in Elems(s) \cup {x} PROVE e \in Elems(q)
  <2>1. CASE e = x
    <3>1. 1 \in 1 .. Len(q)
        BY <1>2
    <3> QED
        BY <3>1, <2>1, <1>2 DEF Elems
  <2>2. CASE e \in Elems(s)
    <3>1. PICK j \in 1 .. n : e = s[j]
        BY <2>2, <1>1 DEF Elems
    <3>2. j + 1 \in 1 .. Len(q) /\ q[j + 1] = e
        BY <3>1, <1>2
    <3> QED
        BY <3>2 DEF Elems
  <2> QED
      BY <2>1, <2>2, <1>9
<1> QED
    BY <1>2, <1>7, <1>8, <1>9

\* Taking out the i-th element.
LEMMA ElemsWithout ==
    ASSUME NEW s \in Seq(Elements), NEW q \in Seq(Elements), NEW i \in 1 .. Len(s), Distinct(s),
           Len(q) = Len(s) - 1,
           \A j \in 1 .. Len(s) - 1 : q[j] = IF j < i THEN s[j] ELSE s[j + 1]
    PROVE  Elems(q) = Elems(s) \ {s[i]} /\ Distinct(q) /\ s[i] \in Elems(s)
<1>1. PICK n \in Nat \ {0} : n = Len(s) /\ i \in 1 .. n
    OBVIOUS
<1>2. \A j \in 1 .. n - 1 : q[j] = IF j < i THEN s[j] ELSE s[j + 1]
    BY <1>1
<1>3. \A j, k \in 1 .. n : s[j] = s[k] => j = k
    BY <1>1 DEF Distinct
<1>4. ASSUME NEW j \in 1 .. n - 1
      PROVE  \E k \in 1 .. n : k # i /\ q[j] = s[k] /\ k = IF j < i THEN j ELSE j + 1
  <2>1. CASE j < i
    <3>1. j \in 1 .. n /\ j # i
        BY <2>1, <1>1
    <3> QED
        BY <3>1, <2>1, <1>2
  <2>2. CASE ~(j < i)
    <3>1. j + 1 \in 1 .. n /\ j + 1 # i
        BY <2>2, <1>1
    <3> QED
        BY <3>1, <2>2, <1>2
  <2> QED
      BY <2>1, <2>2
<1>5. ASSUME NEW k \in 1 .. n, k # i PROVE \E j \in 1 .. n - 1 : q[j] = s[k]
  <2>1. CASE k < i
    <3>1. k \in 1 .. n - 1
        BY <2>1, <1>1
    <3> QED
        BY <3>1, <2>1, <1>2
  <2>2. CASE ~(k < i)
    <3>1. k - 1 \in 1 .. n - 1 /\ ~(k - 1 < i) /\ (k - 1) + 1 = k
        BY <2>2, <1>1, <1>5
    <3> QED
        BY <3>1, <1>2
  <2> QED
      BY <2>1, <2>2
<1>6. Distinct(q)
  <2> SUFFICES ASSUME NEW j \in 1 .. n - 1, NEW k \in 1 .. n - 1, q[j] = q[k] PROVE j = k
      BY <1>1 DEF Distinct
  <2>1. PICK a \in 1 .. n : q[j] = s[a] /\ a = IF j < i THEN j ELSE j + 1
      BY <1>4
  <2>2. PICK b \in 1 .. n : q[k] = s[b] /\ b = IF k < i THEN k ELSE k + 1
      BY <1>4
  <2>3. a = b
      BY <2>1, <2>2, <1>3
  <2> QED
      BY <2>1, <2>2, <2>3, <1>1
<1>7. ASSUME NEW e \in Elems(q) PROVE e \in Elems(s) \ {s[i]}
  <2>1. PICK j \in 1 .. n - 1 : e = q[j]
      BY <1>1, <1>7 DEF Elems
  <2>2. PICK k \in 1 .. n : k # i /\ q[j] = s[k]
      BY <1>4
  <2> QED
      BY <2>1, <2>2, <1>1, <1>3 DEF Elems
<1>8. ASSUME NEW e \in Elems(s) \ {s[i]} PROVE e \in Elems(q)
  <2>1. PICK k \in 1 .. n : e = s[k] /\ k # i
      BY <1>1, <1>8 DEF Elems
  <2>2. PICK j \in 1 .. n - 1 : q[j] = s[k]
      BY <2>1, <1>5
  <2> QED
      BY <2>1, <2>2, <1>1 DEF Elems
<1>9. s[i] \in Elems(s)
    BY DEF Elems
<1> QED
    BY <1>6, <1>7, <1>8, <1>9

\* insertOrSet and insert take the head of the free list.
LEMMA ElemsTail ==
    ASSUME NEW s \in Seq(Elements), s # <<>>, Distinct(s)
    PROVE  Elems(Tail(s)) = Elems(s) \ {Head(s)} /\ Distinct(Tail(s)) /\ Head(s) \in Elems(s)
<1>1. PICK n \in Nat \ {0} : n = Len(s)
    OBVIOUS
<1>2. PICK q \in Seq(Elements) : /\ q = Tail(s) /\ Len(q) = n - 1
                                 /\ \A j \in 1 .. n - 1 : q[j] = s[j + 1]
    BY <1>1, HeadTailProperties
<1>3. \A j \in 1 .. n - 1 : q[j] = IF j < 1 THEN s[j] ELSE s[j + 1]
    BY <1>2
<1>4. 1 \in 1 .. Len(s) /\ Head(s) = s[1]
    BY <1>1
<1>5. /\ Len(q) = Len(s) - 1
      /\ \A j \in 1 .. Len(s) - 1 : q[j] = IF j < 1 THEN s[j] ELSE s[j + 1]
    BY <1>1, <1>2, <1>3
<1>6. Elems(q) = Elems(s) \ {s[1]} /\ Distinct(q) /\ s[1] \in Elems(s)
    BY <1>4, <1>5, ElemsWithout
<1> QED
    BY <1>2, <1>4, <1>6

\* unlinkTail takes the last element of the LRU list.
LEMMA ElemsFront ==
    ASSUME NEW s \in Seq(Elements), s # <<>>, Distinct(s)
    PROVE  Elems(Front(s)) = Elems(s) \ {Last(s)} /\ Distinct(Front(s)) /\ Last(s) \in Elems(s)
<1>1. PICK n \in Nat \ {0}, q \in Seq(Elements) :
          /\ n = Len(s) /\ q = Front(s) /\ Len(q) = n - 1 /\ Last(s) = s[n]
          /\ \A j \in 1 .. n - 1 : q[j] = s[j]
    BY FrontLemma
<1>2. \A j \in 1 .. n - 1 : q[j] = IF j < n THEN s[j] ELSE s[j + 1]
    BY <1>1
<1>3. n \in 1 .. Len(s)
    BY <1>1
<1>4. /\ Len(q) = Len(s) - 1
      /\ \A j \in 1 .. Len(s) - 1 : q[j] = IF j < n THEN s[j] ELSE s[j + 1]
    BY <1>1, <1>2
<1>5. Elems(q) = Elems(s) \ {s[n]} /\ Distinct(q) /\ s[n] \in Elems(s)
    BY <1>3, <1>4, ElemsWithout
<1> QED
    BY <1>1, <1>5

\* unlinkElement takes an element from the inside of an LRU list.
LEMMA ElemsUnlinked ==
    ASSUME NEW s \in Seq(Elements), NEW x, Unlinkable(s, x), Distinct(s)
    PROVE  Elems(Unlinked(s, x)) = Elems(s) \ {x} /\ Distinct(Unlinked(s, x)) /\ x \in Elems(s)
<1>1. PICK i \in 3 .. (Len(s) - 2), q \in Seq(Elements) :
          /\ s[i] = x /\ q = Unlinked(s, x) /\ Len(q) = Len(s) - 1
          /\ \A j \in 1 .. Len(s) - 1 : q[j] = IF j < i THEN s[j] ELSE s[j + 1]
    BY UnlinkedLemma
<1>2. i \in 1 .. Len(s)
    BY <1>1
<1> QED
    BY <1>1, <1>2, ElemsWithout

-----------------------------------------------------------------------------
(* The places of the elements after each action *)

\* A step on the slots keeps what is in the thread's hands.
LEMMA HashStepHands ==
    ASSUME HashInv, PlaceInv, NEW t \in Threads, HashStep(t)
    PROVE  PlaceInv'
<1>1. PICK me \in ThreadState : me = th[t] /\ ThreadInv(me, key)
    BY Mine
<1>2. UNCHANGED lists
    BY DEF HashStep, Probe, Found, Fill, Unlock, Visit, Leave, Find, FindKey, Shift, Again
<1>3. \E r : /\ th' = [th EXCEPT ![t] = r] /\ r.e = me.e
             /\ r.pc \notin {"evict", "relink"} /\ me.pc \notin {"evict", "relink"}
  <2>1. CASE Probe(t)
      BY <2>1, <1>1 DEF Probe, At, UnlockThen, Advance, ThreadState
  <2>2. CASE Found(t)
      BY <2>2, <1>1 DEF Found, At, UnlockThen, Advance, ThreadState
  <2>3. CASE Fill(t)
      BY <2>3, <1>1 DEF Fill, At, UnlockThen, Advance, ThreadState
  <2>4. CASE Unlock(t)
    <3>1. /\ me.pc = "unlock" /\ me.next \in {"idle", "putBack", "unlink", "link", "aborted"}
          /\ me.next = "idle" => me.e = None
        BY <2>4, <1>1 DEF Unlock, At, ThreadInv, OpAt, ElementAt
    <3> QED
        BY <2>4, <3>1, <1>1, GoIdle DEF Unlock, ThreadState
  <2>5. CASE Visit(t)
      BY <2>5, <1>1 DEF Visit, At, ThreadState, HashInv, ThreadTypes
  <2>6. CASE Leave(t)
    <3>1. me.pc = "leave" /\ me.e = None
        BY <2>6, <1>1 DEF Leave, At, ThreadInv, OpAt, ElementAt
    <3> QED
        BY <2>6, <3>1, <1>1, GoIdle DEF Leave, ThreadState
  <2>7. CASE Find(t)
      BY <2>7, <1>1 DEF Find, At, UnlockThen, Advance, ThreadState
  <2>8. CASE FindKey(t)
      BY <2>8, <1>1 DEF FindKey, At, UnlockThen, Advance, ThreadState
  <2>9. CASE Shift(t)
      BY <2>9, <1>1 DEF Shift, At, UnlockThen, Advance, AfterMove, ThreadState
  <2>10. CASE Again(t)
      BY <2>10, <1>1 DEF Again, At, Advance, ThreadState, HashInv, ThreadTypes
  <2> QED
      BY <2>1, <2>2, <2>3, <2>4, <2>5, <2>6, <2>7, <2>8, <2>9, <2>10 DEF HashStep
<1>4. PICK r : /\ th' = [th EXCEPT ![t] = r] /\ r.e = me.e
               /\ r.pc \notin {"evict", "relink"} /\ me.pc \notin {"evict", "relink"}
    BY <1>3
<1>5. th'[t] = r /\ \A u \in Threads : u # t => th'[u] = th[u]
    BY <1>4 DEF HashInv, ThreadTypes
<1>6. HandOf(r) = HandOf(me)
    BY <1>4 DEF HandOf
<1>7. \A u \in Threads : HandOf(th'[u]) = HandOf(th[u])
    BY <1>1, <1>5, <1>6
<1>8. \A u \in Threads : th'[u].pc = "relink" => th'[u].e # th'[u].x
    BY <1>4, <1>5 DEF PlaceInv, At
<1> QED
    BY <1>2, <1>7, <1>8, ElementsStay

\* A call takes an element from the free list into the thread's hands.
LEMMA CallPlaces ==
    ASSUME HashInv, PlaceInv, NEW t \in Threads, NEW o \in Ops \ {"process"}, NEW k \in Keys,
           NEW v \in Values \cup {None}, Call(t, o, k, v)
    PROVE  PlaceInv'
<1>1. th[t].pc = "idle" /\ th[t] = Idle /\ lru' = lru
    BY Mine DEF Call, At, ThreadInv, OpAt
<1>2. free[t] # <<>> /\ free \in [Threads -> Seq(Elements)] /\ free[t] \in Seq(Elements)
  <2>1. None \notin Inserts
      BY MarkAssumption DEF Operations, Inserts
  <2> QED
      BY <2>1, <1>1, GoIdle, HasFree DEF HashInv, TableTypes
<1>3. PICK r : /\ th' = [th EXCEPT ![t] = r] /\ r.pc \in {"probe", "findKey"}
               /\ r.e = IF o \in {"insert", "insertOrSet"} THEN Head(free[t]) ELSE None
  <2>1. PICK e : e = IF o \in {"insert", "insertOrSet"} THEN Head(free[t]) ELSE None
      OBVIOUS
  <2>2. PICK l \in {"findKey", "probe"} : l = IF o = "remove" THEN "findKey" ELSE "probe"
      OBVIOUS
  <2>3. PICK r : r = [Idle EXCEPT !.pc = l, !.op = o, !.key = k, !.val = v,
                                  !.start = Home[k], !.e = e]
      OBVIOUS
  <2>4. r.pc = l /\ r.e = e
      BY <2>3, GoIdle DEF ThreadState
  <2>5. th' = [th EXCEPT ![t] = r]
      BY <2>1, <2>2, <2>3 DEF Call
  <2> QED
      BY <2>1, <2>2, <2>4, <2>5
<1>4. th'[t] = r /\ \A u \in Threads : u # t => th'[u] = th[u]
    BY <1>3 DEF HashInv, ThreadTypes
<1>5. HandOf(th[t]) = {}
    BY <1>1, GoIdle DEF HandOf
<1>6. \A u \in Threads : th'[u].pc = "relink" => th'[u].e # th'[u].x
    BY <1>3, <1>4 DEF PlaceInv, At
<1>7. CASE o \in {"insert", "insertOrSet"}
  <2>1. PICK x \in Elements : x = Head(free[t])
      BY <1>2
  <2>2. /\ Elems(Tail(free[t])) = Elems(free[t]) \ {x} /\ Distinct(Tail(free[t]))
        /\ x \in Elems(free[t])
      BY <2>1, <1>2, ElemsTail DEF PlaceInv
  <2>3. x # None
      BY MarkAssumption
  <2>4. HandOf(th'[t]) = HandOf(th[t]) \cup {x}
      BY <2>1, <2>3, <1>3, <1>4, <1>5, <1>7 DEF HandOf
  <2>5. free'[t] = Tail(free[t]) /\ \A u \in Threads : u # t => free'[u] = free[u]
      BY <1>2, <1>7 DEF Call
  <2>6. /\ PlaceOf(t, "free")' = PlaceOf(t, "free") \ {x}
        /\ PlaceOf(t, "hand")' = PlaceOf(t, "hand") \cup {x}
        /\ x \in PlaceOf(t, "free")
      BY <2>2, <2>4, <2>5 DEF PlaceOf
  <2>7. \A u \in Threads, l \in Kinds :
            (u # t \/ l # "free") /\ (u # t \/ l # "hand") => PlaceOf(u, l)' = PlaceOf(u, l)
      BY <2>5, <1>1, <1>4 DEF PlaceOf, Kinds
  <2>8. \A u \in Threads : Distinct(lru'[u]) /\ Distinct(free'[u])
      BY <2>2, <2>5, <1>1 DEF PlaceInv
  <2>9. "free" \in Kinds /\ "hand" \in Kinds
      BY DEF Kinds
  <2> QED
      BY <2>6, <2>7, <2>8, <2>9, <1>6, ElementMoves
<1>8. CASE o \notin {"insert", "insertOrSet"}
  <2>1. UNCHANGED lists
      BY <1>1, <1>8 DEF Call, lists
  <2>2. HandOf(th'[t]) = {}
      BY <1>3, <1>4, <1>8 DEF HandOf
  <2>3. \A u \in Threads : HandOf(th'[u]) = HandOf(th[u])
      BY <2>2, <1>4, <1>5
  <2> QED
      BY <2>1, <2>3, <1>6, ElementsStay
<1> QED
    BY <1>7, <1>8

\* processHash moves nothing.
LEMMA CallProcessPlaces ==
    ASSUME HashInv, PlaceInv, NEW t \in Threads, CallProcess(t)
    PROVE  PlaceInv'
<1>1. th[t].pc = "idle" /\ th[t] = Idle /\ UNCHANGED lists
    BY Mine DEF CallProcess, At, ThreadInv, OpAt
<1>2. PICK r : th' = [th EXCEPT ![t] = r] /\ r.pc = "visit" /\ r.e = None
  <2>1. PICK r : r = [Idle EXCEPT !.pc = "visit", !.op = "process"]
      OBVIOUS
  <2>2. r.pc = "visit" /\ r.e = None
      BY <2>1, GoIdle DEF ThreadState
  <2> QED
      BY <2>1, <2>2 DEF CallProcess
<1>3. th'[t] = r /\ \A u \in Threads : u # t => th'[u] = th[u]
    BY <1>2 DEF HashInv, ThreadTypes
<1>4. HandOf(th[t]) = {} /\ HandOf(r) = {}
    BY <1>1, <1>2, GoIdle DEF HandOf
<1>5. \A u \in Threads : HandOf(th'[u]) = HandOf(th[u])
    BY <1>3, <1>4
<1>6. \A u \in Threads : th'[u].pc = "relink" => th'[u].e # th'[u].x
    BY <1>2, <1>3 DEF PlaceInv, At
<1> QED
    BY <1>1, <1>5, <1>6, ElementsStay

\* An element goes from the thread's hands to its LRU list.
LEMMA HandToList ==
    ASSUME HashInv, PlaceInv, NEW t \in Threads, NEW x \in HandOf(th[t]), x \in Elements,
           lru' = [lru EXCEPT ![t] = <<x>> \o @], free' = free,
           NEW r, th' = [th EXCEPT ![t] = r], HandOf(r) = HandOf(th[t]) \ {x},
           r.pc # "relink"
    PROVE  PlaceInv'
<1>1. th'[t] = r /\ \A u \in Threads : u # t => th'[u] = th[u]
    BY DEF HashInv, ThreadTypes
<1>2. lru \in [Threads -> Seq(Elements)]
    BY DEF HashInv, TableTypes
<1>3. "lru" \in Kinds /\ "hand" \in Kinds
    BY DEF Kinds
<1>4. PlaceOf(t, "lru") \cap PlaceOf(t, "hand") = {}
    BY <1>3 DEF PlaceInv
<1>5. x \in PlaceOf(t, "hand") /\ x \notin Elems(lru[t])
    BY <1>4 DEF PlaceOf
<1>6. Elems(<<x>> \o lru[t]) = Elems(lru[t]) \cup {x} /\ Distinct(<<x>> \o lru[t])
    BY <1>2, <1>5, ElemsPrepend DEF PlaceInv
<1>7. lru'[t] = <<x>> \o lru[t] /\ \A u \in Threads : u # t => lru'[u] = lru[u]
    BY <1>2
<1>8. /\ PlaceOf(t, "hand")' = PlaceOf(t, "hand") \ {x}
      /\ PlaceOf(t, "lru")' = PlaceOf(t, "lru") \cup {x}
    BY <1>1, <1>6, <1>7 DEF PlaceOf
<1>9. \A u \in Threads, l \in Kinds :
          (u # t \/ l # "hand") /\ (u # t \/ l # "lru") => PlaceOf(u, l)' = PlaceOf(u, l)
    BY <1>1, <1>7 DEF PlaceOf, Kinds
<1>10. \A u \in Threads : Distinct(lru'[u]) /\ Distinct(free'[u])
    BY <1>6, <1>7 DEF PlaceInv
<1>11. \A u \in Threads : th'[u].pc = "relink" => th'[u].e # th'[u].x
    BY <1>1 DEF PlaceInv, At
<1> QED
    BY <1>3, <1>5, <1>8, <1>9, <1>10, <1>11, ElementMoves

\* Relinking moves the found element from the caller's hand to its list.
LEMMA RelinkPlaces ==
    ASSUME HashInv, PlaceInv, NEW t \in Threads, Relink(t)
    PROVE  PlaceInv'
<1>1. PICK me \in ThreadState : me = th[t] /\ ThreadInv(me, key)
    BY Mine
<1>2. me.pc = "relink" /\ me.x # None /\ me.x \in Elements /\ me.e # me.x
    BY <1>1 DEF Relink, At, ThreadInv, ElementAt, Goal, ThreadState, PlaceInv
<1>3. /\ me.op \in {"get", "set", "insertOrSet"}
      /\ me.op \in {"get", "set"} => me.e = None
    BY <1>1, <1>2 DEF ThreadInv, OpAt, ElementAt, Goal
<1>4. PICK r : r = FinishTouch(me)
    OBVIOUS
<1>5. r.pc # "relink" /\ HandOf(r) = HandOf(me) \ {me.x}
  <2>1. CASE me.op = "insertOrSet"
    <3>1. r.pc = "putBack" /\ r.e = me.e /\ r.x = me.x
        BY <2>1, <1>4 DEF FinishTouch, ThreadState
    <3> QED
        BY <3>1, <1>2 DEF HandOf
  <2>2. CASE me.op # "insertOrSet"
    <3>1. r = Idle /\ me.e = None
        BY <2>2, <1>3, <1>4 DEF FinishTouch
    <3> QED
        BY <3>1, <1>2, GoIdle DEF HandOf
  <2> QED
      BY <2>1, <2>2
<1>6. me.x \in HandOf(me)
    BY <1>2 DEF HandOf
<1>7. /\ lru' = [lru EXCEPT ![t] = <<me.x>> \o @] /\ free' = free
      /\ th' = [th EXCEPT ![t] = r]
    BY <1>1, <1>4 DEF Relink
<1> QED
    BY <1>1, <1>2, <1>5, <1>6, <1>7, HandToList

\* Linking moves the inserted element from the caller's hand to its list.
LEMMA LinkPlaces ==
    ASSUME HashInv, PlaceInv, NEW t \in Threads, Link(t)
    PROVE  PlaceInv'
<1>1. PICK me \in ThreadState : me = th[t] /\ ThreadInv(me, key)
    BY Mine
<1>2. me.pc = "link" /\ me.e # None /\ me.e \in Elements
    BY <1>1 DEF Link, At, ThreadInv, OpAt, ElementAt, Goal, ThreadState
<1>3. HandOf(me) = {me.e}
    BY <1>2 DEF HandOf
<1>4. PICK r : /\ th' = [th EXCEPT ![t] = r] /\ r.pc # "relink" /\ HandOf(r) = {}
  <2>1. CASE free[t] = <<>>
    <3>1. PICK r : r = [me EXCEPT !.pc = "evict"]
        OBVIOUS
    <3>2. th' = [th EXCEPT ![t] = r]
        BY <2>1, <3>1, <1>1 DEF Link, HashInv, ThreadTypes
    <3>3. r.pc = "evict"
        BY <3>1 DEF ThreadState
    <3> QED
        BY <3>2, <3>3 DEF HandOf
  <2>2. CASE free[t] # <<>>
    <3>1. th' = [th EXCEPT ![t] = Idle]
        BY <2>2 DEF Link, HashInv, ThreadTypes
    <3> QED
        BY <3>1, GoIdle DEF HandOf
  <2> QED
      BY <2>1, <2>2
<1>5. lru' = [lru EXCEPT ![t] = <<me.e>> \o @] /\ free' = free
    BY <1>1 DEF Link
<1> QED
    BY <1>1, <1>2, <1>3, <1>4, <1>5, HandToList

\* The element in the thread's hands becomes free.
LEMMA PutBackPlaces ==
    ASSUME HashInv, PlaceInv, NEW t \in Threads, PutBack(t)
    PROVE  PlaceInv'
<1>1. PICK me \in ThreadState : me = th[t] /\ ThreadInv(me, key)
    BY Mine
<1>2. me.pc = "putBack" /\ me.e # None /\ me.e \in Elements
    BY <1>1 DEF PutBack, At, ThreadInv, OpAt, ElementAt, Goal, ThreadState
<1>3. HandOf(me) = {me.e} /\ HandOf(Idle) = {} /\ Idle.pc # "relink"
    BY <1>2, GoIdle DEF HandOf
<1>4. /\ free' = [free EXCEPT ![t] = <<me.e>> \o @] /\ lru' = lru
      /\ th' = [th EXCEPT ![t] = Idle]
    BY <1>1 DEF PutBack
<1>5. th'[t] = Idle /\ \A u \in Threads : u # t => th'[u] = th[u]
    BY <1>4 DEF HashInv, ThreadTypes
<1>6. free \in [Threads -> Seq(Elements)]
    BY DEF HashInv, TableTypes
<1>7. "free" \in Kinds /\ "hand" \in Kinds
    BY DEF Kinds
<1>8. PlaceOf(t, "free") \cap PlaceOf(t, "hand") = {}
    BY <1>7 DEF PlaceInv
<1>9. me.e \in PlaceOf(t, "hand") /\ me.e \notin Elems(free[t])
    BY <1>1, <1>3, <1>8 DEF PlaceOf
<1>10. Elems(<<me.e>> \o free[t]) = Elems(free[t]) \cup {me.e} /\ Distinct(<<me.e>> \o free[t])
    BY <1>2, <1>6, <1>9, ElemsPrepend DEF PlaceInv
<1>11. free'[t] = <<me.e>> \o free[t] /\ \A u \in Threads : u # t => free'[u] = free[u]
    BY <1>4, <1>6
<1>12. /\ PlaceOf(t, "hand")' = PlaceOf(t, "hand") \ {me.e}
       /\ PlaceOf(t, "free")' = PlaceOf(t, "free") \cup {me.e}
    BY <1>1, <1>3, <1>5, <1>10, <1>11 DEF PlaceOf
<1>13. \A u \in Threads, l \in Kinds :
          (u # t \/ l # "hand") /\ (u # t \/ l # "free") => PlaceOf(u, l)' = PlaceOf(u, l)
    BY <1>4, <1>5, <1>11 DEF PlaceOf, Kinds
<1>14. \A u \in Threads : Distinct(lru'[u]) /\ Distinct(free'[u])
    BY <1>4, <1>10, <1>11 DEF PlaceInv
<1>15. \A u \in Threads : th'[u].pc = "relink" => th'[u].e # th'[u].x
    BY <1>3, <1>5 DEF PlaceInv, At
<1> QED
    BY <1>7, <1>9, <1>12, <1>13, <1>14, <1>15, ElementMoves

\* An element goes from the LRU list of thread o into the hands of thread t.
LEMMA ListToHand ==
    ASSUME HashInv, PlaceInv, NEW t \in Threads, NEW o \in Threads, NEW x \in Elems(lru[o]),
           Elems(lru'[o]) = Elems(lru[o]) \ {x}, Distinct(lru'[o]),
           \A u \in Threads : u # o => lru'[u] = lru[u], free' = free,
           NEW r, th' = [th EXCEPT ![t] = r], HandOf(r) = HandOf(th[t]) \cup {x},
           r.pc = "relink" => r.e # r.x
    PROVE  PlaceInv'
<1>1. th'[t] = r /\ \A u \in Threads : u # t => th'[u] = th[u]
    BY DEF HashInv, ThreadTypes
<1>2. "lru" \in Kinds /\ "hand" \in Kinds
    BY DEF Kinds
<1>3. /\ x \in PlaceOf(o, "lru")
      /\ PlaceOf(o, "lru")' = PlaceOf(o, "lru") \ {x}
      /\ PlaceOf(t, "hand")' = PlaceOf(t, "hand") \cup {x}
    BY <1>1 DEF PlaceOf
<1>4. \A u \in Threads, l \in Kinds :
          (u # o \/ l # "lru") /\ (u # t \/ l # "hand") => PlaceOf(u, l)' = PlaceOf(u, l)
    BY <1>1 DEF PlaceOf, Kinds
<1>5. \A u \in Threads : Distinct(lru'[u]) /\ Distinct(free'[u])
    BY DEF PlaceInv
<1>6. \A u \in Threads : th'[u].pc = "relink" => th'[u].e # th'[u].x
    BY <1>1 DEF PlaceInv, At
<1> QED
    BY <1>2, <1>3, <1>4, <1>5, <1>6, ElementMoves

\* Evicting moves the last element of the list to the caller's hand.
LEMMA EvictPlaces ==
    ASSUME HashInv, PlaceInv, NEW t \in Threads, Evict(t)
    PROVE  PlaceInv'
<1>1. PICK me \in ThreadState : me = th[t] /\ ThreadInv(me, key)
    BY Mine
<1>2. me.pc = "evict" /\ HandOf(me) = {}
    BY <1>1 DEF Evict, At, HandOf
<1>3. lru \in [Threads -> Seq(Elements)] /\ lru[t] # <<>>
    BY <1>1, <1>2 DEF HashInv, TableTypes, ListInv, At
<1>4. PICK x \in Elements : x = Last(lru[t]) /\ x # None
    BY <1>3, FrontLemma, MarkAssumption
<1>5. /\ Elems(Front(lru[t])) = Elems(lru[t]) \ {x} /\ Distinct(Front(lru[t]))
      /\ x \in Elems(lru[t])
    BY <1>3, <1>4, ElemsFront DEF PlaceInv
<1>6. lru'[t] = Front(lru[t]) /\ free' = free /\ \A u \in Threads : u # t => lru'[u] = lru[u]
    BY <1>3 DEF Evict
<1>7. PICK r : th' = [th EXCEPT ![t] = r] /\ r.pc = "find" /\ r.e = x
  <2>1. PICK r : r = [Idle EXCEPT !.pc = "find", !.op = me.op, !.e = x, !.start = Home[key[x]]]
      OBVIOUS
  <2>2. r.pc = "find" /\ r.e = x
      BY <2>1, GoIdle DEF ThreadState
  <2> QED
      BY <2>1, <2>2, <1>1, <1>4 DEF Evict
<1>8. HandOf(r) = HandOf(th[t]) \cup {x} /\ r.pc # "relink"
    BY <1>1, <1>2, <1>4, <1>7 DEF HandOf
<1> QED
    BY <1>5, <1>6, <1>7, <1>8, ListToHand

\* Unlinking moves the found element from whichever list has it to the caller's hand,
\* or moves nothing when no list has it.
LEMMA UnlinkPlaces ==
    ASSUME HashInv, PlaceInv, NEW t \in Threads, Unlink(t)
    PROVE  PlaceInv'
<1>1. PICK me \in ThreadState : me = th[t] /\ ThreadInv(me, key)
    BY Mine
<1>2. me.pc = "unlink" /\ me.x # None /\ free' = free
    BY <1>1 DEF Unlink, At, ThreadInv, ElementAt, Goal
<1>3. /\ me.op \in {"get", "set", "insertOrSet", "remove"}
      /\ me.op # "insertOrSet" => me.e = None
    BY <1>1, <1>2 DEF ThreadInv, OpAt, ElementAt, Goal
<1>4. lru' = [o \in Threads |-> IF Unlinkable(lru[o], me.x)
                                THEN Unlinked(lru[o], me.x) ELSE lru[o]]
    BY <1>1 DEF Unlink
<1>5. lru \in [Threads -> Seq(Elements)]
    BY DEF HashInv, TableTypes
<1>6. CASE \A o \in Threads : ~Unlinkable(lru[o], me.x)
  <2>1. UNCHANGED lists
      BY <1>2, <1>4, <1>5, <1>6 DEF lists
  <2>2. PICK r : th' = [th EXCEPT ![t] = r] /\ r = FinishTouch(me)
      BY <1>1, <1>6 DEF Unlink
  <2>3. HandOf(r) = HandOf(me) /\ r.pc # "relink"
    <3>1. CASE me.op = "insertOrSet"
      <4>1. r.pc = "putBack" /\ r.e = me.e
          BY <3>1, <2>2 DEF FinishTouch, ThreadState
      <4> QED
          BY <4>1, <1>2 DEF HandOf
    <3>2. CASE me.op # "insertOrSet"
      <4>1. r = Idle /\ me.e = None
          BY <3>2, <1>3, <2>2 DEF FinishTouch
      <4> QED
          BY <4>1, <1>2, GoIdle DEF HandOf
    <3> QED
        BY <3>1, <3>2
  <2>4. th'[t] = r /\ \A u \in Threads : u # t => th'[u] = th[u]
      BY <2>2 DEF HashInv, ThreadTypes
  <2>5. \A u \in Threads : HandOf(th'[u]) = HandOf(th[u])
      BY <2>3, <2>4, <1>1
  <2>6. \A u \in Threads : th'[u].pc = "relink" => th'[u].e # th'[u].x
      BY <2>3, <2>4 DEF PlaceInv, At
  <2> QED
      BY <2>1, <2>5, <2>6, ElementsStay
<1>7. CASE \E o \in Threads : Unlinkable(lru[o], me.x)
  <2>1. PICK o \in Threads : Unlinkable(lru[o], me.x)
      BY <1>7
  <2>2. /\ Elems(Unlinked(lru[o], me.x)) = Elems(lru[o]) \ {me.x}
        /\ Distinct(Unlinked(lru[o], me.x)) /\ me.x \in Elems(lru[o])
      BY <2>1, <1>5, ElemsUnlinked DEF PlaceInv
  <2>3. ASSUME NEW u \in Threads, u # o PROVE ~Unlinkable(lru[u], me.x)
    <3>1. SUFFICES ASSUME Unlinkable(lru[u], me.x) PROVE FALSE
        OBVIOUS
    <3>2. me.x \in Elems(lru[u])
        BY <3>1, <1>5, ElemsUnlinked DEF PlaceInv
    <3>3. PlaceOf(u, "lru") \cap PlaceOf(o, "lru") = {}
        BY <2>3 DEF PlaceInv, Kinds
    <3> QED
        BY <2>2, <3>2, <3>3 DEF PlaceOf
  <2>4. lru'[o] = Unlinked(lru[o], me.x) /\ \A u \in Threads : u # o => lru'[u] = lru[u]
      BY <2>1, <2>3, <1>4
  <2>5. me.x \notin HandOf(me)
    <3>1. PlaceOf(o, "lru") \cap PlaceOf(t, "hand") = {}
        BY DEF PlaceInv, Kinds
    <3> QED
        BY <3>1, <2>2, <1>1 DEF PlaceOf
  <2>6. me.e # me.x
      BY <2>5, <1>2 DEF HandOf
  <2>7. PICK r : /\ th' = [th EXCEPT ![t] = r] /\ HandOf(r) = HandOf(me) \cup {me.x}
                 /\ r.pc = "relink" => r.e # r.x
    <3>1. CASE me.op = "remove"
      <4>1. PICK r : r = [me EXCEPT !.pc = "putBack", !.e = me.x]
          OBVIOUS
      <4>2. th' = [th EXCEPT ![t] = r]
          BY <4>1, <3>1, <1>1, <1>7 DEF Unlink
      <4>3. r.pc = "putBack" /\ r.e = me.x
          BY <4>1 DEF ThreadState
      <4>4. HandOf(me) = {} /\ HandOf(r) = {me.x}
          BY <4>3, <3>1, <1>2, <1>3 DEF HandOf
      <4> QED
          BY <4>2, <4>3, <4>4
    <3>2. CASE me.op # "remove"
      <4>1. PICK r : r = [me EXCEPT !.pc = "relink"]
          OBVIOUS
      <4>2. th' = [th EXCEPT ![t] = r]
          BY <4>1, <3>2, <1>1, <1>7 DEF Unlink
      <4>3. r.pc = "relink" /\ r.e = me.e /\ r.x = me.x
          BY <4>1 DEF ThreadState
      <4>4. HandOf(r) = HandOf(me) \cup {me.x}
          BY <4>3, <1>2 DEF HandOf
      <4> QED
          BY <4>2, <4>3, <4>4, <2>6
    <3> QED
        BY <3>1, <3>2
  <2>8. PICK x \in Elems(lru[o]) : x = me.x
      BY <2>2
  <2>9. Elems(lru'[o]) = Elems(lru[o]) \ {x} /\ Distinct(lru'[o])
      BY <2>2, <2>4, <2>8
  <2>10. HandOf(r) = HandOf(th[t]) \cup {x}
      BY <2>7, <2>8, <1>1
  <2> QED
      BY <2>4, <2>7, <2>9, <2>10, <1>2, ListToHand
<1> QED
    BY <1>6, <1>7

-----------------------------------------------------------------------------
\* The elements of a thread's share are not of another's.
LEMMA SharesDiffer ==
    ASSUME NEW p \in Nat \ {0}, NEW t \in Nat \ {0}, NEW u \in Nat \ {0},
           NEW i \in 1 .. p, NEW j \in 1 .. p, (t - 1) * p + i = (u - 1) * p + j
    PROVE  t = u /\ i = j
<1>1. ASSUME NEW a \in Nat \ {0}, NEW b \in Nat \ {0}, NEW k \in 1 .. p, NEW l \in 1 .. p,
             (a - 1) * p + k = (b - 1) * p + l, a < b
      PROVE  FALSE
  <2>1. PICK d \in Nat : b = a + 1 + d
      BY <1>1
  <2>2. (b - 1) * p = (a - 1) * p + p + d * p /\ d * p \in Nat /\ (a - 1) * p \in Nat
      BY <2>1
  <2> QED
      BY <1>1, <2>2
<1>2. t = u
    BY <1>1
<1>3. (t - 1) * p \in Int
    OBVIOUS
<1> QED
    BY <1>2, <1>3

\* Quotient and remainder.
LEMMA DivLemma ==
    ASSUME NEW a \in Nat, NEW b \in Nat, b > 0
    PROVE  \E q \in Nat, r \in 0 .. b - 1 : a = q * b + r
<1>1. a = (a \div b) * b + (a % b)
    OBVIOUS
<1>2. a \div b \in Nat /\ a % b \in 0 .. b - 1
    OBVIOUS
<1> QED
    BY <1>1, <1>2

\* Every element is in the share of a thread.
LEMMA SharesCover ==
    ASSUME NEW p \in Nat \ {0}, NEW n \in Nat, NEW e \in 1 .. p * n
    PROVE  \E t \in 1 .. n, i \in 1 .. p : e = (t - 1) * p + i
<1>1. PICK q \in Nat, r \in 0 .. p - 1 : e - 1 = q * p + r
  <2>1. e - 1 \in Nat /\ p \in Nat /\ p > 0
      OBVIOUS
  <2> QED
      BY <2>1, DivLemma
<1>2. q < n
  <2>1. SUFFICES ASSUME q >= n PROVE FALSE
      OBVIOUS
  <2>2. PICK d \in Nat : q = n + d
      BY <2>1
  <2>3. q * p = p * n + d * p /\ d * p \in Nat /\ p * n \in Nat
      BY <2>2
  <2> QED
      BY <2>3, <1>1
<1>3. q + 1 \in 1 .. n /\ r + 1 \in 1 .. p /\ e = ((q + 1) - 1) * p + (r + 1)
    BY <1>1, <1>2
<1> QED
    BY <1>3

\* The list of the first thread holds the elements loaded before the start.
LEMMA LoadedList ==
    ASSUME Init, NEW m \in Nat, m = Len(Loaded)
    PROVE  /\ 1 \in Threads /\ Elems(lru[1]) = 1 .. m /\ Distinct(lru[1])
           /\ \A t \in Threads : t # 1 => lru[t] = <<>>
<1>1. PICK p \in Nat \ {0} : p = PerThread /\ m < p /\ 1 \in Threads
  <2>1. m < PerThread
      BY ParameterAssumption, LoadedAssumption
  <2>2. PICK n \in Nat \ {0} : Threads = 1 .. n /\ PerThread \in Nat \ {0}
      BY ThreadCount
  <2>3. 1 \in Threads
      BY <2>2
  <2> QED
      BY <2>1, <2>2, <2>3
<1>2. \A i \in 1 .. p : Own(1)[i] = i /\ Own(1)[i] \in Elements
  <2>1. \A i \in 1 .. p : (1 - 1) * p + i = i
      OBVIOUS
  <2> QED
      BY <2>1, <1>1, OwnLemma
<1>3. PICK s : /\ s = SubSeq(Own(1), 1, m) /\ Len(s) = m /\ \A i \in 1 .. m : s[i] = i
  <2>1. PICK o : o = Own(1) /\ \A i \in 1 .. m : o[i] = i /\ o[i] \in Elements
      BY <1>1, <1>2
  <2>2. PICK s : s = SubSeq(o, 1, m)
      OBVIOUS
  <2>3. /\ Len(s) = IF 1 <= m THEN m - 1 + 1 ELSE 0
        /\ \A i \in 1 .. m - 1 + 1 : s[i] = o[1 + i - 1]
      BY <2>1, <2>2, SubSeqProperties
  <2>4. Len(s) = m /\ \A i \in 1 .. m : s[i] = o[i]
      BY <2>3
  <2> QED
      BY <2>1, <2>2, <2>4
<1>4. PICK h : /\ h = Reverse(s) /\ Len(h) = m /\ \A i \in 1 .. m : h[i] = (m - i) + 1
  <2>1. Reverse(s) = [i \in 1 .. m |-> s[(m - i) + 1]]
      BY <1>3 DEF Reverse
  <2>2. \A i \in 1 .. m : (m - i) + 1 \in 1 .. m
      OBVIOUS
  <2>3. Reverse(s) = [i \in 1 .. m |-> (m - i) + 1]
      BY <2>1, <2>2, <1>3
  <2> QED
      BY <2>3
<1>5. Elems(h) = 1 .. m /\ Distinct(h)
  <2>1. \A e \in 1 .. m : (m - e) + 1 \in 1 .. m /\ (m - ((m - e) + 1)) + 1 = e
      OBVIOUS
  <2>2. \A e \in 1 .. m : (m - e) + 1 \in 1 .. m /\ h[(m - e) + 1] = e
      BY <2>1, <1>4
  <2>3. \A i \in 1 .. m : h[i] \in 1 .. m
      BY <1>4
  <2>4. \A i, j \in 1 .. m : h[i] = h[j] => i = j
      BY <1>4
  <2>5. Distinct(h)
      BY <2>4, <1>4 DEF Distinct
  <2>6. \A e \in Elems(h) : e \in 1 .. m
      BY <2>3, <1>4 DEF Elems
  <2>7. \A e \in 1 .. m : e \in Elems(h)
      BY <2>2, <1>4 DEF Elems
  <2> QED
      BY <2>5, <2>6, <2>7
<1>6. lru[1] = h /\ \A t \in Threads : t # 1 => lru[t] = <<>>
    BY <1>1, <1>3, <1>4 DEF Init
<1> QED
    BY <1>1, <1>5, <1>6

\* The shares of the threads are the places of the elements at the start.
LEMMA PlaceInit == Init => PlaceInv
<1> SUFFICES ASSUME Init PROVE PlaceInv
    OBVIOUS
<1>1. PICK n \in Nat \ {0}, p \in Nat \ {0}, m \in Nat :
          /\ Threads = 1 .. n /\ Elements = 1 .. p * n /\ p = PerThread
          /\ m = Len(Loaded) /\ m < p
  <2>1. Len(Loaded) \in Nat /\ Len(Loaded) < PerThread
      BY ParameterAssumption, LoadedAssumption
  <2> QED
      BY <2>1, ThreadCount
<1>2. ASSUME NEW t \in Threads
      PROVE  /\ Own(t) \in Seq(Elements) /\ Len(Own(t)) = p
             /\ \A i \in 1 .. p : Own(t)[i] = (t - 1) * p + i /\ Own(t)[i] \in Elements
    BY <1>1, OwnLemma
<1>3. 1 \in Threads /\ \A i \in 1 .. p : Own(1)[i] = i /\ Own(1)[i] \in Elements
  <2>1. \A i \in 1 .. p : (1 - 1) * p + i = i
      OBVIOUS
  <2>2. 1 \in Threads
      BY <1>1
  <2> QED
      BY <2>1, <2>2, <1>2
<1>4. PICK h : /\ Elems(h) = 1 .. m /\ Distinct(h)
               /\ lru = [t \in Threads |-> IF t = 1 THEN h ELSE <<>>]
  <2>1. lru \in [Threads -> Seq(Elements)]
      BY HashInit DEF HashInv, TableTypes
  <2> QED
      BY <2>1, <1>1, LoadedList
<1>5. PICK f : /\ f = SubSeq(Own(1), m + 1, p) /\ Len(f) = p - m
               /\ \A i \in 1 .. p - m : f[i] = m + i
  <2>1. PICK o : o = Own(1) /\ \A i \in 1 .. p : o[i] = i /\ o[i] \in Elements
      BY <1>3
  <2>2. \A i \in m + 1 .. p : o[i] \in Elements
      BY <2>1
  <2>3. PICK f : f = SubSeq(o, m + 1, p)
      OBVIOUS
  <2>4. /\ Len(f) = IF m + 1 <= p THEN p - (m + 1) + 1 ELSE 0
        /\ \A i \in 1 .. p - (m + 1) + 1 : f[i] = o[m + 1 + i - 1]
      BY <2>2, <2>3, SubSeqProperties
  <2>5. Len(f) = p - m /\ \A i \in 1 .. p - m : f[i] = o[m + i] /\ m + i \in 1 .. p
      BY <2>4, <1>1
  <2> QED
      BY <2>1, <2>3, <2>5
<1>6. /\ lru = [t \in Threads |-> IF t = 1 THEN h ELSE <<>>]
      /\ free = [t \in Threads |-> IF t = 1 THEN f ELSE Own(t)]
      /\ th = [t \in Threads |-> Idle]
    BY <1>1, <1>4, <1>5 DEF Init
<1>7. Elems(f) = m + 1 .. p /\ Distinct(f)
  <2>1. \A e \in m + 1 .. p : e - m \in 1 .. p - m /\ m + (e - m) = e
      BY <1>1
  <2>2. \A e \in m + 1 .. p : e - m \in 1 .. p - m /\ f[e - m] = e
      BY <2>1, <1>5
  <2>3. \A i \in 1 .. p - m : f[i] \in m + 1 .. p
      BY <1>1, <1>5
  <2>4. \A i, j \in 1 .. p - m : f[i] = f[j] => i = j
      BY <1>1, <1>5
  <2>5. Distinct(f)
      BY <2>4, <1>5 DEF Distinct
  <2>6. \A e \in Elems(f) : e \in m + 1 .. p
      BY <2>3, <1>5 DEF Elems
  <2>7. \A e \in m + 1 .. p : e \in Elems(f)
      BY <2>2, <1>5 DEF Elems
  <2> QED
      BY <2>5, <2>6, <2>7
<1>8. ASSUME NEW t \in Threads
       PROVE  /\ Elems(Own(t)) = {(t - 1) * p + i : i \in 1 .. p}
              /\ Distinct(Own(t))
  <2>1. t \in Nat \ {0}
      BY <1>1
  <2>2. \A i, j \in 1 .. p : (t - 1) * p + i = (t - 1) * p + j => i = j
      BY <2>1, SharesDiffer
  <2> QED
      BY <2>2, <1>2 DEF Elems, Distinct
<1>9. /\ Elems(<<>>) = {} /\ Distinct(<<>>)
    BY DEF Elems, Distinct
<1>10. HandOf(Idle) = {}
    BY GoIdle DEF HandOf
\* The share of each thread, and the places in it.
<1> DEFINE Share(t) == {(t - 1) * p + i : i \in 1 .. p}
<1>11. Share(1) = 1 .. p
  <2>1. \A i \in 1 .. p : (1 - 1) * p + i = i
      OBVIOUS
  <2> QED
      BY <2>1
<1>12. ASSUME NEW t \in Threads
       PROVE  /\ PlaceOf(t, "lru") = IF t = 1 THEN 1 .. m ELSE {}
              /\ PlaceOf(t, "free") = IF t = 1 THEN m + 1 .. p ELSE Share(t)
              /\ PlaceOf(t, "hand") = {}
    BY <1>6, <1>4, <1>7, <1>8, <1>9, <1>10 DEF PlaceOf
<1>13. ASSUME NEW t \in Threads, NEW k \in Kinds PROVE PlaceOf(t, k) \subseteq Share(t)
  <2>1. 1 .. m \subseteq 1 .. p /\ m + 1 .. p \subseteq 1 .. p
      BY <1>1
  <2>2. CASE k = "lru"
      BY <2>1, <2>2, <1>11, <1>12
  <2>3. CASE k = "free"
      BY <2>1, <2>3, <1>11, <1>12
  <2>4. CASE k = "hand"
      BY <2>4, <1>12
  <2> QED
      BY <2>2, <2>3, <2>4 DEF Kinds
<1>14. ASSUME NEW t \in Threads, NEW u \in Threads, t # u PROVE Share(t) \cap Share(u) = {}
  <2>1. t \in Nat \ {0} /\ u \in Nat \ {0}
      BY <1>1
  <2>2. \A i, j \in 1 .. p : (t - 1) * p + i # (u - 1) * p + j
      BY <2>1, <1>14, SharesDiffer
  <2> QED
      BY <2>2
<1>15. ASSUME NEW t \in Threads, NEW k \in Kinds, NEW l \in Kinds, k # l
       PROVE  PlaceOf(t, k) \cap PlaceOf(t, l) = {}
  <2>1. (1 .. m) \cap (m + 1 .. p) = {}
      BY <1>1
  <2> QED
      BY <2>1, <1>12, <1>15 DEF Kinds
<1>16. ASSUME NEW e \in Elements PROVE \E t \in Threads, k \in Kinds : e \in PlaceOf(t, k)
  <2>1. PICK t \in Threads, i \in 1 .. p : e = (t - 1) * p + i
      BY <1>1, SharesCover
  <2>2. e \in Share(t)
      BY <2>1
  <2>3. "lru" \in Kinds /\ "free" \in Kinds
      BY DEF Kinds
  <2>4. CASE t # 1
      BY <2>2, <2>3, <2>4, <1>12
  <2>5. CASE t = 1
    <3>1. e \in 1 .. p
        BY <2>2, <2>5, <1>11
    <3>2. e \in 1 .. m \/ e \in m + 1 .. p
        BY <3>1, <1>1
    <3> QED
        BY <3>2, <2>3, <2>5, <1>12
  <2> QED
      BY <2>4, <2>5
<1> HIDE DEF Share
<1>17. ASSUME NEW u \in Threads, NEW v \in Threads, NEW k \in Kinds, NEW l \in Kinds,
              u # v \/ k # l
       PROVE  PlaceOf(u, k) \cap PlaceOf(v, l) = {}
  <2>1. CASE u # v
    <3>1. Share(u) \cap Share(v) = {}
        BY <2>1, <1>14
    <3>2. PlaceOf(u, k) \subseteq Share(u) /\ PlaceOf(v, l) \subseteq Share(v)
        BY <1>13
    <3> QED
        BY <3>1, <3>2
  <2>2. CASE u = v
      BY <2>2, <1>15, <1>17
  <2> QED
      BY <2>1, <2>2
<1>18. \A u \in Threads : Distinct(lru[u]) /\ Distinct(free[u])
    BY <1>6, <1>4, <1>7, <1>8, <1>9
<1>19. \A u \in Threads : ~At(u, "relink")
    BY <1>6, GoIdle DEF At
<1> QED
    BY <1>16, <1>17, <1>18, <1>19 DEF PlaceInv

\* Every element is in one place, in every reachable state.
THEOREM PlaceInductive == Spec => []PlaceInv
<1>1. HashInv /\ PlaceInv /\ [Next]_vars => PlaceInv'
  <2> SUFFICES ASSUME HashInv, PlaceInv, [Next]_vars PROVE PlaceInv'
      OBVIOUS
  <2>1. ASSUME NEW t \in Threads, ListStep(t) PROVE PlaceInv'
      BY <2>1, UnlinkPlaces, RelinkPlaces, PutBackPlaces, LinkPlaces, EvictPlaces DEF ListStep
  <2>2. ASSUME NEW t \in Threads, NEW o \in Ops \ {"process"}, NEW k \in Keys,
               NEW v \in (IF o \in {"get", "remove"} THEN {None} ELSE Values), Call(t, o, k, v)
        PROVE  PlaceInv'
      BY <2>2, CallPlaces
  <2>3. CASE UNCHANGED vars
    <3>1. UNCHANGED lists /\ th' = th
        BY <2>3 DEF vars
    <3> QED
        BY <3>1, ElementsStay DEF PlaceInv, At
  <2> QED
      BY <2>1, <2>2, <2>3, HashStepHands, CallProcessPlaces DEF Next, Step, Stopped
<1> QED
    BY <1>1, HashInductive, PlaceInit, PTL DEF Spec

\* No element is lost or in two places at once, whatever threads do to each
\* other's lists: unlinking, relinking, eviction and the return to the free list
\* hand every element over exactly once.
THEOREM HashElementsConserved == Spec => []ElementsConserved
<1>1. HashInv /\ PlaceInv => ElementsConserved
  <2> SUFFICES ASSUME HashInv, PlaceInv PROVE ElementsConserved
      OBVIOUS
  <2> DEFINE place(p) == CASE p[2] = "lru"  -> Range(lru[p[1]])
                           [] p[2] = "free" -> Range(free[p[1]])
                           [] p[2] = "hand" -> InHand(p[1])
             places == Threads \X {"lru", "free", "hand"}
  <2>1. ASSUME NEW t \in Threads
        PROVE  Range(lru[t]) = Elems(lru[t]) /\ Range(free[t]) = Elems(free[t])
    <3>1. lru[t] \in Seq(Elements) /\ free[t] \in Seq(Elements)
        BY DEF HashInv, TableTypes
    <3>2. DOMAIN lru[t] = 1 .. Len(lru[t]) /\ DOMAIN free[t] = 1 .. Len(free[t])
        BY <3>1
    <3> QED
        BY <3>2 DEF Range, Elems
  <2>2. ASSUME NEW t \in Threads PROVE InHand(t) = HandOf(th[t])
      BY DEF InHand, HandOf, At
  <2>3. ASSUME NEW p \in places
        PROVE  p[1] \in Threads /\ p[2] \in Kinds /\ p = <<p[1], p[2]>>
               /\ place(p) = PlaceOf(p[1], p[2])
      BY <2>1, <2>2 DEF PlaceOf, Kinds
  <2>4. ASSUME NEW t \in Threads, NEW k \in Kinds
        PROVE  <<t, k>> \in places /\ place(<<t, k>>) = PlaceOf(t, k)
      BY <2>1, <2>2 DEF PlaceOf, Kinds
  <2>5. ASSUME NEW t \in Threads, NEW k \in Kinds PROVE PlaceOf(t, k) \subseteq Elements
    <3>1. lru[t] \in Seq(Elements) /\ free[t] \in Seq(Elements) /\ th[t] \in ThreadState
        BY DEF HashInv, TableTypes, ThreadTypes
    <3>2. Elems(lru[t]) \subseteq Elements /\ Elems(free[t]) \subseteq Elements
        BY <3>1 DEF Elems
    <3>3. HandOf(th[t]) \subseteq Elements
        BY <3>1 DEF HandOf, ThreadState
    <3> QED
        BY <3>2, <3>3 DEF PlaceOf, Kinds
  <2> HIDE DEF place, places
  <2>6. UNION {place(p) : p \in places} = Elements
    <3>1. ASSUME NEW e \in Elements PROVE \E p \in places : e \in place(p)
      <4>1. PICK t \in Threads, k \in Kinds : e \in PlaceOf(t, k)
          BY DEF PlaceInv
      <4> QED
          BY <4>1, <2>4
    <3>2. \A p \in places : place(p) \subseteq Elements
        BY <2>3, <2>5
    <3> QED
        BY <3>1, <3>2
  <2>7. \A p, q \in places : p # q => place(p) \cap place(q) = {}
    <3> SUFFICES ASSUME NEW p \in places, NEW q \in places, p # q
                 PROVE  place(p) \cap place(q) = {}
        OBVIOUS
    <3>1. p[1] # q[1] \/ p[2] # q[2]
        BY <2>3
    <3> QED
        BY <3>1, <2>3 DEF PlaceInv
  <2> QED
      BY <2>6, <2>7 DEF ElementsConserved, place, places
<1> QED
    BY <1>1, HashInductive, PlaceInductive, PTL
==============================================================================
