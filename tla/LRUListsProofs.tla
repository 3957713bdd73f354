--------------------------- MODULE LRUListsProofs ---------------------------
(***************************************************************************)
(* The lock-free lists stay linked, for every number of threads and        *)
(* elements: the inductive invariant behind ListsLinked,                   *)
(* ElementsConserved and NoOrphanedLock of LRULists.                       *)
(***************************************************************************)
EXTENDS LRULists, SequenceTheorems, TLAPS

-----------------------------------------------------------------------------
(* The inductive invariant *)

ThreadState == [pc : Labels, op : Ops \cup {"none"}, x : Elements \cup {END},
                spare : Elements \cup {END}, tgt : Word, lft : Word, rgt : Word,
                retry : BOOLEAN]

\* TypeOK, with the types of the records and of the history.
Types ==
    /\ links \in [Elements -> Word]
    /\ head \in [Threads -> Elements \cup {END}]
    /\ tail \in [Threads -> Elements \cup {END}]
    /\ freeListHead \in [Threads -> Elements \cup {END}]
    /\ th \in [Threads -> ThreadState]
    /\ ops \in [Threads -> 0 .. MaxOps]
    /\ known \subseteq Elements
    /\ lists \in [Threads -> Seq(Elements)]
    /\ frees \in [Threads -> Seq(Elements)]

\* a stands directly before b in s, or in some thread's list.
Consec(s, a, b) == \E i \in 1 .. Len(s) - 1 : s[i] = a /\ s[i + 1] = b
Adj(a, b) == \E o \in Threads : Consec(lists[o], a, b)

\* The LRU list, the free list and the hands of a thread.
Kinds == {"list", "free", "hand"}
PlaceOf(u, k) == CASE k = "list" -> Range(lists[u])
                   [] k = "free" -> Range(frees[u])
                   [] k = "hand" -> InHand(u)

\* Every element is in one place, and in no list twice.
PlaceInv ==
    /\ \A e \in Elements : \E u \in Threads, k \in Kinds : e \in PlaceOf(u, k)
    /\ \A u, v \in Threads, k, l \in Kinds :
          (u # v \/ k # l) => PlaceOf(u, k) \cap PlaceOf(v, l) = {}
    /\ \A u \in Threads : IsInjective(lists[u]) /\ IsInjective(frees[u])

\* ListsLinked, in terms of neighbours instead of positions.
ChainInv ==
    /\ \A a, b \in Elements : Adj(a, b) => /\ links[a].right \in {b, LOCK}
                                           /\ links[b].left \in {a, LOCK}
    /\ \A o \in Threads :
          /\ head[o] = FirstOf(lists[o]) /\ tail[o] = LastOf(lists[o])
          /\ lists[o] # <<>> => links[head[o]].left = END /\ links[tail[o]].right = END
FreeInv ==
    \A o \in Threads :
       /\ freeListHead[o] = FirstOf(frees[o])
       /\ \A x \in Range(frees[o]) :
             /\ links[x].left = END
             /\ x = LastOf(frees[o]) => links[x].right = END
             /\ \A b \in Elements : Consec(frees[o], x, b) => links[x].right = b

\* Where unlinkElement holds locks: on both links of its element, on the right
\* link of the left neighbour, on the left link of the right neighbour.
HoldsTarget == {"loadLeft", "loadRight", "left", "right", "joinLeft", "undoTarget",
                "undoBoth", "joinRight", "clear"}
HoldsLeft == {"right", "joinLeft", "undoBoth", "undoLeft"}
HoldsRight == {"joinLeft", "joinRight"}
\* Where its element is still between the neighbours it had.
Between == {"loadLeft", "loadRight", "left", "right", "joinLeft", "undoTarget", "undoBoth"}

\* What a thread knows of the words it has locked, and of their places.
LockInv(u) ==
    LET r == th[u]
    IN  /\ r.pc \in HoldsTarget => links[r.x] = Links(LOCK, LOCK)
        /\ r.pc \in HoldsLeft => /\ r.tgt.left \in Elements /\ r.lft.left \in Elements
                                 /\ r.lft.right = r.x
                                 /\ links[r.tgt.left] = Links(r.lft.left, LOCK)
        /\ r.pc \in HoldsRight => /\ r.tgt.right \in Elements /\ r.rgt.right \in Elements
                                  /\ links[r.tgt.right] = Links(LOCK, r.rgt.right)
        /\ r.pc \in Between => /\ r.tgt.left \in Elements /\ r.tgt.right \in Elements
                               /\ Adj(r.tgt.left, r.x) /\ Adj(r.x, r.tgt.right)
        /\ r.pc = "undoLeft" => Adj(r.tgt.left, r.x)
        /\ r.pc = "joinRight" => r.tgt.left \in Elements /\ Adj(r.tgt.left, r.tgt.right)

\* The words of elements outside the lists, and what the owner of a list knows
\* of its ends.
Popped(u, e) == links[e].left = END /\ links[e].right \in {END, freeListHead[u]}
HandInv(u) ==
    LET r == th[u]
    IN  /\ r.pc \in {"link", "push"} => Popped(u, r.x)
        /\ r.spare # END => Popped(u, r.spare)
        /\ r.pc \in {"headLoad", "headStore"} => /\ lists[u] # <<>>
                                                 /\ links[r.x] = Links(END, head[u])
        /\ r.pc = "headStore" => r.rgt = links[head[u]]
        /\ r.pc \in {"tail", "tailCheck", "tailCut"} => lists[u] # <<>>
        /\ r.pc \in {"tailCheck", "tailCut"} => r.x = tail[u] /\ r.tgt.left \in Elements
        /\ r.pc = "tailClear" => links[r.x].right = END

\* Which operation is where, and what it has in its hands.
Unlinking == {"lock", "loadLeft", "loadRight", "left", "right", "joinLeft", "joinRight",
              "clear", "undoTarget", "undoBoth", "undoLeft"}
Evicting == {"tail", "tailCheck", "tailCut", "tailClear"}
OpInv(u) ==
    LET r == th[u]
    IN  /\ r.pc = "idle" => r = Idle
        /\ r.pc \in Unlinking => r.op \in {"get", "set", "remove"}
        /\ r.pc \in {"link", "headLoad", "headStore"} => r.op \in {"get", "set", "insert"}
        /\ r.pc \in Evicting => r.op = "insert"
        /\ r.pc = "push" => r.op \in {"insert", "set", "remove"}
        /\ r.pc \notin {"idle", "tail"} => r.x \in Elements
        /\ r.spare # END <=> r.op = "set"
        /\ r.op = "set" => IF r.pc = "push" THEN r.x = r.spare
                           ELSE r.pc \in {"joinRight", "clear", "link", "headLoad", "headStore"}
                                => r.x # r.spare
        /\ frees[u] = <<>> => r.pc = "push" \/ r.op \in {"set", "insert"}

\* The links a thread in state r has locked.
HasTarget(r, e) == r.pc \in HoldsTarget /\ r.x = e
HasLeft(r, e) == r.pc \in HoldsLeft /\ r.tgt.left = e
HasRight(r, e) == r.pc \in HoldsRight /\ r.tgt.right = e

\* Nobody else has locked what a thread has locked, and somebody has locked
\* what is marked.
Exclusive == \A u, v \in Threads, e \in Elements : u # v =>
                /\ ~(HasTarget(th[u], e) /\ HasTarget(th[v], e))
                /\ ~(HasLeft(th[u], e) /\ HasLeft(th[v], e))
                /\ ~(HasRight(th[u], e) /\ HasRight(th[v], e))
Accounted == \A e \in Elements :
   /\ links[e].left = LOCK => \E u \in Threads : HasTarget(th[u], e) \/ HasRight(th[u], e)
   /\ links[e].right = LOCK => \E u \in Threads : HasTarget(th[u], e) \/ HasLeft(th[u], e)

ListInv == /\ Types /\ PlaceInv /\ ChainInv /\ FreeInv /\ Exclusive /\ Accounted
           /\ \A u \in Threads : LockInv(u) /\ HandInv(u) /\ OpInv(u)

-----------------------------------------------------------------------------
(* Lists: neighbours, ends, and what adding or taking out an element changes *)

\* Neighbours are different elements of the list; only the ends lack one.
LEMMA Neighbours ==
    ASSUME NEW s \in Seq(Elements), IsInjective(s), NEW a, NEW b, Consec(s, a, b)
    PROVE  /\ a \in Range(s) /\ b \in Range(s) /\ a # b
           /\ b # FirstOf(s) /\ a # LastOf(s) /\ s # <<>>
           /\ \A c : Consec(s, a, c) => c = b
           /\ \A c : Consec(s, c, b) => c = a
<1>1. PICK n \in Nat : n = Len(s) /\ DOMAIN s = 1 .. n
    OBVIOUS
<1>2. PICK i \in 1 .. n - 1 : s[i] = a /\ s[i + 1] = b
    BY <1>1 DEF Consec
<1>3. i \in 1 .. n /\ i + 1 \in 1 .. n /\ i # i + 1 /\ 1 \in 1 .. n /\ n \in 1 .. n
    OBVIOUS
<1>4. \A j, k \in 1 .. n : s[j] = s[k] => j = k
    BY <1>1 DEF IsInjective
<1>5. a \in Range(s) /\ b \in Range(s) /\ a # b
    BY <1>1, <1>2, <1>3, <1>4 DEF Range
<1>6. s # <<>>
    BY <1>1, <1>3
<1>7. FirstOf(s) = s[1] /\ LastOf(s) = s[n]
    BY <1>1, <1>6 DEF FirstOf, LastOf
<1>8. b # s[1] /\ a # s[n]
    BY <1>2, <1>3, <1>4
<1>9. ASSUME NEW c, Consec(s, a, c) PROVE c = b
  <2>1. PICK j \in 1 .. n - 1 : s[j] = a /\ s[j + 1] = c
      BY <1>1, <1>9 DEF Consec
  <2>2. j = i
      BY <2>1, <1>2, <1>4
  <2> QED
      BY <2>1, <2>2, <1>2
<1>10. ASSUME NEW c, Consec(s, c, b) PROVE c = a
  <2>1. PICK j \in 1 .. n - 1 : s[j] = c /\ s[j + 1] = b
      BY <1>1, <1>10 DEF Consec
  <2>2. j + 1 = i + 1
      BY <2>1, <1>2, <1>3, <1>4
  <2> QED
      BY <2>1, <2>2, <1>2
<1> QED
    BY <1>5, <1>6, <1>7, <1>8, <1>9, <1>10

\* An element that is not at an end has a neighbour there.
LEMMA HasNeighbours ==
    ASSUME NEW s \in Seq(Elements), NEW x \in Range(s)
    PROVE  /\ s # <<>> /\ x \in Elements
           /\ x # FirstOf(s) => \E a \in Elements : Consec(s, a, x)
           /\ x # LastOf(s) => \E b \in Elements : Consec(s, x, b)
<1>1. PICK n \in Nat : n = Len(s) /\ DOMAIN s = 1 .. n /\ \A k \in 1 .. n : s[k] \in Elements
    OBVIOUS
<1>2. PICK i \in 1 .. n : s[i] = x
    BY <1>1 DEF Range
<1>3. s # <<>>
    BY <1>1, <1>2
<1>4. FirstOf(s) = s[1] /\ LastOf(s) = s[n]
    BY <1>1, <1>3 DEF FirstOf, LastOf
<1>5. ASSUME i # 1 PROVE \E a \in Elements : Consec(s, a, x)
  <2>1. i - 1 \in 1 .. n - 1 /\ i - 1 \in 1 .. n /\ (i - 1) + 1 = i
      BY <1>5
  <2>2. s[i - 1] \in Elements /\ Consec(s, s[i - 1], x)
      BY <2>1, <1>1, <1>2 DEF Consec
  <2> QED
      BY <2>2
<1>6. ASSUME i # n PROVE \E b \in Elements : Consec(s, x, b)
  <2>1. i \in 1 .. n - 1 /\ i + 1 \in 1 .. n
      BY <1>6
  <2>2. s[i + 1] \in Elements /\ Consec(s, x, s[i + 1])
      BY <2>1, <1>1, <1>2 DEF Consec
  <2> QED
      BY <2>2
<1>7. x # FirstOf(s) => \E a \in Elements : Consec(s, a, x)
    BY <1>2, <1>4, <1>5
<1>8. x # LastOf(s) => \E b \in Elements : Consec(s, x, b)
    BY <1>2, <1>4, <1>6
<1> QED
    BY <1>1, <1>2, <1>3, <1>7, <1>8

\* The ends of a list that is not empty.
LEMMA EndsOf ==
    ASSUME NEW s \in Seq(Elements)
    PROVE  /\ s # <<>> => /\ FirstOf(s) \in Range(s) /\ LastOf(s) \in Range(s)
                          /\ FirstOf(s) \in Elements /\ LastOf(s) \in Elements
           /\ s = <<>> => FirstOf(s) = END /\ LastOf(s) = END /\ Range(s) = {}
           /\ Range(s) \subseteq Elements
<1>1. PICK n \in Nat : n = Len(s) /\ DOMAIN s = 1 .. n /\ \A k \in 1 .. n : s[k] \in Elements
    OBVIOUS
<1>2. Range(s) \subseteq Elements
    BY <1>1 DEF Range
<1>3. CASE s # <<>>
  <2>1. n # 0 /\ FirstOf(s) = s[1] /\ LastOf(s) = s[n] /\ 1 \in 1 .. n /\ n \in 1 .. n
      BY <1>1, <1>3 DEF FirstOf, LastOf
  <2> QED
      BY <2>1, <1>1, <1>3, <1>2 DEF Range
<1>4. CASE s = <<>>
    BY <1>4, <1>2 DEF FirstOf, LastOf, Range
<1> QED
    BY <1>2, <1>3, <1>4

\* linkHead: a list with a new element at its front.
LEMMA Prepended ==
    ASSUME NEW s \in Seq(Elements), IsInjective(s), NEW x \in Elements, x \notin Range(s)
    PROVE  /\ <<x>> \o s \in Seq(Elements) /\ IsInjective(<<x>> \o s)
           /\ Range(<<x>> \o s) = Range(s) \cup {x}
           /\ <<x>> \o s # <<>>
           /\ FirstOf(<<x>> \o s) = x
           /\ LastOf(<<x>> \o s) = IF s = <<>> THEN x ELSE LastOf(s)
           /\ \A a, b : Consec(<<x>> \o s, a, b) <=>
                           Consec(s, a, b) \/ (s # <<>> /\ a = x /\ b = FirstOf(s))
<1>1. PICK n \in Nat : n = Len(s) /\ DOMAIN s = 1 .. n
    OBVIOUS
<1>2. PICK q \in Seq(Elements) : /\ q = <<x>> \o s /\ Len(q) = n + 1 /\ q[1] = x
                                 /\ DOMAIN q = 1 .. n + 1
                                 /\ \A j \in 1 .. n : q[j + 1] = s[j]
  <2>1. <<x>> \in Seq(Elements) /\ Len(<<x>>) = 1 /\ <<x>>[1] = x
      OBVIOUS
  <2>2. /\ <<x>> \o s \in Seq(Elements) /\ Len(<<x>> \o s) = 1 + n
        /\ \A i \in 1 .. 1 + n : (<<x>> \o s)[i] = IF i <= 1 THEN <<x>>[i] ELSE s[i - 1]
      BY <2>1, <1>1, ConcatProperties
  <2>3. ASSUME NEW j \in 1 .. n PROVE (<<x>> \o s)[j + 1] = s[j]
    <3>1. j + 1 \in 1 .. 1 + n /\ ~(j + 1 <= 1) /\ (j + 1) - 1 = j
        OBVIOUS
    <3> QED
        BY <3>1, <2>2
  <2>4. (<<x>> \o s)[1] = x /\ Len(<<x>> \o s) = n + 1
      BY <2>1, <2>2
  <2>5. DOMAIN (<<x>> \o s) = 1 .. n + 1
      BY <2>2, <2>4
  <2> QED
      BY <2>2, <2>3, <2>4, <2>5
<1>3. \A i \in 1 .. n + 1 : i # 1 => i - 1 \in 1 .. n /\ (i - 1) + 1 = i
    OBVIOUS
<1>4. \A i \in 1 .. n + 1 : i # 1 => i - 1 \in 1 .. n /\ q[i] = s[i - 1]
    BY <1>2, <1>3
<1>5. \A j \in 1 .. n : s[j] # x
    BY <1>1 DEF Range
<1>6. \A j, k \in 1 .. n : s[j] = s[k] => j = k
    BY <1>1 DEF IsInjective
<1>7. ASSUME NEW i \in 1 .. n + 1, NEW j \in 1 .. n + 1, q[i] = q[j] PROVE i = j
  <2>1. CASE i = 1 \/ j = 1
      BY <2>1, <1>2, <1>4, <1>5, <1>7
  <2>2. CASE i # 1 /\ j # 1
    <3>1. s[i - 1] = s[j - 1] /\ i - 1 \in 1 .. n /\ j - 1 \in 1 .. n
        BY <2>2, <1>4, <1>7
    <3>2. i - 1 = j - 1
        BY <3>1, <1>6
    <3> QED
        BY <3>2
  <2> QED
      BY <2>1, <2>2
<1>8. IsInjective(q)
    BY <1>2, <1>7 DEF IsInjective
<1>9. Range(q) = Range(s) \cup {x}
  <2>1. ASSUME NEW e \in Range(q) PROVE e \in Range(s) \cup {x}
    <3>1. PICK i \in 1 .. n + 1 : e = q[i]
        BY <2>1, <1>2 DEF Range
    <3> QED
        BY <3>1, <1>1, <1>2, <1>4 DEF Range
  <2>2. ASSUME NEW e \in Range(s) PROVE e \in Range(q)
    <3>1. PICK j \in 1 .. n : e = s[j]
        BY <2>2, <1>1 DEF Range
    <3>2. j + 1 \in 1 .. n + 1 /\ q[j + 1] = e
        BY <3>1, <1>2
    <3> QED
        BY <3>2, <1>2 DEF Range
  <2>3. 1 \in DOMAIN q /\ q[1] = x
      BY <1>2
  <2>4. x \in Range(q)
      BY <2>3 DEF Range
  <2> QED
      BY <2>1, <2>2, <2>4
<1>10. q # <<>> /\ FirstOf(q) = x
    BY <1>2 DEF FirstOf
<1>11. LastOf(q) = IF s = <<>> THEN x ELSE LastOf(s)
  <2>1. CASE s = <<>>
      BY <2>1, <1>1, <1>2, <1>10 DEF LastOf
  <2>2. CASE s # <<>>
    <3>1. n \in 1 .. n
        BY <2>2, <1>1
    <3> QED
        BY <3>1, <2>2, <1>1, <1>2, <1>10 DEF LastOf
  <2> QED
      BY <2>1, <2>2
<1>12. ASSUME NEW a, NEW b, Consec(q, a, b)
       PROVE  Consec(s, a, b) \/ (s # <<>> /\ a = x /\ b = FirstOf(s))
  <2>1. PICK i \in 1 .. n : q[i] = a /\ q[i + 1] = b
      BY <1>2, <1>12 DEF Consec
  <2>2. CASE i = 1
    <3>1. s # <<>> /\ b = s[1]
        BY <2>1, <2>2, <1>1, <1>2
    <3> QED
        BY <3>1, <2>1, <2>2, <1>2 DEF FirstOf
  <2>3. CASE i # 1
    <3>1. i - 1 \in 1 .. n - 1 /\ i \in 1 .. n + 1 /\ (i - 1) + 1 = i
        BY <2>3
    <3>2. s[i - 1] = a /\ s[(i - 1) + 1] = b
        BY <2>1, <2>3, <3>1, <1>2, <1>4
    <3> QED
        BY <3>1, <3>2, <1>1 DEF Consec
  <2> QED
      BY <2>2, <2>3
<1>13. ASSUME NEW a, NEW b, Consec(s, a, b) PROVE Consec(q, a, b)
  <2>1. PICK i \in 1 .. n - 1 : s[i] = a /\ s[i + 1] = b
      BY <1>1, <1>13 DEF Consec
  <2>2. i \in 1 .. n /\ i + 1 \in 1 .. n /\ i + 1 \in 1 .. Len(q) - 1
      BY <1>2
  <2>3. q[i + 1] = a /\ q[(i + 1) + 1] = b
      BY <2>1, <2>2, <1>2
  <2> QED
      BY <2>2, <2>3 DEF Consec
<1>14. s # <<>> => Consec(q, x, FirstOf(s))
  <2> SUFFICES ASSUME s # <<>> PROVE Consec(q, x, FirstOf(s))
      OBVIOUS
  <2>1. 1 \in 1 .. n /\ 1 \in 1 .. Len(q) - 1 /\ FirstOf(s) = s[1]
      BY <1>1, <1>2 DEF FirstOf
  <2>2. q[1] = x /\ q[1 + 1] = FirstOf(s)
      BY <2>1, <1>2
  <2> QED
      BY <2>1, <2>2 DEF Consec
<1> QED
    BY <1>2, <1>8, <1>9, <1>10, <1>11, <1>12, <1>13, <1>14

\* q is s without its i-th element.
IsRemoved(s, q, i) ==
    /\ Len(q) = Len(s) - 1
    /\ \A j \in 1 .. Len(s) - 1 : q[j] = IF j < i THEN s[j] ELSE s[j + 1]

LEMMA Removed ==
    ASSUME NEW s \in Seq(Elements), NEW q \in Seq(Elements), NEW i \in 1 .. Len(s),
           IsInjective(s), IsRemoved(s, q, i)
    PROVE  /\ IsInjective(q) /\ Range(q) = Range(s) \ {s[i]}
           /\ \A a, b : Consec(q, a, b) <=>
                           \/ Consec(s, a, b) /\ a # s[i] /\ b # s[i]
                           \/ Consec(s, a, s[i]) /\ Consec(s, s[i], b)
           /\ i # 1 => FirstOf(q) = FirstOf(s)
           /\ i # Len(s) => LastOf(q) = LastOf(s)
<1>1. PICK n \in Nat \ {0} : n = Len(s) /\ i \in 1 .. n /\ DOMAIN s = 1 .. n
                             /\ DOMAIN q = 1 .. n - 1 /\ Len(q) = n - 1
    BY DEF IsRemoved
<1>2. \A j \in 1 .. n - 1 : q[j] = IF j < i THEN s[j] ELSE s[j + 1]
    BY <1>1 DEF IsRemoved
<1>3. \A j, k \in 1 .. n : s[j] = s[k] => j = k
    BY <1>1 DEF IsInjective
<1>4. ASSUME NEW j \in 1 .. n - 1
      PROVE  \E k \in 1 .. n : k # i /\ q[j] = s[k] /\ k = IF j < i THEN j ELSE j + 1
  <2>1. CASE j < i
    <3>1. j \in 1 .. n /\ j # i
        BY <2>1, <1>1
    <3> QED
        BY <3>1, <2>1, <1>2
  <2>2. CASE ~(j < i)
    <3>1. j + 1 \in 1 .. n /\ j + 1 # i
        BY <2>2, <1>1
    <3> QED
        BY <3>1, <2>2, <1>2
  <2> QED
      BY <2>1, <2>2
<1>5. ASSUME NEW k \in 1 .. n, k # i
      PROVE  \E j \in 1 .. n - 1 : q[j] = s[k] /\ j = IF k < i THEN k ELSE k - 1
  <2>1. CASE k < i
    <3>1. k \in 1 .. n - 1
        BY <2>1, <1>1
    <3> QED
        BY <3>1, <2>1, <1>2
  <2>2. CASE ~(k < i)
    <3>1. k - 1 \in 1 .. n - 1 /\ ~(k - 1 < i) /\ (k - 1) + 1 = k
        BY <2>2, <1>1, <1>5
    <3> QED
        BY <3>1, <2>2, <1>2
  <2> QED
      BY <2>1, <2>2
<1>6. IsInjective(q)
  <2> SUFFICES ASSUME NEW j \in 1 .. n - 1, NEW k \in 1 .. n - 1, q[j] = q[k] PROVE j = k
      BY <1>1 DEF IsInjective
  <2>1. PICK a \in 1 .. n : q[j] = s[a] /\ a = IF j < i THEN j ELSE j + 1
      BY <1>4
  <2>2. PICK b \in 1 .. n : q[k] = s[b] /\ b = IF k < i THEN k ELSE k + 1
      BY <1>4
  <2>3. a = b
      BY <2>1, <2>2, <1>3
  <2> QED
      BY <2>1, <2>2, <2>3, <1>1
<1>7. ASSUME NEW e \in Range(q) PROVE e \in Range(s) \ {s[i]}
  <2>1. PICK j \in 1 .. n - 1 : e = q[j]
      BY <1>1, <1>7 DEF Range
  <2>2. PICK k \in 1 .. n : k # i /\ q[j] = s[k]
      BY <1>4
  <2>3. s[k] # s[i] /\ k \in DOMAIN s
      BY <2>2, <1>1, <1>3
  <2>4. s[k] \in Range(s)
      BY <2>3 DEF Range
  <2> QED
      BY <2>1, <2>2, <2>3, <2>4
<1>8. ASSUME NEW e \in Range(s) \ {s[i]} PROVE e \in Range(q)
  <2>1. PICK k \in 1 .. n : e = s[k] /\ k # i
      BY <1>1, <1>8 DEF Range
  <2>2. PICK j \in 1 .. n - 1 : q[j] = s[k]
      BY <2>1, <1>5
  <2> QED
      BY <2>1, <2>2, <1>1 DEF Range
<1>9. ASSUME NEW a, NEW b, Consec(q, a, b)
      PROVE  \/ Consec(s, a, b) /\ a # s[i] /\ b # s[i]
             \/ Consec(s, a, s[i]) /\ Consec(s, s[i], b)
  <2>1. PICK j \in 1 .. n - 2 : q[j] = a /\ q[j + 1] = b
      BY <1>1, <1>9 DEF Consec
  <2>2. j \in 1 .. n - 1 /\ j + 1 \in 1 .. n - 1
      OBVIOUS
  <2>3. PICK k \in 1 .. n : k # i /\ a = s[k] /\ k = IF j < i THEN j ELSE j + 1
      BY <2>1, <2>2, <1>4
  <2>4. PICK m \in 1 .. n : m # i /\ b = s[m] /\ m = IF j + 1 < i THEN j + 1 ELSE (j + 1) + 1
      BY <2>1, <2>2, <1>4
  <2>5. a # s[i] /\ b # s[i]
      BY <2>3, <2>4, <1>1, <1>3
  <2>6. CASE j + 1 = i
    <3>1. k = j /\ m = i + 1 /\ j \in 1 .. n - 1 /\ i \in 1 .. n - 1
        BY <2>3, <2>4, <2>6
    <3>2. s[j] = a /\ s[j + 1] = s[i] /\ s[i + 1] = b
        BY <3>1, <2>3, <2>4, <2>6
    <3>3. Consec(s, a, s[i])
        BY <3>1, <3>2, <1>1 DEF Consec
    <3>4. Consec(s, s[i], b)
        BY <3>1, <3>2, <1>1 DEF Consec
    <3> QED
        BY <3>3, <3>4
  <2>7. CASE j + 1 # i
    <3>1. m = k + 1 /\ k \in 1 .. n - 1
        BY <2>3, <2>4, <2>7, <1>1
    <3>2. Consec(s, a, b)
        BY <3>1, <2>3, <2>4, <1>1 DEF Consec
    <3> QED
        BY <3>2, <2>5
  <2> QED
      BY <2>6, <2>7
<1>10. ASSUME NEW a, NEW b, Consec(s, a, b), a # s[i], b # s[i] PROVE Consec(q, a, b)
  <2>1. PICK k \in 1 .. n - 1 : s[k] = a /\ s[k + 1] = b
      BY <1>1, <1>10 DEF Consec
  <2>2. k \in 1 .. n /\ k + 1 \in 1 .. n /\ k # i /\ k + 1 # i
      BY <2>1, <1>1, <1>10
  <2>3. PICK j \in 1 .. n - 1 : q[j] = a /\ j = IF k < i THEN k ELSE k - 1
      BY <2>1, <2>2, <1>5
  <2>4. PICK m \in 1 .. n - 1 : q[m] = b /\ m = IF k + 1 < i THEN k + 1 ELSE (k + 1) - 1
      BY <2>1, <2>2, <1>5
  <2>5. m = j + 1 /\ j \in 1 .. (n - 1) - 1
      BY <2>2, <2>3, <2>4, <1>1
  <2> QED
      BY <2>3, <2>4, <2>5, <1>1 DEF Consec
<1>11. ASSUME NEW a, NEW b, Consec(s, a, s[i]), Consec(s, s[i], b) PROVE Consec(q, a, b)
  <2>1. PICK k \in 1 .. n - 1 : s[k] = a /\ s[k + 1] = s[i]
      BY <1>1, <1>11 DEF Consec
  <2>2. PICK m \in 1 .. n - 1 : s[m] = s[i] /\ s[m + 1] = b
      BY <1>1, <1>11 DEF Consec
  <2>3. k + 1 \in 1 .. n /\ m \in 1 .. n
      BY <2>1, <2>2
  <2>4. k + 1 = i /\ m = i
      BY <2>1, <2>2, <2>3, <1>1, <1>3
  <2>5. k \in 1 .. (n - 1) - 1 /\ k < i /\ ~(k + 1 < i) /\ k + 1 \in 1 .. n - 1 /\ k \in 1 .. n - 1
      BY <2>2, <2>4
  <2>6. q[k] = a /\ q[k + 1] = b
      BY <2>1, <2>2, <2>4, <2>5, <1>2
  <2> QED
      BY <2>5, <2>6, <1>1 DEF Consec
<1>12. ASSUME i # 1 PROVE FirstOf(q) = FirstOf(s)
  <2>1. 1 \in 1 .. n - 1 /\ 1 < i
      BY <1>1, <1>12
  <2>2. q # <<>> /\ s # <<>> /\ q[1] = s[1]
      BY <2>1, <1>1, <1>2
  <2> QED
      BY <2>2 DEF FirstOf
<1>13. ASSUME i # Len(s) PROVE LastOf(q) = LastOf(s)
  <2>1. n - 1 \in 1 .. n - 1 /\ ~(n - 1 < i) /\ (n - 1) + 1 = n
      BY <1>1, <1>13
  <2>2. q # <<>> /\ s # <<>> /\ q[n - 1] = s[n]
      BY <2>1, <1>1, <1>2
  <2> QED
      BY <2>2, <1>1 DEF LastOf
<1> QED
    BY <1>6, <1>7, <1>8, <1>9, <1>10, <1>11, <1>12, <1>13

\* unlinkElement: the neighbours of the element become neighbours.
LEMMA WithoutInner ==
    ASSUME NEW s \in Seq(Elements), IsInjective(s), NEW l, NEW x, NEW r,
           Consec(s, l, x), Consec(s, x, r)
    PROVE  /\ Without(s, x) \in Seq(Elements) /\ IsInjective(Without(s, x))
           /\ Range(Without(s, x)) = Range(s) \ {x}
           /\ Without(s, x) # <<>>
           /\ FirstOf(Without(s, x)) = FirstOf(s) /\ LastOf(Without(s, x)) = LastOf(s)
           /\ \A a, b : Consec(Without(s, x), a, b) <=>
                           \/ Consec(s, a, b) /\ a # x /\ b # x
                           \/ a = l /\ b = r
<1>1. PICK n \in Nat : n = Len(s) /\ DOMAIN s = 1 .. n /\ \A k \in 1 .. n : s[k] \in Elements
    OBVIOUS
<1>2. /\ x \in Range(s) /\ x # FirstOf(s) /\ x # LastOf(s) /\ s # <<>>
      /\ \A c : Consec(s, c, x) => c = l
      /\ \A c : Consec(s, x, c) => c = r
    BY Neighbours
<1>3. \E k \in DOMAIN s : s[k] = x
    BY <1>2 DEF Range
<1>4. PICK i \in 1 .. n : i = (CHOOSE k \in DOMAIN s : s[k] = x) /\ s[i] = x
    BY <1>1, <1>3
<1>5. i # 1 /\ i # n /\ 1 \in 1 .. n
    BY <1>1, <1>2, <1>4 DEF FirstOf, LastOf
<1>6. PICK a \in Seq(Elements) : a = SubSeq(s, 1, i - 1)
  <2>1. i - 1 \in Int /\ \A j \in 1 .. i - 1 : s[j] \in Elements
      BY <1>1
  <2>2. SubSeq(s, 1, i - 1) \in Seq(Elements)
      BY <2>1, SubSeqProperties
  <2> QED
      BY <2>2
<1>7. Len(a) = i - 1 /\ \A j \in 1 .. i - 1 : a[j] = s[j]
    BY <1>1, <1>6, SubSeqProperties
<1>8. PICK b \in Seq(Elements) : b = SubSeq(s, i + 1, n)
  <2>1. i + 1 \in Int /\ n \in Int /\ \A j \in i + 1 .. n : s[j] \in Elements
      BY <1>1
  <2>2. SubSeq(s, i + 1, n) \in Seq(Elements)
      BY <2>1, SubSeqProperties
  <2> QED
      BY <2>2
<1>9. Len(b) = n - i /\ \A j \in 1 .. n - i : b[j] = s[i + j]
    BY <1>1, <1>8, SubSeqProperties
<1>10. PICK q \in Seq(Elements) : q = Without(s, x) /\ q = a \o b
  <2>1. Without(s, x) = RemoveAt(s, i)
      BY <1>2, <1>4 DEF Without
  <2>2. RemoveAt(s, i) = a \o b
      BY <1>1, <1>6, <1>8 DEF RemoveAt
  <2>3. a \o b \in Seq(Elements)
      BY ConcatProperties
  <2> QED
      BY <2>1, <2>2, <2>3
<1>11. /\ Len(q) = Len(a) + Len(b)
       /\ \A j \in 1 .. Len(a) + Len(b) : q[j] = IF j <= Len(a) THEN a[j] ELSE b[j - Len(a)]
    BY <1>10, ConcatProperties
<1>12. Len(a) + Len(b) = n - 1
    BY <1>1, <1>7, <1>9
<1>13. ASSUME NEW j \in 1 .. n - 1
       PROVE  q[j] = IF j < i THEN s[j] ELSE s[j + 1]
  <2>1. q[j] = IF j <= i - 1 THEN a[j] ELSE b[j - (i - 1)]
      BY <1>7, <1>11, <1>12
  <2>2. CASE j < i
      BY <2>1, <2>2, <1>1, <1>7
  <2>3. CASE ~(j < i)
    <3>1. j - (i - 1) \in 1 .. n - i /\ i + (j - (i - 1)) = j + 1 /\ ~(j <= i - 1)
        BY <2>3, <1>1
    <3> QED
        BY <2>1, <2>3, <3>1, <1>9
  <2> QED
      BY <2>2, <2>3
<1>14. i \in 1 .. Len(s) /\ i # Len(s) /\ IsRemoved(s, q, i)
    BY <1>1, <1>5, <1>11, <1>12, <1>13 DEF IsRemoved
<1>15. /\ IsInjective(q) /\ Range(q) = Range(s) \ {x}
       /\ \A c, d : Consec(q, c, d) <=> \/ Consec(s, c, d) /\ c # x /\ d # x
                                        \/ Consec(s, c, x) /\ Consec(s, x, d)
       /\ FirstOf(q) = FirstOf(s) /\ LastOf(q) = LastOf(s)
    BY <1>4, <1>5, <1>14, Removed
<1>16. Len(q) # 0
    BY <1>5, <1>11, <1>12
<1>17. \A c, d : Consec(s, c, x) /\ Consec(s, x, d) <=> c = l /\ d = r
    BY <1>2
<1> QED
    BY <1>10, <1>15, <1>16, <1>17

\* A list keeps what is not in it.
LEMMA WithoutOther ==
    ASSUME NEW s, NEW x, x \notin Range(s)
    PROVE  Without(s, x) = s
    BY DEF Without

\* unlinkTail: the neighbour of the last element becomes the last.
LEMMA FrontOf ==
    ASSUME NEW s \in Seq(Elements), IsInjective(s), NEW l, Consec(s, l, LastOf(s))
    PROVE  /\ Front(s) \in Seq(Elements) /\ IsInjective(Front(s))
           /\ Range(Front(s)) = Range(s) \ {LastOf(s)}
           /\ Front(s) # <<>>
           /\ FirstOf(Front(s)) = FirstOf(s) /\ LastOf(Front(s)) = l
           /\ \A a, b : Consec(Front(s), a, b) <=> Consec(s, a, b) /\ b # LastOf(s)
<1>1. PICK n \in Nat : n = Len(s) /\ DOMAIN s = 1 .. n /\ \A k \in 1 .. n : s[k] \in Elements
    OBVIOUS
<1>2. /\ s # <<>> /\ LastOf(s) # FirstOf(s)
      /\ \A c : Consec(s, c, LastOf(s)) => c = l
    BY Neighbours
<1>3. LastOf(s) = s[n] /\ FirstOf(s) = s[1] /\ n # 0 /\ n # 1 /\ n \in 1 .. n
    BY <1>1, <1>2 DEF LastOf, FirstOf
<1>4. PICK q \in Seq(Elements) : q = Front(s) /\ q = SubSeq(s, 1, n - 1)
  <2>1. n - 1 \in Int /\ \A j \in 1 .. n - 1 : s[j] \in Elements
      BY <1>1
  <2>2. SubSeq(s, 1, n - 1) \in Seq(Elements)
      BY <2>1, SubSeqProperties
  <2> QED
      BY <2>2, <1>1 DEF Front
<1>5. Len(q) = n - 1 /\ \A j \in 1 .. n - 1 : q[j] = s[j]
    BY <1>1, <1>3, <1>4, SubSeqProperties
<1>6. n \in 1 .. Len(s) /\ IsRemoved(s, q, n)
    BY <1>1, <1>3, <1>5 DEF IsRemoved
<1>7. /\ IsInjective(q) /\ Range(q) = Range(s) \ {s[n]} /\ FirstOf(q) = FirstOf(s)
      /\ \A a, b : Consec(q, a, b) <=> \/ Consec(s, a, b) /\ a # s[n] /\ b # s[n]
                                       \/ Consec(s, a, s[n]) /\ Consec(s, s[n], b)
    BY <1>3, <1>6, Removed
<1>8. \A a, b : Consec(s, a, b) => a # s[n]
    BY <1>3, Neighbours
<1>9. q # <<>> /\ LastOf(q) = s[n - 1]
    BY <1>1, <1>3, <1>5 DEF LastOf
<1>10. Consec(s, s[n - 1], s[n])
  <2>1. n - 1 \in 1 .. n - 1 /\ (n - 1) + 1 = n
      BY <1>3
  <2> QED
      BY <2>1, <1>1 DEF Consec
<1>11. LastOf(q) = l
    BY <1>2, <1>3, <1>9, <1>10
<1> QED
    BY <1>3, <1>4, <1>7, <1>8, <1>9, <1>11

\* Taking the first element of a free list.
LEMMA TailOf ==
    ASSUME NEW s \in Seq(Elements), IsInjective(s), s # <<>>
    PROVE  /\ Tail(s) \in Seq(Elements) /\ IsInjective(Tail(s))
           /\ Range(Tail(s)) = Range(s) \ {FirstOf(s)}
           /\ Tail(s) # <<>> => LastOf(Tail(s)) = LastOf(s)
           /\ Tail(s) # <<>> => Consec(s, FirstOf(s), FirstOf(Tail(s)))
           /\ Tail(s) = <<>> => FirstOf(s) = LastOf(s)
           /\ \A a, b : Consec(Tail(s), a, b) => Consec(s, a, b)
<1>1. PICK n \in Nat \ {0} : n = Len(s) /\ DOMAIN s = 1 .. n
    OBVIOUS
<1>2. PICK q \in Seq(Elements) : /\ q = Tail(s) /\ Len(q) = n - 1
                                 /\ \A j \in 1 .. n - 1 : q[j] = s[j + 1]
  <2>1. /\ Tail(s) \in Seq(Elements) /\ Len(Tail(s)) = n - 1
        /\ \A j \in 1 .. Len(Tail(s)) : Tail(s)[j] = s[j + 1]
      BY <1>1, HeadTailProperties
  <2>2. PICK q \in Seq(Elements) : q = Tail(s)
      BY <2>1
  <2> QED
      BY <2>1, <2>2
<1>3. 1 \in 1 .. Len(s) /\ IsRemoved(s, q, 1)
    BY <1>1, <1>2 DEF IsRemoved
<1>4. FirstOf(s) = s[1] /\ LastOf(s) = s[n]
    BY <1>1 DEF FirstOf, LastOf
<1>5. /\ IsInjective(q) /\ Range(q) = Range(s) \ {s[1]}
      /\ 1 # Len(s) => LastOf(q) = LastOf(s)
    BY <1>3, Removed
<1>6. ASSUME NEW a, NEW b, Consec(q, a, b) PROVE Consec(s, a, b)
  <2>1. \/ Consec(s, a, b)
        \/ Consec(s, a, s[1]) /\ Consec(s, s[1], b)
      BY <1>3, <1>6, Removed
  <2>2. ~Consec(s, a, s[1])
      BY <1>4, Neighbours
  <2> QED
      BY <2>1, <2>2
<1>7. q = <<>> => FirstOf(s) = LastOf(s)
  <2> SUFFICES ASSUME q = <<>> PROVE s[1] = s[n]
      BY <1>1, <1>4
  <2>1. n - 1 = 0
      BY <1>2
  <2>2. n = 1
      BY <2>1
  <2> QED
      BY <2>2
<1>8. q # <<>> => LastOf(q) = LastOf(s) /\ Consec(s, FirstOf(s), FirstOf(q))
  <2> SUFFICES ASSUME q # <<>> PROVE LastOf(q) = LastOf(s) /\ Consec(s, s[1], FirstOf(q))
      BY <1>4
  <2>1. n # 1 /\ 1 \in 1 .. n - 1
      BY <1>2
  <2>2. FirstOf(q) = s[1 + 1] /\ 1 # Len(s)
      BY <2>1, <1>1, <1>2 DEF FirstOf
  <2>3. Consec(s, s[1], FirstOf(q))
      BY <2>1, <2>2, <1>1 DEF Consec
  <2> QED
      BY <2>2, <2>3, <1>5
<1> QED
    BY <1>2, <1>4, <1>5, <1>6, <1>7, <1>8

-----------------------------------------------------------------------------
(* The states of a thread *)

LEMMA Marked == END \notin Elements /\ LOCK \notin Elements /\ END # LOCK
    BY MarkAssumption

LEMMA IdleState ==
    /\ Idle \in ThreadState /\ Idle.pc = "idle" /\ Idle.op = "none" /\ Idle.x = END
    /\ Idle.spare = END
    /\ \A e : ~HasTarget(Idle, e) /\ ~HasLeft(Idle, e) /\ ~HasRight(Idle, e)
<1>1. Ends \in Word
    BY DEF Ends, Links, Word, Marks
<1>2. /\ Idle \in ThreadState /\ Idle.pc = "idle" /\ Idle.op = "none" /\ Idle.x = END
      /\ Idle.spare = END
    BY <1>1 DEF Idle, ThreadState, Labels
<1> QED
    BY <1>2 DEF HasTarget, HasLeft, HasRight, HoldsTarget, HoldsLeft, HoldsRight

\* Words.
LEMMA WordForm ==
    /\ \A a, b \in Elements \cup Marks : /\ Links(a, b) \in Word
                                         /\ Links(a, b).left = a /\ Links(a, b).right = b
    /\ \A w \in Word : /\ w.left \in Elements \cup Marks /\ w.right \in Elements \cup Marks
                       /\ w = Links(w.left, w.right)
                       /\ w.left \notin Marks => w.left \in Elements
                       /\ w.right \notin Marks => w.right \in Elements
<1>1. \A a, b \in Elements \cup Marks : /\ Links(a, b) \in Word
                                        /\ Links(a, b).left = a /\ Links(a, b).right = b
    BY DEF Links, Word
<1>2. \A w \in Word : /\ w.left \in Elements \cup Marks /\ w.right \in Elements \cup Marks
                      /\ w = Links(w.left, w.right)
    BY DEF Links, Word
<1> QED
    BY <1>1, <1>2

\* Words of elements and marks.
LEMMA LinksForm ==
    \A a, b : /\ a \in Elements \/ a = LOCK \/ a = END
              /\ b \in Elements \/ b = LOCK \/ b = END
              => Links(a, b) \in Word /\ Links(a, b).left = a /\ Links(a, b).right = b
BY WordForm DEF Marks

\* A thread and its words are of their types.
LEMMA MyTypes ==
    ASSUME Types, NEW u \in Threads
    PROVE  /\ th[u] \in ThreadState
           /\ th[u].pc \in Labels /\ th[u].op \in Ops \cup {"none"}
           /\ th[u].x \in Elements \cup {END} /\ th[u].spare \in Elements \cup {END}
           /\ th[u].tgt \in Word /\ th[u].lft \in Word /\ th[u].rgt \in Word
           /\ th[u].retry \in BOOLEAN
           /\ lists[u] \in Seq(Elements) /\ frees[u] \in Seq(Elements)
           /\ head[u] \in Elements \cup {END} /\ tail[u] \in Elements \cup {END}
           /\ freeListHead[u] \in Elements \cup {END}
<1>1. th[u] \in ThreadState
    BY DEF Types
<1> QED
    BY <1>1 DEF Types, ThreadState

\* Where Resume leads.
LEMMA Resumed ==
    ASSUME Types, NEW t \in Threads, NEW label \in Labels, NEW x \in Elements \cup {END},
           Resume(t, label, x)
    PROVE  \E r \in ThreadState : /\ th' = [th EXCEPT ![t] = r] /\ r.pc = label /\ r.x = x
                                  /\ r.op = th[t].op /\ r.spare = th[t].spare
<1>1. PICK r : r = [Idle EXCEPT !.pc = label, !.op = th[t].op, !.x = x, !.spare = th[t].spare]
    OBVIOUS
<1>2. th[t].op \in Ops \cup {"none"} /\ th[t].spare \in Elements \cup {END}
    BY MyTypes
<1>3. r \in ThreadState /\ r.pc = label /\ r.x = x /\ r.op = th[t].op /\ r.spare = th[t].spare
    BY <1>1, <1>2, IdleState DEF ThreadState
<1>4. th' = [th EXCEPT ![t] = r]
    BY <1>1 DEF Resume
<1> QED
    BY <1>3, <1>4

\* unlinkElement gives up: the caller returns, or has its spare element to
\* put back.
GivesUp(t, r) == \/ r = Idle /\ th[t].op # "set"
                 \/ /\ r.pc = "push" /\ r.op = "set" /\ th[t].op = "set"
                    /\ r.x = th[t].spare /\ r.spare = th[t].spare

LEMMA GivenUp ==
    ASSUME Types, NEW t \in Threads, UnlinkDone(t, FALSE)
    PROVE  \E r \in ThreadState : th' = [th EXCEPT ![t] = r] /\ GivesUp(t, r)
<1>1. CASE th[t].op = "set"
  <2>1. Resume(t, "push", th[t].spare)
      BY <1>1 DEF UnlinkDone
  <2>2. "push" \in Labels /\ th[t].spare \in Elements \cup {END}
      BY MyTypes DEF Labels
  <2>3. PICK r \in ThreadState : /\ th' = [th EXCEPT ![t] = r] /\ r.pc = "push"
                                 /\ r.x = th[t].spare
                                 /\ r.op = th[t].op /\ r.spare = th[t].spare
      BY <2>1, <2>2, Resumed
  <2> QED
      BY <2>3, <1>1 DEF GivesUp
<1>2. CASE th[t].op # "set"
  <2>1. th' = [th EXCEPT ![t] = Idle]
      BY <1>2 DEF UnlinkDone, Return
  <2> QED
      BY <2>1, <1>2, IdleState DEF GivesUp
<1> QED
    BY <1>1, <1>2

\* After the locks are taken back it starts again or gives up.
LEMMA Undone ==
    ASSUME Types, NEW t \in Threads, UndoDone(t)
    PROVE  \E r \in ThreadState :
              /\ th' = [th EXCEPT ![t] = r]
              /\ \/ GivesUp(t, r)
                 \/ /\ r.pc = "lock" /\ r.x = th[t].x
                    /\ r.op = th[t].op /\ r.spare = th[t].spare
<1>1. CASE th[t].retry
  <2>1. Resume(t, "lock", th[t].x)
      BY <1>1 DEF UndoDone
  <2>2. "lock" \in Labels /\ th[t].x \in Elements \cup {END}
      BY MyTypes DEF Labels
  <2> QED
      BY <2>1, <2>2, Resumed
<1>2. CASE ~th[t].retry
  <2>1. UnlinkDone(t, FALSE)
      BY <1>2 DEF UndoDone
  <2> QED
      BY <2>1, GivenUp
<1> QED
    BY <1>1, <1>2

-----------------------------------------------------------------------------
(* Places and neighbours *)

\* An element moves from one place to another.
LEMMA ElementMoves ==
    ASSUME PlaceInv, NEW a \in Threads, NEW b \in Threads, NEW i \in Kinds, NEW j \in Kinds,
           a # b \/ i # j, NEW x \in PlaceOf(a, i),
           PlaceOf(a, i)' = PlaceOf(a, i) \ {x},
           PlaceOf(b, j)' = PlaceOf(b, j) \cup {x},
           \A u \in Threads, k \in Kinds :
              (u # a \/ k # i) /\ (u # b \/ k # j) => PlaceOf(u, k)' = PlaceOf(u, k),
           \A u \in Threads : IsInjective(lists'[u]) /\ IsInjective(frees'[u])
    PROVE  PlaceInv'
<1>1. ASSUME NEW e \in Elements PROVE \E u \in Threads, k \in Kinds : e \in PlaceOf(u, k)'
  <2>1. CASE e = x
      BY <2>1
  <2>2. CASE e # x
    <3>1. PICK u \in Threads, k \in Kinds : e \in PlaceOf(u, k)
        BY DEF PlaceInv
    <3>2. e \in PlaceOf(u, k)'
        BY <3>1, <2>2
    <3> QED
        BY <3>2
  <2> QED
      BY <2>1, <2>2
<1>2. ASSUME NEW u \in Threads, NEW v \in Threads, NEW k \in Kinds, NEW l \in Kinds,
             u # v \/ k # l, NEW e, e \in PlaceOf(u, k)', e \in PlaceOf(v, l)'
      PROVE  FALSE
  <2>1. PlaceOf(u, k) \cap PlaceOf(v, l) = {}
      BY <1>2 DEF PlaceInv
  <2>2. CASE e # x
    <3>1. \A w \in Threads, m \in Kinds : e \in PlaceOf(w, m)' => e \in PlaceOf(w, m)
        BY <2>2
    <3> QED
        BY <3>1, <2>1, <1>2
  <2>3. CASE e = x
    <3>1. \A w \in Threads, m \in Kinds : x \in PlaceOf(w, m)' => w = b /\ m = j
      <4> SUFFICES ASSUME NEW w \in Threads, NEW m \in Kinds, x \in PlaceOf(w, m)',
                          w # b \/ m # j
                   PROVE  FALSE
          OBVIOUS
      <4>1. w # a \/ m # i
          OBVIOUS
      <4>2. x \in PlaceOf(w, m)
          BY <4>1
      <4>3. PlaceOf(a, i) \cap PlaceOf(w, m) = {}
          BY <4>1 DEF PlaceInv
      <4> QED
          BY <4>2, <4>3
    <3> QED
        BY <3>1, <2>3, <1>2
  <2> QED
      BY <2>2, <2>3
<1>3. \A u, v \in Threads, k, l \in Kinds :
          (u # v \/ k # l) => PlaceOf(u, k)' \cap PlaceOf(v, l)' = {}
    BY <1>2
<1> QED
    BY <1>1, <1>3 DEF PlaceInv

\* No element moves.
LEMMA ElementsStay ==
    ASSUME PlaceInv, UNCHANGED <<lists, frees>>, \A u \in Threads : InHand(u)' = InHand(u)
    PROVE  PlaceInv'
<1>1. \A u \in Threads, k \in Kinds : PlaceOf(u, k)' = PlaceOf(u, k)
    BY DEF PlaceOf, Kinds
<1>2. \A u \in Threads : IsInjective(lists'[u]) /\ IsInjective(frees'[u])
    BY DEF PlaceInv
<1>3. \A e \in Elements : \E u \in Threads, k \in Kinds : e \in PlaceOf(u, k)'
    BY <1>1 DEF PlaceInv
<1>4. \A u, v \in Threads, k, l \in Kinds :
          (u # v \/ k # l) => PlaceOf(u, k)' \cap PlaceOf(v, l)' = {}
    BY <1>1 DEF PlaceInv
<1> QED
    BY <1>2, <1>3, <1>4 DEF PlaceInv

\* The three kinds of places are disjoint, as are those of two threads.
LEMMA Apart ==
    ASSUME PlaceInv
    PROVE  /\ \A u, v \in Threads : Range(lists[u]) \cap Range(frees[v]) = {}
           /\ \A u, v \in Threads : Range(lists[u]) \cap InHand(v) = {}
           /\ \A u, v \in Threads : Range(frees[u]) \cap InHand(v) = {}
           /\ \A u, v \in Threads : u # v => /\ Range(lists[u]) \cap Range(lists[v]) = {}
                                             /\ Range(frees[u]) \cap Range(frees[v]) = {}
                                             /\ InHand(u) \cap InHand(v) = {}
<1>1. \A u \in Threads : /\ PlaceOf(u, "list") = Range(lists[u])
                         /\ PlaceOf(u, "free") = Range(frees[u])
                         /\ PlaceOf(u, "hand") = InHand(u)
    BY DEF PlaceOf
<1>2. "list" \in Kinds /\ "free" \in Kinds /\ "hand" \in Kinds
    BY DEF Kinds
<1>3. \A u, v \in Threads, k, l \in Kinds :
          (u # v \/ k # l) => PlaceOf(u, k) \cap PlaceOf(v, l) = {}
    BY DEF PlaceInv
<1>4. \A u, v \in Threads : Range(lists[u]) \cap Range(frees[v]) = {}
    BY <1>1, <1>2, <1>3
<1>5. \A u, v \in Threads : Range(lists[u]) \cap InHand(v) = {}
    BY <1>1, <1>2, <1>3
<1>6. \A u, v \in Threads : Range(frees[u]) \cap InHand(v) = {}
    BY <1>1, <1>2, <1>3
<1>7. \A u, v \in Threads : u # v => /\ Range(lists[u]) \cap Range(lists[v]) = {}
                                     /\ Range(frees[u]) \cap Range(frees[v]) = {}
                                     /\ InHand(u) \cap InHand(v) = {}
    BY <1>1, <1>2, <1>3
<1> QED
    BY <1>4, <1>5, <1>6, <1>7

\* Every element is somewhere.
LEMMA Somewhere ==
    ASSUME PlaceInv, NEW e \in Elements
    PROVE  \E u \in Threads : e \in Range(lists[u]) \/ e \in Range(frees[u]) \/ e \in InHand(u)
    BY DEF PlaceInv, PlaceOf, Kinds

\* An element has one neighbour on each side, in the same list; the ends of a
\* list and the elements outside have none there.
LEMMA OneNeighbour ==
    ASSUME Types, PlaceInv, ChainInv, NEW a, NEW b, Adj(a, b)
    PROVE  /\ a \in Elements /\ b \in Elements /\ a # b
           /\ \E o \in Threads : a \in Range(lists[o]) /\ b \in Range(lists[o])
           /\ \A c : Adj(a, c) => c = b
           /\ \A c : Adj(c, b) => c = a
           /\ \A o \in Threads : b # head[o] /\ a # tail[o]
           /\ \A u \in Threads : /\ a \notin Range(frees[u]) /\ b \notin Range(frees[u])
                                 /\ a \notin InHand(u) /\ b \notin InHand(u)
<1>1. PICK o \in Threads : Consec(lists[o], a, b)
    BY DEF Adj
<1>2. \A u \in Threads : lists[u] \in Seq(Elements) /\ IsInjective(lists[u])
    BY MyTypes DEF PlaceInv
<1>3. /\ a \in Range(lists[o]) /\ b \in Range(lists[o]) /\ a # b /\ b # FirstOf(lists[o])
      /\ a # LastOf(lists[o])
      /\ \A c : Consec(lists[o], a, c) => c = b
      /\ \A c : Consec(lists[o], c, b) => c = a
    BY <1>1, <1>2, Neighbours
<1>4. a \in Elements /\ b \in Elements
    BY <1>2, <1>3, EndsOf
<1>5. \A u \in Threads : u # o => a \notin Range(lists[u]) /\ b \notin Range(lists[u])
    BY <1>3, Apart
<1>6. \A u \in Threads : \A c : Consec(lists[u], a, c) \/ Consec(lists[u], c, b) => u = o
    BY <1>2, <1>5, Neighbours
<1>7. (\A c : Adj(a, c) => c = b) /\ (\A c : Adj(c, b) => c = a)
    BY <1>3, <1>6 DEF Adj
<1>8. ASSUME NEW u \in Threads PROVE b # head[u] /\ a # tail[u]
  <2>1. head[u] = FirstOf(lists[u]) /\ tail[u] = LastOf(lists[u])
      BY DEF ChainInv
  <2>2. CASE u = o
      BY <2>1, <2>2, <1>3
  <2>3. CASE u # o
    <3>1. CASE lists[u] = <<>>
      <4>1. FirstOf(lists[u]) = END /\ LastOf(lists[u]) = END
          BY <3>1 DEF FirstOf, LastOf
      <4> QED
          BY <4>1, <2>1, <1>4, Marked
    <3>2. CASE lists[u] # <<>>
      <4>1. FirstOf(lists[u]) \in Range(lists[u]) /\ LastOf(lists[u]) \in Range(lists[u])
          BY <3>2, <1>2, EndsOf
      <4> QED
          BY <4>1, <2>1, <2>3, <1>5
    <3> QED
        BY <3>1, <3>2
  <2> QED
      BY <2>2, <2>3
<1>9. \A u \in Threads : /\ a \notin Range(frees[u]) /\ b \notin Range(frees[u])
                         /\ a \notin InHand(u) /\ b \notin InHand(u)
    BY <1>3, Apart
<1> QED
    BY <1>3, <1>4, <1>7, <1>8, <1>9

-----------------------------------------------------------------------------
(* What one thread may not change for another *)

\* The words thread u relies on: what it has locked, what it has in its hands
\* and the head of its list.
Mine(u, e) == \/ HasTarget(th[u], e) \/ HasLeft(th[u], e) \/ HasRight(th[u], e)
              \/ e \in InHand(u)
              \/ lists[u] # <<>> /\ e = head[u]

\* The neighbours it relies on.
Needs(u, a, b) ==
    \/ th[u].pc \in Between \cup {"undoLeft"} /\ a = th[u].tgt.left /\ b = th[u].x
    \/ th[u].pc \in Between /\ a = th[u].x /\ b = th[u].tgt.right
    \/ th[u].pc = "joinRight" /\ a = th[u].tgt.left /\ b = th[u].tgt.right

\* What each kind of hand looks like.
LEMMA InHands ==
    ASSUME Types, NEW u \in Threads, OpInv(u)
    PROVE  /\ \A e \in InHand(u) :
                \/ e = th[u].spare /\ th[u].spare # END
                \/ e = th[u].x /\ th[u].pc \in {"joinRight", "clear", "link", "headLoad",
                                                "headStore", "tailClear", "push"}
           /\ th[u].spare # END => th[u].spare \in InHand(u)
           /\ th[u].pc \in {"joinRight", "clear", "link", "headLoad", "headStore", "tailClear",
                            "push"} => th[u].x \in InHand(u)
           /\ InHand(u) \subseteq Elements
<1>1. th[u].pc \in {"joinRight", "clear", "link", "headLoad", "headStore", "tailClear",
                            "push"} => th[u].x \in Elements
    BY DEF OpInv
<1>2. th[u].x \in Elements \cup {END} /\ th[u].spare \in Elements \cup {END}
    BY MyTypes
<1> QED
    BY <1>1, <1>2, Marked DEF InHand

\* The words in a thread's hands.
LEMMA HandWord ==
    ASSUME Types, ChainInv, NEW u \in Threads, LockInv(u), HandInv(u), OpInv(u),
           NEW e \in InHand(u)
    PROVE  \/ HasTarget(th[u], e) /\ links[e] = Links(LOCK, LOCK)
           \/ links[e].left = END /\ links[e].right \in {END, freeListHead[u]}
           \/ lists[u] # <<>> /\ links[e] = Links(END, head[u])
           \/ links[e].right = END
<1>1. CASE e = th[u].spare /\ th[u].spare # END
    BY <1>1 DEF HandInv, Popped
<1>2. CASE e = th[u].x /\ th[u].pc \in {"joinRight", "clear"}
    BY <1>2 DEF LockInv, HasTarget, HoldsTarget
<1>3. CASE e = th[u].x /\ th[u].pc \in {"link", "push"}
    BY <1>3 DEF HandInv, Popped
<1>4. CASE e = th[u].x /\ th[u].pc \in {"headLoad", "headStore"}
    BY <1>4 DEF HandInv
<1>5. CASE e = th[u].x /\ th[u].pc = "tailClear"
    BY <1>5 DEF HandInv
<1> QED
    BY <1>1, <1>2, <1>3, <1>4, <1>5, InHands

\* The words a thread relies on carry a mark.
LEMMA MineWord ==
    ASSUME Types, PlaceInv, ChainInv, NEW u \in Threads, LockInv(u), HandInv(u), OpInv(u),
           NEW e \in Elements, Mine(u, e)
    PROVE  \/ HasTarget(th[u], e) /\ links[e].left = LOCK /\ links[e].right = LOCK
           \/ HasLeft(th[u], e) /\ links[e].left \in Elements /\ links[e].right = LOCK
           \/ HasRight(th[u], e) /\ links[e].left = LOCK /\ links[e].right \in Elements
           \/ e \in InHand(u) /\ END \in {links[e].left, links[e].right}
           \/ e \in Range(lists[u]) /\ e = head[u] /\ links[e].left = END
<1> USE DEF Marks
<1>1. CASE HasTarget(th[u], e)
  <2>1. links[e] = Links(LOCK, LOCK)
      BY <1>1 DEF HasTarget, LockInv
  <2> QED
      BY <2>1, <1>1, WordForm
<1>2. CASE HasLeft(th[u], e)
  <2>1. links[e] = Links(th[u].lft.left, LOCK) /\ th[u].lft.left \in Elements
      BY <1>2 DEF HasLeft, LockInv
  <2>2. links[e].left = th[u].lft.left /\ links[e].right = LOCK
      BY <2>1, WordForm
  <2> QED
      BY <2>1, <2>2, <1>2
<1>3. CASE HasRight(th[u], e)
  <2>1. links[e] = Links(LOCK, th[u].rgt.right) /\ th[u].rgt.right \in Elements
      BY <1>3 DEF HasRight, LockInv
  <2>2. links[e].left = LOCK /\ links[e].right = th[u].rgt.right
      BY <2>1, WordForm
  <2> QED
      BY <2>1, <2>2, <1>3
<1>4. CASE e \in InHand(u)
  <2>1. \/ HasTarget(th[u], e) /\ links[e] = Links(LOCK, LOCK)
        \/ links[e].left = END
        \/ links[e] = Links(END, head[u])
        \/ links[e].right = END
      BY <1>4, HandWord
  <2>2. head[u] \in Elements \cup {END}
      BY MyTypes
  <2>3. Links(END, head[u]).left = END
      BY <2>2, WordForm
  <2> QED
      BY <2>1, <2>3, <1>1, <1>4
<1>5. CASE lists[u] # <<>> /\ e = head[u]
  <2>1. head[u] = FirstOf(lists[u]) /\ links[head[u]].left = END
      BY <1>5 DEF ChainInv
  <2>2. FirstOf(lists[u]) \in Range(lists[u])
      BY <1>5, MyTypes, EndsOf
  <2> QED
      BY <2>1, <2>2, <1>5
<1> QED
    BY <1>1, <1>2, <1>3, <1>4, <1>5 DEF Mine

\* A step of another thread leaves everything thread u relies on.
Undisturbed(u) ==
    /\ th'[u] = th[u] /\ head'[u] = head[u] /\ tail'[u] = tail[u]
    /\ freeListHead'[u] = freeListHead[u] /\ frees'[u] = frees[u]
    /\ lists[u] # <<>> => lists'[u] # <<>>
    /\ \A e \in Elements : Mine(u, e) => links'[e] = links[e]
    /\ \A a, b : Needs(u, a, b) /\ Adj(a, b) => Adj(a, b)'

LEMMA OtherThread ==
    ASSUME Types, PlaceInv, ChainInv, NEW u \in Threads, LockInv(u), HandInv(u), OpInv(u),
           Undisturbed(u)
    PROVE  LockInv(u)' /\ HandInv(u)' /\ OpInv(u)'
<1>1. th'[u] = th[u]
    BY DEF Undisturbed
<1>2. PICK r \in ThreadState : r = th[u] /\ r = th'[u]
    BY <1>1, MyTypes
<1>3. \A e \in Elements : Mine(u, e) => links'[e] = links[e]
    BY DEF Undisturbed
<1>4. \A a, b : Needs(u, a, b) /\ Adj(a, b) => Adj(a, b)'
    BY DEF Undisturbed
<1>5. r.pc \notin {"idle", "tail"} => r.x \in Elements
    BY <1>2 DEF OpInv
<1>6. r.x \in Elements \cup {END} /\ r.spare \in Elements \cup {END}
    BY <1>2, MyTypes
<1>7. LockInv(u)'
  <2>1. ASSUME r.pc \in HoldsTarget PROVE links'[r.x] = Links(LOCK, LOCK)
    <3>1. r.x \in Elements /\ Mine(u, r.x)
        BY <2>1, <1>2, <1>5 DEF HoldsTarget, HasTarget, Mine
    <3>2. links[r.x] = Links(LOCK, LOCK)
        BY <2>1, <1>2 DEF LockInv
    <3> QED
        BY <3>1, <3>2, <1>3
  <2>2. ASSUME r.pc \in HoldsLeft
        PROVE  /\ r.tgt.left \in Elements /\ r.lft.left \in Elements /\ r.lft.right = r.x
               /\ links'[r.tgt.left] = Links(r.lft.left, LOCK)
    <3>1. /\ r.tgt.left \in Elements /\ r.lft.left \in Elements /\ r.lft.right = r.x
          /\ links[r.tgt.left] = Links(r.lft.left, LOCK)
        BY <2>2, <1>2 DEF LockInv
    <3>2. Mine(u, r.tgt.left)
        BY <2>2, <1>2 DEF Mine, HasLeft
    <3> QED
        BY <3>1, <3>2, <1>3
  <2>3. ASSUME r.pc \in HoldsRight
        PROVE  /\ r.tgt.right \in Elements /\ r.rgt.right \in Elements
               /\ links'[r.tgt.right] = Links(LOCK, r.rgt.right)
    <3>1. /\ r.tgt.right \in Elements /\ r.rgt.right \in Elements
          /\ links[r.tgt.right] = Links(LOCK, r.rgt.right)
        BY <2>3, <1>2 DEF LockInv
    <3>2. Mine(u, r.tgt.right)
        BY <2>3, <1>2 DEF Mine, HasRight
    <3> QED
        BY <3>1, <3>2, <1>3
  <2>4. ASSUME r.pc \in Between
        PROVE  /\ r.tgt.left \in Elements /\ r.tgt.right \in Elements
               /\ Adj(r.tgt.left, r.x)' /\ Adj(r.x, r.tgt.right)'
    <3>1. /\ r.tgt.left \in Elements /\ r.tgt.right \in Elements
          /\ Adj(r.tgt.left, r.x) /\ Adj(r.x, r.tgt.right)
        BY <2>4, <1>2 DEF LockInv
    <3>2. Needs(u, r.tgt.left, r.x) /\ Needs(u, r.x, r.tgt.right)
        BY <2>4, <1>2 DEF Needs
    <3> QED
        BY <3>1, <3>2, <1>4
  <2>5. ASSUME r.pc = "undoLeft" PROVE Adj(r.tgt.left, r.x)'
    <3>1. Adj(r.tgt.left, r.x) /\ Needs(u, r.tgt.left, r.x)
        BY <2>5, <1>2 DEF LockInv, Needs
    <3> QED
        BY <3>1, <1>4
  <2>6. ASSUME r.pc = "joinRight" PROVE r.tgt.left \in Elements /\ Adj(r.tgt.left, r.tgt.right)'
    <3>1. /\ r.tgt.left \in Elements
          /\ Adj(r.tgt.left, r.tgt.right) /\ Needs(u, r.tgt.left, r.tgt.right)
        BY <2>6, <1>2 DEF LockInv, Needs
    <3> QED
        BY <3>1, <1>4
  <2>7. /\ r.tgt = th'[u].tgt /\ r.lft = th'[u].lft /\ r.rgt = th'[u].rgt /\ r.x = th'[u].x
        /\ r.pc = th'[u].pc
      BY <1>2
  <2> QED
      BY <2>1, <2>2, <2>3, <2>4, <2>5, <2>6, <2>7 DEF LockInv
<1>8. \A e \in InHand(u) : e \in Elements /\ links'[e] = links[e]
    BY <1>3, InHands DEF Mine
<1>9. HandInv(u)'
  <2>1. /\ head'[u] = head[u] /\ tail'[u] = tail[u] /\ freeListHead'[u] = freeListHead[u]
        /\ lists[u] # <<>> => lists'[u] # <<>>
      BY DEF Undisturbed
  <2>2. ASSUME r.pc \in {"link", "push"} PROVE Popped(u, r.x)'
    <3>1. Popped(u, r.x) /\ links'[r.x] = links[r.x]
        BY <2>2, <1>2, <1>8, InHands DEF HandInv
    <3> QED
        BY <3>1, <2>1 DEF Popped
  <2>3. ASSUME r.spare # END PROVE Popped(u, r.spare)'
    <3>1. Popped(u, r.spare) /\ links'[r.spare] = links[r.spare]
        BY <2>3, <1>2, <1>8, InHands DEF HandInv
    <3> QED
        BY <3>1, <2>1 DEF Popped
  <2>4. ASSUME r.pc \in {"headLoad", "headStore"}
        PROVE  lists'[u] # <<>> /\ links'[r.x] = Links(END, head'[u])
    <3>1. links'[r.x] = links[r.x]
        BY <2>4, <1>2, <1>8, InHands
    <3> QED
        BY <3>1, <2>1, <2>4, <1>2 DEF HandInv
  <2>5. ASSUME r.pc = "headStore" PROVE r.rgt = links'[head'[u]]
    <3>1. lists[u] # <<>> /\ r.rgt = links[head[u]]
        BY <2>5, <1>2 DEF HandInv
    <3>2. head[u] \in Elements
        BY <3>1, EndsOf, MyTypes DEF ChainInv
    <3>3. Mine(u, head[u])
        BY <3>1 DEF Mine
    <3> QED
        BY <3>1, <3>2, <3>3, <2>1, <1>3
  <2>6. r.pc \in {"tail", "tailCheck", "tailCut"} => lists'[u] # <<>>
      BY <2>1, <1>2 DEF HandInv
  <2>7. r.pc \in {"tailCheck", "tailCut"} => r.x = tail'[u] /\ r.tgt.left \in Elements
      BY <2>1, <1>2 DEF HandInv
  <2>8. ASSUME r.pc = "tailClear" PROVE links'[r.x].right = END
    <3>1. links'[r.x] = links[r.x]
        BY <2>8, <1>2, <1>8, InHands
    <3> QED
        BY <3>1, <2>8, <1>2 DEF HandInv
  <2>9. r = th'[u]
      BY <1>2
  <2> QED
      BY <2>2, <2>3, <2>4, <2>5, <2>6, <2>7, <2>8, <2>9 DEF HandInv
<1>10. OpInv(u)'
  <2>1. frees'[u] = frees[u]
      BY DEF Undisturbed
  <2> QED
      BY <2>1, <1>1 DEF OpInv
<1> QED
    BY <1>7, <1>9, <1>10

\* A thread takes or gives back locks.
LEMMA ClaimsAfter ==
    ASSUME Types, Exclusive, Accounted, NEW t \in Threads, NEW r, th' = [th EXCEPT ![t] = r],
           \A u \in Threads, e \in Elements : u # t =>
              /\ HasTarget(r, e) => ~HasTarget(th[u], e)
              /\ HasLeft(r, e) => ~HasLeft(th[u], e)
              /\ HasRight(r, e) => ~HasRight(th[u], e),
           \A e \in Elements : links'[e].left = LOCK =>
              \/ HasTarget(r, e) \/ HasRight(r, e)
              \/ links[e].left = LOCK /\ ~HasTarget(th[t], e) /\ ~HasRight(th[t], e),
           \A e \in Elements : links'[e].right = LOCK =>
              \/ HasTarget(r, e) \/ HasLeft(r, e)
              \/ links[e].right = LOCK /\ ~HasTarget(th[t], e) /\ ~HasLeft(th[t], e)
    PROVE  Exclusive' /\ Accounted'
<1>1. th'[t] = r /\ \A u \in Threads : u # t => th'[u] = th[u]
    BY DEF Types
<1>2. ASSUME NEW u \in Threads, NEW v \in Threads, NEW e \in Elements, u # v
      PROVE  /\ ~(HasTarget(th'[u], e) /\ HasTarget(th'[v], e))
             /\ ~(HasLeft(th'[u], e) /\ HasLeft(th'[v], e))
             /\ ~(HasRight(th'[u], e) /\ HasRight(th'[v], e))
  <2>1. CASE u = t
      BY <2>1, <1>1, <1>2
  <2>2. CASE v = t
      BY <2>2, <1>1, <1>2
  <2>3. CASE u # t /\ v # t
      BY <2>3, <1>1, <1>2 DEF Exclusive
  <2> QED
      BY <2>1, <2>2, <2>3
<1>3. Exclusive'
    BY <1>2 DEF Exclusive, HasTarget, HasLeft, HasRight
<1>4. ASSUME NEW e \in Elements, links'[e].left = LOCK
      PROVE  \E u \in Threads : HasTarget(th'[u], e) \/ HasRight(th'[u], e)
  <2>1. CASE HasTarget(r, e) \/ HasRight(r, e)
      BY <2>1, <1>1
  <2>2. CASE links[e].left = LOCK /\ ~HasTarget(th[t], e) /\ ~HasRight(th[t], e)
    <3>1. PICK u \in Threads : HasTarget(th[u], e) \/ HasRight(th[u], e)
        BY <2>2 DEF Accounted
    <3>2. u # t
        BY <3>1, <2>2
    <3> QED
        BY <3>1, <3>2, <1>1
  <2> QED
      BY <2>1, <2>2, <1>4
<1>5. ASSUME NEW e \in Elements, links'[e].right = LOCK
      PROVE  \E u \in Threads : HasTarget(th'[u], e) \/ HasLeft(th'[u], e)
  <2>1. CASE HasTarget(r, e) \/ HasLeft(r, e)
      BY <2>1, <1>1
  <2>2. CASE links[e].right = LOCK /\ ~HasTarget(th[t], e) /\ ~HasLeft(th[t], e)
    <3>1. PICK u \in Threads : HasTarget(th[u], e) \/ HasLeft(th[u], e)
        BY <2>2 DEF Accounted
    <3>2. u # t
        BY <3>1, <2>2
    <3> QED
        BY <3>1, <3>2, <1>1
  <2> QED
      BY <2>1, <2>2, <1>5
<1>6. Accounted'
    BY <1>4, <1>5 DEF Accounted, HasTarget, HasLeft, HasRight
<1> QED
    BY <1>3, <1>6

-----------------------------------------------------------------------------
(* Steps that leave all lists as they are *)

\* A step of t that is invisible to the others, but for their lists.
LEMMA Assemble ==
    ASSUME ListInv, NEW t \in Threads, NEW r \in ThreadState, th' = [th EXCEPT ![t] = r],
           Types', PlaceInv', ChainInv', FreeInv', Exclusive', Accounted',
           \A u \in Threads : u # t => Undisturbed(u),
           LockInv(t)', HandInv(t)', OpInv(t)'
    PROVE  ListInv'
<1>1. ASSUME NEW u \in Threads PROVE LockInv(u)' /\ HandInv(u)' /\ OpInv(u)'
  <2>1. CASE u = t
      BY <2>1
  <2>2. CASE u # t
    <3>1. Types /\ PlaceInv /\ ChainInv /\ LockInv(u) /\ HandInv(u) /\ OpInv(u)
        BY DEF ListInv
    <3> QED
        BY <3>1, <2>2, OtherThread
  <2> QED
      BY <2>1, <2>2
<1> QED
    BY <1>1 DEF ListInv

Still == UNCHANGED <<head, tail, freeListHead, lists, frees>>

LEMMA StillStep ==
    ASSUME ListInv, NEW t \in Threads, NEW r \in ThreadState, th' = [th EXCEPT ![t] = r],
           Still, links' \in [Elements -> Word], ops' \in [Threads -> 0 .. MaxOps],
           known' \subseteq Elements, InHand(t)' = InHand(t),
           ChainInv', FreeInv', Exclusive', Accounted',
           \A u \in Threads, e \in Elements : u # t /\ Mine(u, e) => links'[e] = links[e],
           LockInv(t)', HandInv(t)', OpInv(t)'
    PROVE  ListInv'
<1>1. Types /\ PlaceInv
    BY DEF ListInv
<1>2. th'[t] = r /\ \A u \in Threads : u # t => th'[u] = th[u]
    BY <1>1 DEF Types
<1>3. th' \in [Threads -> ThreadState]
    BY <1>1 DEF Types
<1>4. Types'
    BY <1>1, <1>3 DEF Types, Still
<1>5. ASSUME NEW u \in Threads PROVE InHand(u)' = InHand(u)
  <2>1. CASE u = t
      BY <2>1
  <2>2. CASE u # t
      BY <2>2, <1>2 DEF InHand
  <2> QED
      BY <2>1, <2>2
<1>6. PlaceInv'
    BY <1>1, <1>5, ElementsStay DEF Still
<1>7. \A a, b : Adj(a, b)' <=> Adj(a, b)
    BY DEF Adj, Still
<1>8. \A u \in Threads : u # t => Undisturbed(u)
    BY <1>2, <1>7 DEF Undisturbed, Still
<1> QED
    BY <1>4, <1>6, <1>8, Assemble

\* A step that changes nothing but the thread, which keeps its locks.
LEMMA QuietStep ==
    ASSUME ListInv, NEW t \in Threads, NEW r \in ThreadState, th' = [th EXCEPT ![t] = r],
           Still, links' = links, ops' \in [Threads -> 0 .. MaxOps],
           known' \subseteq Elements, InHand(t)' = InHand(t),
           \A e \in Elements : /\ HasTarget(r, e) <=> HasTarget(th[t], e)
                               /\ HasLeft(r, e) <=> HasLeft(th[t], e)
                               /\ HasRight(r, e) <=> HasRight(th[t], e),
           LockInv(t)', HandInv(t)', OpInv(t)'
    PROVE  ListInv'
<1>1. Types /\ ChainInv /\ FreeInv /\ Exclusive /\ Accounted
    BY DEF ListInv
<1>2. \A a, b : Adj(a, b)' <=> Adj(a, b)
    BY DEF Adj, Still
<1>3. ChainInv'
    BY <1>1, <1>2 DEF ChainInv, Still
<1>4. FreeInv'
    BY <1>1 DEF FreeInv, Still
<1>5. \A u \in Threads, e \in Elements : u # t =>
              /\ HasTarget(r, e) => ~HasTarget(th[u], e)
              /\ HasLeft(r, e) => ~HasLeft(th[u], e)
              /\ HasRight(r, e) => ~HasRight(th[u], e)
    BY <1>1 DEF Exclusive
<1>6. Exclusive' /\ Accounted'
    BY <1>1, <1>5, ClaimsAfter
<1>7. links' \in [Elements -> Word]
    BY <1>1 DEF Types
<1> QED
    BY <1>3, <1>4, <1>6, <1>7, StillStep

\* A step that writes one word, w to the links of e, which no other thread
\* relies on; w agrees with the neighbours of e.
Agrees(e, w) == /\ \A b \in Elements : Adj(e, b) => w.right \in {b, LOCK}
                /\ \A a \in Elements : Adj(a, e) => w.left \in {a, LOCK}
                /\ \A o \in Threads : /\ lists[o] # <<>> /\ e = head[o] => w.left = END
                                      /\ lists[o] # <<>> /\ e = tail[o] => w.right = END
                                      /\ e \notin Range(frees[o])

LEMMA WordStep ==
    ASSUME ListInv, NEW t \in Threads, NEW r \in ThreadState, th' = [th EXCEPT ![t] = r],
           Still, UNCHANGED <<ops, known>>, InHand(t)' = InHand(t),
           NEW e \in Elements, NEW w \in Word, links' = [links EXCEPT ![e] = w],
           Agrees(e, w), \A u \in Threads : u # t => ~Mine(u, e),
           \A d \in Elements : d # e => /\ HasTarget(r, d) <=> HasTarget(th[t], d)
                                        /\ HasLeft(r, d) <=> HasLeft(th[t], d)
                                        /\ HasRight(r, d) <=> HasRight(th[t], d),
           w.left = LOCK => HasTarget(r, e) \/ HasRight(r, e),
           w.right = LOCK => HasTarget(r, e) \/ HasLeft(r, e),
           LockInv(t)', HandInv(t)', OpInv(t)'
    PROVE  ListInv'
<1>1. /\ Types /\ ChainInv /\ FreeInv /\ Exclusive /\ Accounted /\ ops \in [Threads -> 0 .. MaxOps]
      /\ known \subseteq Elements
    BY DEF ListInv, Types
<1>2. \A a, b : Adj(a, b)' <=> Adj(a, b)
    BY DEF Adj, Still
<1>3. /\ links' \in [Elements -> Word] /\ links'[e] = w
      /\ \A d \in Elements : d # e => links'[d] = links[d]
    BY <1>1 DEF Types
<1>4. ChainInv'
  <2>1. ASSUME NEW a \in Elements, NEW b \in Elements, Adj(a, b)
        PROVE  links'[a].right \in {b, LOCK} /\ links'[b].left \in {a, LOCK}
    <3>1. links[a].right \in {b, LOCK} /\ links[b].left \in {a, LOCK}
        BY <2>1, <1>1 DEF ChainInv
    <3>2. links'[a].right \in {b, LOCK}
      <4>1. CASE a = e
          BY <4>1, <1>3, <2>1 DEF Agrees
      <4>2. CASE a # e
          BY <4>2, <1>3, <3>1
      <4> QED
          BY <4>1, <4>2
    <3>3. links'[b].left \in {a, LOCK}
      <4>1. CASE b = e
          BY <4>1, <1>3, <2>1 DEF Agrees
      <4>2. CASE b # e
          BY <4>2, <1>3, <3>1
      <4> QED
          BY <4>1, <4>2
    <3> QED
        BY <3>2, <3>3
  <2>2. ASSUME NEW o \in Threads
        PROVE  /\ head'[o] = FirstOf(lists'[o]) /\ tail'[o] = LastOf(lists'[o])
               /\ lists'[o] # <<>> => links'[head'[o]].left = END /\ links'[tail'[o]].right = END
    <3>1. head[o] = FirstOf(lists[o]) /\ tail[o] = LastOf(lists[o])
        BY <1>1 DEF ChainInv
    <3>2. ASSUME lists[o] # <<>> PROVE links'[head[o]].left = END /\ links'[tail[o]].right = END
      <4>1. head[o] \in Elements /\ tail[o] \in Elements
          BY <3>1, <3>2, <1>1, EndsOf, MyTypes
      <4>2. links[head[o]].left = END /\ links[tail[o]].right = END
          BY <3>2, <1>1 DEF ChainInv
      <4>3. links'[head[o]].left = END
          BY <4>1, <4>2, <3>2, <1>3 DEF Agrees
      <4>4. links'[tail[o]].right = END
          BY <4>1, <4>2, <3>2, <1>3 DEF Agrees
      <4> QED
          BY <4>3, <4>4
    <3> QED
        BY <3>1, <3>2 DEF Still
  <2> QED
      BY <2>1, <2>2, <1>2 DEF ChainInv
<1>5. FreeInv'
  <2>1. ASSUME NEW o \in Threads, NEW x \in Range(frees[o]) PROVE links'[x] = links[x]
    <3>1. x \in Elements /\ x # e
        BY <2>1, <1>1, EndsOf, MyTypes DEF Agrees
    <3> QED
        BY <3>1, <1>3
  <2> QED
      BY <2>1, <1>1 DEF FreeInv, Still
<1>6. \A u \in Threads : u # t => /\ ~HasTarget(th[u], e) /\ ~HasLeft(th[u], e)
                                  /\ ~HasRight(th[u], e)
    BY DEF Mine
<1>7. ASSUME NEW u \in Threads, NEW d \in Elements, u # t
      PROVE  /\ HasTarget(r, d) => ~HasTarget(th[u], d)
             /\ HasLeft(r, d) => ~HasLeft(th[u], d)
             /\ HasRight(r, d) => ~HasRight(th[u], d)
  <2>1. CASE d = e
      BY <2>1, <1>6, <1>7
  <2>2. CASE d # e
      BY <2>2, <1>1, <1>7 DEF Exclusive
  <2> QED
      BY <2>1, <2>2
<1>8. ASSUME NEW d \in Elements, links'[d].left = LOCK
      PROVE  \/ HasTarget(r, d) \/ HasRight(r, d)
             \/ links[d].left = LOCK /\ ~HasTarget(th[t], d) /\ ~HasRight(th[t], d)
  <2>1. CASE d = e
      BY <2>1, <1>3, <1>8
  <2>2. CASE d # e
      BY <2>2, <1>3, <1>8
  <2> QED
      BY <2>1, <2>2
<1>9. ASSUME NEW d \in Elements, links'[d].right = LOCK
      PROVE  \/ HasTarget(r, d) \/ HasLeft(r, d)
             \/ links[d].right = LOCK /\ ~HasTarget(th[t], d) /\ ~HasLeft(th[t], d)
  <2>1. CASE d = e
      BY <2>1, <1>3, <1>9
  <2>2. CASE d # e
      BY <2>2, <1>3, <1>9
  <2> QED
      BY <2>1, <2>2
<1>10. Exclusive' /\ Accounted'
    BY <1>1, <1>7, <1>8, <1>9, ClaimsAfter
<1>11. \A u \in Threads, d \in Elements : u # t /\ Mine(u, d) => links'[d] = links[d]
    BY <1>3
<1>12. ops' \in [Threads -> 0 .. MaxOps] /\ known' \subseteq Elements
    BY <1>1
<1> QED
    BY <1>3, <1>4, <1>5, <1>10, <1>11, <1>12, StillStep

-----------------------------------------------------------------------------
(* One lemma per action *)

LEMMA StillAdj == ASSUME Still PROVE \A a, b : Adj(a, b)' <=> Adj(a, b)
    BY DEF Still, Adj

\* What a thread at its next step knows.
LEMMA Knows ==
    ASSUME ListInv, NEW t \in Threads
    PROVE  /\ Types /\ PlaceInv /\ ChainInv /\ FreeInv /\ Exclusive /\ Accounted
           /\ LockInv(t) /\ HandInv(t) /\ OpInv(t)
           /\ th[t] \in ThreadState
           /\ ops \in [Threads -> 0 .. MaxOps] /\ known \subseteq Elements
           /\ links \in [Elements -> Word]
           /\ \A r : th' = [th EXCEPT ![t] = r] => th'[t] = r
    BY MyTypes DEF ListInv, Types

LEMMA CountedOps ==
    ASSUME ListInv, NEW t \in Threads, NEW o, Start(t, o)
    PROVE  ops' \in [Threads -> 0 .. MaxOps] /\ o \in Ops /\ th[t] = Idle
<1>1. ops \in [Threads -> 0 .. MaxOps] /\ OpInv(t)
    BY Knows
<1>2. ops' = [ops EXCEPT ![t] = @ + 1] /\ ops[t] < MaxOps /\ o \in Ops /\ th[t].pc = "idle"
    BY DEF Start, At
<1>3. ops[t] + 1 \in 0 .. MaxOps
    BY <1>1, <1>2, InitAssumption
<1> QED
    BY <1>1, <1>2, <1>3 DEF OpInv

\* get, set and remove start to unlink an element that need not be listed.
LEMMA CallStep ==
    ASSUME ListInv, NEW t \in Threads, NEW x \in known, CallGet(t, x) \/ CallRemove(t, x)
    PROVE  ListInv'
<1>1. PICK o \in {"get", "remove"} :
          /\ Start(t, o) /\ UNCHANGED <<links, heads, known, history>>
          /\ th' = [th EXCEPT ![t] = [th[t] EXCEPT !.pc = "lock", !.op = o, !.x = x]]
    BY DEF CallGet, CallRemove
<1>2. ops' \in [Threads -> 0 .. MaxOps] /\ o \in Ops /\ th[t] = Idle /\ x \in Elements
    BY <1>1, CountedOps, Knows
<1>3. PICK r : r = [Idle EXCEPT !.pc = "lock", !.op = o, !.x = x]
    OBVIOUS
<1>4. r \in ThreadState /\ r.pc = "lock" /\ r.op = o /\ r.x = x /\ r.spare = END
    BY <1>2, <1>3, IdleState DEF ThreadState, Labels
<1>5. th' = [th EXCEPT ![t] = r] /\ th'[t] = r
    BY <1>1, <1>2, <1>3, Knows
<1>6. Still /\ links' = links /\ known' = known
    BY <1>1 DEF Still, heads, history
<1>7. InHand(t)' = InHand(t)
    BY <1>2, <1>4, <1>5, IdleState DEF InHand
<1>8. \A e : ~HasTarget(r, e) /\ ~HasLeft(r, e) /\ ~HasRight(r, e)
    BY <1>4 DEF HasTarget, HasLeft, HasRight, HoldsTarget, HoldsLeft, HoldsRight
<1>9. LockInv(t)'
    BY <1>4, <1>5 DEF LockInv, HoldsTarget, HoldsLeft, HoldsRight, Between
<1>10. HandInv(t)'
    BY <1>4, <1>5 DEF HandInv
<1>11. frees[t] # <<>>
    BY <1>2, IdleState, Knows DEF OpInv
<1>12. OpInv(t)'
    BY <1>2, <1>4, <1>5, <1>6, <1>11 DEF OpInv, Unlinking, Evicting, Still
<1>13. known' \subseteq Elements
    BY <1>6, Knows
<1> QED
    BY <1>2, <1>4, <1>5, <1>6, <1>7, <1>8, <1>9, <1>10, <1>12, <1>13, IdleState, QuietStep

\* unlinkElement is over without success.
LEMMA GivingUp ==
    ASSUME ListInv, NEW t \in Threads, NEW r \in ThreadState, th' = [th EXCEPT ![t] = r], Still,
           th[t].pc \in Unlinking \ {"joinRight", "clear"}, GivesUp(t, r),
           th[t].spare # END => links'[th[t].spare] = links[th[t].spare]
    PROVE  /\ LockInv(t)' /\ HandInv(t)' /\ OpInv(t)' /\ InHand(t)' = InHand(t)
           /\ \A e : ~HasTarget(r, e) /\ ~HasLeft(r, e) /\ ~HasRight(r, e)
<1>1. LockInv(t) /\ HandInv(t) /\ OpInv(t) /\ th'[t] = r
    BY Knows
<1>2. th[t].op \in {"get", "set", "remove"} /\ (th[t].spare # END <=> th[t].op = "set")
    BY <1>1 DEF OpInv
<1>3. CASE r = Idle /\ th[t].op # "set"
  <2>1. r.pc = "idle" /\ r.op = "none" /\ r.spare = END /\ r.x = END
      BY <1>3, IdleState
  <2>2. LockInv(t)' /\ HandInv(t)'
      BY <2>1, <1>1 DEF LockInv, HandInv, HoldsTarget, HoldsLeft, HoldsRight, Between
  <2>3. frees[t] # <<>>
      BY <1>1, <1>2, <1>3 DEF OpInv, Unlinking
  <2>4. OpInv(t)'
      BY <2>1, <2>3, <1>1, <1>3 DEF OpInv, Unlinking, Evicting, Still
  <2>5. InHand(t)' = InHand(t)
      BY <2>1, <1>1, <1>2, <1>3 DEF InHand, Unlinking
  <2> QED
      BY <2>2, <2>4, <2>5, <1>3, IdleState
<1>4. CASE /\ r.pc = "push" /\ r.op = "set" /\ th[t].op = "set"
           /\ r.x = th[t].spare /\ r.spare = th[t].spare
  <2>1. PICK s \in Elements : s = th[t].spare
      BY <1>2, <1>4, MyTypes, Knows
  <2>2. s # END
      BY Marked
  <2>3. Popped(t, s)
      BY <2>1, <2>2, <1>1 DEF HandInv
  <2>4. Popped(t, s)'
      BY <2>1, <2>2, <2>3 DEF Popped, Still
  <2>5. LockInv(t)'
      BY <1>1, <1>4 DEF LockInv, HoldsTarget, HoldsLeft, HoldsRight, Between
  <2>6. HandInv(t)'
      BY <2>1, <2>4, <1>1, <1>4 DEF HandInv, Popped
  <2>7. OpInv(t)'
      BY <2>1, <2>2, <1>1, <1>4 DEF OpInv, Unlinking, Evicting, Still
  <2>8. InHand(t)' = InHand(t)
      BY <1>1, <1>4 DEF InHand, Unlinking
  <2> QED
      BY <2>5, <2>6, <2>7, <2>8, <1>4
      DEF HasTarget, HasLeft, HasRight, HoldsTarget, HoldsLeft, HoldsRight
<1> QED
    BY <1>3, <1>4 DEF GivesUp

\* It starts again.
LEMMA Restarting ==
    ASSUME ListInv, NEW t \in Threads, NEW r \in ThreadState, th' = [th EXCEPT ![t] = r], Still,
           th[t].pc \in Unlinking \ {"joinRight", "clear"},
           r.pc = "lock", r.x = th[t].x, r.op = th[t].op, r.spare = th[t].spare,
           th[t].spare # END => links'[th[t].spare] = links[th[t].spare]
    PROVE  /\ LockInv(t)' /\ HandInv(t)' /\ OpInv(t)' /\ InHand(t)' = InHand(t)
           /\ \A e : ~HasTarget(r, e) /\ ~HasLeft(r, e) /\ ~HasRight(r, e)
<1>1. LockInv(t) /\ HandInv(t) /\ OpInv(t) /\ th'[t] = r
    BY Knows
<1>2. LockInv(t)'
    BY <1>1 DEF LockInv, HoldsTarget, HoldsLeft, HoldsRight, Between
<1>3. r.spare # END => Popped(t, r.spare)'
    BY <1>1 DEF HandInv, Popped, Still
<1>4. HandInv(t)'
    BY <1>1, <1>3 DEF HandInv, Popped
<1>5. OpInv(t)'
    BY <1>1 DEF OpInv, Unlinking, Evicting, Still
<1>6. InHand(t)' = InHand(t)
    BY <1>1 DEF InHand, Unlinking
<1> QED
    BY <1>2, <1>4, <1>5, <1>6 DEF HasTarget, HasLeft, HasRight, HoldsTarget, HoldsLeft, HoldsRight

\* Nobody relies on a word without a mark, and its element is inside a list,
\* between the two it names.
LEMMA CleanWord ==
    ASSUME ListInv, NEW e \in Elements, links[e].left \in Elements, links[e].right \in Elements
    PROVE  /\ \A u \in Threads : ~Mine(u, e)
           /\ Adj(links[e].left, e) /\ Adj(e, links[e].right)
           /\ \A u \in Threads : e # head[u] /\ e # tail[u] /\ e \notin Range(frees[u])
<1>1. Types /\ PlaceInv /\ ChainInv /\ FreeInv
    BY DEF ListInv
<1>2. ASSUME NEW u \in Threads, Mine(u, e) PROVE FALSE
  <2>1. LockInv(u) /\ HandInv(u) /\ OpInv(u)
      BY DEF ListInv
  <2> QED
      BY <2>1, <1>1, <1>2, MineWord, Marked
<1>3. \A u \in Threads : e \notin Range(frees[u])
    BY <1>1, Marked DEF FreeInv
<1>4. PICK o \in Threads : e \in Range(lists[o])
    BY <1>1, <1>2, <1>3, Somewhere DEF Mine
<1>5. lists[o] \in Seq(Elements) /\ lists[o] # <<>>
    BY <1>1, <1>4, MyTypes, HasNeighbours
<1>6. /\ head[o] = FirstOf(lists[o]) /\ tail[o] = LastOf(lists[o])
      /\ links[head[o]].left = END /\ links[tail[o]].right = END
    BY <1>1, <1>5 DEF ChainInv
<1>7. e # FirstOf(lists[o]) /\ e # LastOf(lists[o])
    BY <1>6, Marked
<1>8. PICK a \in Elements, b \in Elements : Consec(lists[o], a, e) /\ Consec(lists[o], e, b)
    BY <1>4, <1>5, <1>7, HasNeighbours
<1>9. Adj(a, e) /\ Adj(e, b)
    BY <1>8 DEF Adj
<1>10. links[e].left \in {a, LOCK} /\ links[e].right \in {b, LOCK}
    BY <1>1, <1>9 DEF ChainInv
<1>11. links[e].left = a /\ links[e].right = b
    BY <1>10, Marked
<1>12. \A u \in Threads : e # head[u] /\ e # tail[u]
    BY <1>1, <1>9, OneNeighbour
<1> QED
    BY <1>2, <1>3, <1>9, <1>11, <1>12

\* Locking the element.
LEMMA LockStep ==
    ASSUME ListInv, NEW t \in Threads, UnlinkLock(t)
    PROVE  ListInv'
<1>1. PICK x \in Elements : x = th[t].x /\ th[t].pc = "lock"
    BY Knows DEF UnlinkLock, At, OpInv
<1>2. Still /\ UNCHANGED <<ops, known>>
    BY DEF UnlinkLock, Still, heads, history
<1>3. \A e : ~HasTarget(th[t], e) /\ ~HasLeft(th[t], e) /\ ~HasRight(th[t], e)
    BY <1>1 DEF HasTarget, HasLeft, HasRight, HoldsTarget, HoldsLeft, HoldsRight
<1>4. CASE UnlinkDone(t, FALSE) /\ links' = links
  <2>1. PICK r \in ThreadState : th' = [th EXCEPT ![t] = r] /\ GivesUp(t, r)
      BY <1>4, Knows, GivenUp
  <2>2. /\ LockInv(t)' /\ HandInv(t)' /\ OpInv(t)' /\ InHand(t)' = InHand(t)
        /\ \A e : ~HasTarget(r, e) /\ ~HasLeft(r, e) /\ ~HasRight(r, e)
      BY <2>1, <1>1, <1>2, <1>4, GivingUp DEF Unlinking
  <2>3. ops' \in [Threads -> 0 .. MaxOps] /\ known' \subseteq Elements
      BY <1>2, Knows
  <2> QED
      BY <2>1, <2>2, <2>3, <1>2, <1>3, <1>4, QuietStep
<1>5. CASE /\ ~AtEnd(links[x]) /\ LOCK \notin {links[x].left, links[x].right}
           /\ links' = [links EXCEPT ![x] = Links(LOCK, LOCK)]
           /\ th' = [th EXCEPT ![t] = [th[t] EXCEPT !.pc = "loadLeft", !.tgt = links[x]]]
  <2>1. links[x] \in Word /\ th[t] \in ThreadState
      BY Knows
  <2>2. links[x].left \in Elements /\ links[x].right \in Elements
      BY <2>1, <1>5, WordForm DEF AtEnd, Marks
  <2>3. /\ \A u \in Threads : ~Mine(u, x)
        /\ Adj(links[x].left, x) /\ Adj(x, links[x].right)
        /\ \A u \in Threads : x # head[u] /\ x # tail[u] /\ x \notin Range(frees[u])
      BY <2>2, CleanWord
  <2>4. PICK w \in Word : w = Links(LOCK, LOCK) /\ w.left = LOCK /\ w.right = LOCK
      BY WordForm, LinksForm
  <2>5. Agrees(x, w)
      BY <2>3, <2>4 DEF Agrees
  <2>6. PICK r : r = [th[t] EXCEPT !.pc = "loadLeft", !.tgt = links[x]]
      OBVIOUS
  <2>7. /\ r \in ThreadState /\ r.pc = "loadLeft" /\ r.tgt = links[x] /\ r.x = x
        /\ r.op = th[t].op /\ r.spare = th[t].spare
      BY <2>1, <2>6, <1>1 DEF ThreadState, Labels
  <2>8. th' = [th EXCEPT ![t] = r] /\ th'[t] = r
      BY <2>6, <1>5, Knows
  <2>9. \A d : (HasTarget(r, d) <=> d = x) /\ ~HasLeft(r, d) /\ ~HasRight(r, d)
      BY <2>7 DEF HasTarget, HasLeft, HasRight, HoldsTarget, HoldsLeft, HoldsRight
  <2>10. /\ links'[x] = w /\ \A d \in Elements : d # x => links'[d] = links[d]
      BY <2>4, <1>5, Knows
  <2>11. LockInv(t)'
      BY <2>2, <2>3, <2>4, <2>7, <2>8, <2>10, <1>2, StillAdj
      DEF LockInv, HoldsTarget, HoldsLeft, HoldsRight, Between
  <2>12. InHand(t)' = InHand(t)
      BY <2>7, <2>8, <1>1 DEF InHand
  <2>13. HandInv(t)'
    <3>1. ASSUME r.spare # END PROVE Popped(t, r.spare)'
      <4>1. Popped(t, r.spare) /\ r.spare \in Elements /\ r.spare # x
          BY <3>1, <2>2, <2>7, Knows, MyTypes, Marked DEF HandInv, Popped
      <4> QED
          BY <4>1, <2>10, <1>2 DEF Popped, Still
    <3> QED
        BY <3>1, <2>7, <2>8 DEF HandInv, Popped
  <2>14. OpInv(t)'
      BY <2>7, <2>8, <1>1, <1>2, Knows DEF OpInv, Unlinking, Evicting, Still
  <2>15. links' = [links EXCEPT ![x] = w]
      BY <2>4, <1>5
  <2> QED
      BY <2>3, <2>5, <2>7, <2>8, <2>9, <2>11, <2>12, <2>13, <2>14, <2>15, <1>2, <1>3, WordStep
<1> QED
    BY <1>1, <1>4, <1>5 DEF UnlinkLock

\* Reading the neighbours' words.
LEMMA LoadStep ==
    ASSUME ListInv, NEW t \in Threads, UnlinkLoadLeft(t) \/ UnlinkLoadRight(t)
    PROVE  ListInv'
<1>1. Still /\ UNCHANGED <<links, ops, known>> /\ th[t].pc \in {"loadLeft", "loadRight"}
    BY DEF UnlinkLoadLeft, UnlinkLoadRight, Still, heads, history, At
<1>2. th[t].tgt.left \in Elements /\ th[t].tgt.right \in Elements
    BY <1>1, Knows DEF LockInv, Between
<1>3. links[th[t].tgt.left] \in Word /\ links[th[t].tgt.right] \in Word /\ th[t] \in ThreadState
    BY <1>2, Knows
<1>4. PICK r \in ThreadState : /\ th' = [th EXCEPT ![t] = r] /\ r.pc \in {"loadRight", "left"}
                               /\ r.op = th[t].op /\ r.x = th[t].x /\ r.spare = th[t].spare
                               /\ r.tgt = th[t].tgt
  <2>1. CASE UnlinkLoadLeft(t)
    <3>1. PICK r : r = [th[t] EXCEPT !.pc = "loadRight", !.lft = links[th[t].tgt.left]]
        OBVIOUS
    <3>2. th' = [th EXCEPT ![t] = r]
        BY <3>1, <2>1 DEF UnlinkLoadLeft
    <3>3. /\ r \in ThreadState /\ r.pc = "loadRight" /\ r.op = th[t].op /\ r.x = th[t].x
          /\ r.spare = th[t].spare /\ r.tgt = th[t].tgt
        BY <3>1, <1>3 DEF ThreadState, Labels
    <3> QED
        BY <3>2, <3>3
  <2>2. CASE UnlinkLoadRight(t)
    <3>1. PICK r : r = [th[t] EXCEPT !.pc = "left", !.rgt = links[th[t].tgt.right]]
        OBVIOUS
    <3>2. th' = [th EXCEPT ![t] = r]
        BY <3>1, <2>2 DEF UnlinkLoadRight
    <3>3. /\ r \in ThreadState /\ r.pc = "left" /\ r.op = th[t].op /\ r.x = th[t].x
          /\ r.spare = th[t].spare /\ r.tgt = th[t].tgt
        BY <3>1, <1>3 DEF ThreadState, Labels
    <3> QED
        BY <3>2, <3>3
  <2> QED
      BY <2>1, <2>2
<1>5. th'[t] = r
    BY <1>4, Knows
<1>6. \A e : /\ HasTarget(r, e) <=> HasTarget(th[t], e)
             /\ HasLeft(r, e) <=> HasLeft(th[t], e)
             /\ HasRight(r, e) <=> HasRight(th[t], e)
    BY <1>1, <1>4 DEF HasTarget, HasLeft, HasRight, HoldsTarget, HoldsLeft, HoldsRight
<1>7. LockInv(t)'
    BY <1>1, <1>4, <1>5, Knows, StillAdj
    DEF LockInv, HoldsTarget, HoldsLeft, HoldsRight, Between
<1>8. HandInv(t)'
    BY <1>1, <1>4, <1>5, Knows DEF HandInv, Popped, Still
<1>9. OpInv(t)'
    BY <1>1, <1>4, <1>5, Knows DEF OpInv, Unlinking, Evicting, Still
<1>10. InHand(t)' = InHand(t)
    BY <1>1, <1>4, <1>5 DEF InHand
<1>11. ops' \in [Threads -> 0 .. MaxOps] /\ known' \subseteq Elements
    BY <1>1, Knows
<1> QED
    BY <1>1, <1>4, <1>6, <1>7, <1>8, <1>9, <1>10, <1>11, QuietStep

\* A neighbour cannot be locked: unlinkElement takes back what it has locked.
LEMMA FailStep ==
    ASSUME ListInv, NEW t \in Threads, NEW b \in BOOLEAN,
           Still, UNCHANGED <<links, ops, known>>,
           \/ /\ th[t].pc = "left"
              /\ th' = [th EXCEPT ![t] = [th[t] EXCEPT !.pc = "undoTarget", !.retry = b]]
           \/ /\ th[t].pc = "right"
              /\ th' = [th EXCEPT ![t] = [th[t] EXCEPT !.pc = "undoBoth", !.retry = b]]
    PROVE  ListInv'
<1>1. PICK q : /\ q = IF th[t].pc = "left" THEN "undoTarget" ELSE "undoBoth"
               /\ th' = [th EXCEPT ![t] = [th[t] EXCEPT !.pc = q, !.retry = b]]
    OBVIOUS
<1>2. PICK r : r = [th[t] EXCEPT !.pc = q, !.retry = b]
    OBVIOUS
<1>3. q \in Labels /\ th[t] \in ThreadState
    BY <1>1, Knows DEF Labels
<1>4. /\ r \in ThreadState /\ r.pc = q /\ r.op = th[t].op /\ r.x = th[t].x
      /\ r.spare = th[t].spare /\ r.tgt = th[t].tgt /\ r.lft = th[t].lft
    BY <1>2, <1>3 DEF ThreadState
<1>5. th' = [th EXCEPT ![t] = r] /\ th'[t] = r
    BY <1>1, <1>2, Knows
<1>6. \A e : /\ HasTarget(r, e) <=> HasTarget(th[t], e)
             /\ HasLeft(r, e) <=> HasLeft(th[t], e)
             /\ HasRight(r, e) <=> HasRight(th[t], e)
    BY <1>1, <1>4 DEF HasTarget, HasLeft, HasRight, HoldsTarget, HoldsLeft, HoldsRight
<1>7. LockInv(t)'
    BY <1>1, <1>4, <1>5, Knows, StillAdj
    DEF LockInv, HoldsTarget, HoldsLeft, HoldsRight, Between
<1>8. HandInv(t)'
    BY <1>1, <1>4, <1>5, Knows DEF HandInv, Popped, Still
<1>9. OpInv(t)'
    BY <1>1, <1>4, <1>5, Knows DEF OpInv, Unlinking, Evicting, Still
<1>10. InHand(t)' = InHand(t)
    BY <1>1, <1>4, <1>5 DEF InHand
<1>11. ops' \in [Threads -> 0 .. MaxOps] /\ known' \subseteq Elements
    BY Knows
<1> QED
    BY <1>4, <1>5, <1>6, <1>7, <1>8, <1>9, <1>10, <1>11, QuietStep

\* Locking the left neighbour.
LEMMA LeftStep ==
    ASSUME ListInv, NEW t \in Threads, UnlinkLeft(t)
    PROVE  ListInv'
<1>1. th[t].pc = "left" /\ Still /\ UNCHANGED <<ops, known>>
    BY DEF UnlinkLeft, At, Still, heads, history
<1>2. PICK x \in Elements, l \in Elements, m \in Elements :
          /\ x = th[t].x /\ l = th[t].tgt.left /\ m = th[t].tgt.right
          /\ Adj(l, x) /\ Adj(x, m) /\ links[x] = Links(LOCK, LOCK)
    BY <1>1, Knows DEF LockInv, OpInv, Between, HoldsTarget
<1>3. CASE /\ links' = links
           /\ th' = [th EXCEPT ![t] = [th[t] EXCEPT !.pc = "undoTarget",
                                                    !.retry = (th[t].lft.left # END)]]
  <2>1. PICK b \in BOOLEAN : b = (th[t].lft.left # END)
      OBVIOUS
  <2>2. th' = [th EXCEPT ![t] = [th[t] EXCEPT !.pc = "undoTarget", !.retry = b]]
      BY <2>1, <1>3
  <2> QED
      BY <2>2, <1>1, <1>3, FailStep
<1>4. CASE /\ LeftFree(th[t].lft, x) /\ links[l] = th[t].lft
           /\ links' = [links EXCEPT ![l].right = LOCK] /\ Goto(t, "right")
  <2>1. th[t] \in ThreadState /\ links[l] \in Word /\ links \in [Elements -> Word]
      BY Knows
  <2>2. links[l].left \in Elements /\ links[l].right = x
      BY <2>1, <1>4, WordForm DEF LeftFree
  <2>3. \A u \in Threads : ~Mine(u, l) /\ l # head[u] /\ l # tail[u] /\ l \notin Range(frees[u])
      BY <2>2, CleanWord
  <2>4. PICK w \in Word : w = Links(links[l].left, LOCK) /\ w.left = links[l].left
                          /\ w.right = LOCK
      BY <2>2, WordForm, LinksForm
  <2>5. links' = [links EXCEPT ![l] = w]
      BY <2>1, <2>4, <1>4 DEF Word, Links
  <2>6. links'[l] = w /\ \A d \in Elements : d # l => links'[d] = links[d]
      BY <2>5, <2>1
  <2>7. Agrees(l, w)
    <3>1. \A a \in Elements : Adj(a, l) => w.left \in {a, LOCK}
        BY <2>4, Knows DEF ChainInv
    <3> QED
        BY <3>1, <2>3, <2>4 DEF Agrees
  <2>8. PICK r : r = [th[t] EXCEPT !.pc = "right"]
      OBVIOUS
  <2>9. /\ r \in ThreadState /\ r.pc = "right" /\ r.op = th[t].op /\ r.x = x
        /\ r.spare = th[t].spare /\ r.tgt = th[t].tgt /\ r.lft = th[t].lft
      BY <2>1, <2>8, <1>2 DEF ThreadState, Labels
  <2>10. th' = [th EXCEPT ![t] = r] /\ th'[t] = r
      BY <2>8, <1>4, Knows DEF Goto
  <2>11. \A d : /\ HasTarget(r, d) <=> HasTarget(th[t], d)
                /\ HasLeft(r, d) <=> d = l
                /\ ~HasLeft(th[t], d)
                /\ ~HasRight(r, d) /\ ~HasRight(th[t], d)
      BY <2>9, <1>1, <1>2 DEF HasTarget, HasLeft, HasRight, HoldsTarget, HoldsLeft, HoldsRight
  <2>12. x # l
      BY <1>2, Knows, OneNeighbour
  <2>13. LockInv(t)'
    <3>1. th[t].lft.left \in Elements /\ th[t].lft.right = x
        BY <2>2, <1>4
    <3>2. links'[x] = Links(LOCK, LOCK) /\ links'[l] = Links(th[t].lft.left, LOCK)
        BY <2>4, <2>6, <2>12, <1>2, <1>4
    <3> QED
        BY <3>1, <3>2, <2>9, <2>10, <1>1, <1>2, StillAdj
        DEF LockInv, HoldsTarget, HoldsLeft, HoldsRight, Between
  <2>14. InHand(t)' = InHand(t)
      BY <2>9, <2>10, <1>1 DEF InHand
  <2>15. HandInv(t)'
    <3>1. ASSUME r.spare # END PROVE Popped(t, r.spare)'
      <4>1. Popped(t, r.spare) /\ r.spare \in Elements /\ r.spare # l
          BY <3>1, <2>2, <2>9, Knows, MyTypes, Marked DEF HandInv, Popped
      <4> QED
          BY <4>1, <2>6, <1>1 DEF Popped, Still
    <3> QED
        BY <3>1, <2>9, <2>10 DEF HandInv, Popped
  <2>16. OpInv(t)'
      BY <2>9, <2>10, <1>1, <1>2, Knows DEF OpInv, Unlinking, Evicting, Still
  <2> QED
      BY <2>2, <2>3, <2>4, <2>5, <2>7, <2>9, <2>10, <2>11, <2>13, <2>14, <2>15, <2>16, <1>1,
         WordStep,
         Marked
<1> QED
    BY <1>2, <1>3, <1>4 DEF UnlinkLeft

\* Locking the right neighbour.
LEMMA RightStep ==
    ASSUME ListInv, NEW t \in Threads, UnlinkRight(t)
    PROVE  ListInv'
<1>1. th[t].pc = "right" /\ Still /\ UNCHANGED <<ops, known>>
    BY DEF UnlinkRight, At, Still, heads, history
<1>2. PICK x \in Elements, l \in Elements, m \in Elements :
          /\ x = th[t].x /\ l = th[t].tgt.left /\ m = th[t].tgt.right
          /\ Adj(l, x) /\ Adj(x, m) /\ links[x] = Links(LOCK, LOCK)
          /\ links[l] = Links(th[t].lft.left, LOCK)
          /\ th[t].lft.left \in Elements /\ th[t].lft.right = x
    BY <1>1, Knows DEF LockInv, OpInv, Between, HoldsTarget, HoldsLeft
<1>3. CASE /\ links' = links
           /\ th' = [th EXCEPT ![t] = [th[t] EXCEPT !.pc = "undoBoth",
                                                    !.retry = (th[t].rgt.right # END)]]
  <2>1. PICK b \in BOOLEAN : b = (th[t].rgt.right # END)
      OBVIOUS
  <2>2. th' = [th EXCEPT ![t] = [th[t] EXCEPT !.pc = "undoBoth", !.retry = b]]
      BY <2>1, <1>3
  <2> QED
      BY <2>2, <1>1, <1>3, FailStep
<1>4. CASE /\ th[t].rgt.right \notin Marks /\ th[t].rgt.left = x /\ links[m] = th[t].rgt
           /\ links' = [links EXCEPT ![m].left = LOCK] /\ Goto(t, "joinLeft")
  <2>1. th[t] \in ThreadState /\ links[m] \in Word /\ links \in [Elements -> Word]
      BY Knows
  <2>2. links[m].right \in Elements /\ links[m].left = x
      BY <2>1, <1>4, WordForm
  <2>3. \A u \in Threads : ~Mine(u, m) /\ m # head[u] /\ m # tail[u] /\ m \notin Range(frees[u])
      BY <2>2, CleanWord
  <2>4. PICK w \in Word : w = Links(LOCK, links[m].right) /\ w.left = LOCK
                          /\ w.right = links[m].right
      BY <2>2, WordForm, LinksForm
  <2>5. links' = [links EXCEPT ![m] = w]
      BY <2>1, <2>4, <1>4 DEF Word, Links
  <2>6. links'[m] = w /\ \A d \in Elements : d # m => links'[d] = links[d]
      BY <2>5, <2>1
  <2>7. Agrees(m, w)
    <3>1. \A a \in Elements : Adj(m, a) => w.right \in {a, LOCK}
        BY <2>4, Knows DEF ChainInv
    <3> QED
        BY <3>1, <2>3, <2>4 DEF Agrees
  <2>8. PICK r : r = [th[t] EXCEPT !.pc = "joinLeft"]
      OBVIOUS
  <2>9. /\ r \in ThreadState /\ r.pc = "joinLeft" /\ r.op = th[t].op /\ r.x = x
        /\ r.spare = th[t].spare /\ r.tgt = th[t].tgt /\ r.lft = th[t].lft /\ r.rgt = th[t].rgt
      BY <2>1, <2>8, <1>2 DEF ThreadState, Labels
  <2>10. th' = [th EXCEPT ![t] = r] /\ th'[t] = r
      BY <2>8, <1>4, Knows DEF Goto
  <2>11. \A d : /\ HasTarget(r, d) <=> HasTarget(th[t], d)
                /\ HasLeft(r, d) <=> HasLeft(th[t], d)
                /\ HasRight(r, d) <=> d = m
                /\ ~HasRight(th[t], d)
      BY <2>9, <1>1, <1>2 DEF HasTarget, HasLeft, HasRight, HoldsTarget, HoldsLeft, HoldsRight
  <2>12. x # m /\ l # m
    <3>1. links[l].right = LOCK
        BY <1>2, WordForm, LinksForm
    <3> QED
        BY <3>1, <2>2, <1>2, Knows, OneNeighbour, Marked
  <2>13. LockInv(t)'
    <3>1. /\ links'[x] = Links(LOCK, LOCK) /\ links'[l] = Links(th[t].lft.left, LOCK)
          /\ links'[m] = Links(LOCK, th[t].rgt.right) /\ th[t].rgt.right \in Elements
        BY <2>2, <2>4, <2>6, <2>12, <1>2, <1>4
    <3> QED
        BY <3>1, <2>9, <2>10, <1>1, <1>2, StillAdj
        DEF LockInv, HoldsTarget, HoldsLeft, HoldsRight, Between
  <2>14. InHand(t)' = InHand(t)
      BY <2>9, <2>10, <1>1 DEF InHand
  <2>15. HandInv(t)'
    <3>1. ASSUME r.spare # END PROVE Popped(t, r.spare)'
      <4>1. Popped(t, r.spare) /\ r.spare \in Elements /\ r.spare # m
          BY <3>1, <2>2, <2>9, Knows, MyTypes, Marked DEF HandInv, Popped
      <4> QED
          BY <4>1, <2>6, <1>1 DEF Popped, Still
    <3> QED
        BY <3>1, <2>9, <2>10 DEF HandInv, Popped
  <2>16. OpInv(t)'
      BY <2>9, <2>10, <1>1, <1>2, Knows DEF OpInv, Unlinking, Evicting, Still
  <2> QED
      BY <2>2, <2>3, <2>4, <2>5, <2>7, <2>9, <2>10, <2>11, <2>13, <2>14, <2>15, <2>16, <1>1,
         WordStep,
         Marked
<1> QED
    BY <1>2, <1>3, <1>4 DEF UnlinkRight

\* No other thread relies on what t has locked.
LEMMA LockedApart ==
    ASSUME ListInv, NEW t \in Threads, NEW u \in Threads, u # t, NEW e \in Elements,
           HasTarget(th[t], e) \/ HasLeft(th[t], e) \/ HasRight(th[t], e)
    PROVE  ~Mine(u, e)
<1> SUFFICES ASSUME Mine(u, e) PROVE FALSE
    OBVIOUS
<1>1. /\ Types /\ PlaceInv /\ ChainInv /\ Exclusive
      /\ LockInv(u) /\ HandInv(u) /\ OpInv(u) /\ LockInv(t) /\ HandInv(t) /\ OpInv(t)
    BY DEF ListInv
<1>2. /\ ~(HasTarget(th[u], e) /\ HasTarget(th[t], e))
      /\ ~(HasLeft(th[u], e) /\ HasLeft(th[t], e))
      /\ ~(HasRight(th[u], e) /\ HasRight(th[t], e))
    BY <1>1 DEF Exclusive
<1>3. \/ HasTarget(th[u], e) /\ links[e].left = LOCK /\ links[e].right = LOCK
      \/ HasLeft(th[u], e) /\ links[e].left \in Elements /\ links[e].right = LOCK
      \/ HasRight(th[u], e) /\ links[e].left = LOCK /\ links[e].right \in Elements
      \/ END \in {links[e].left, links[e].right}
    BY <1>1, MineWord
<1>4. \/ HasTarget(th[t], e) /\ links[e].left = LOCK /\ links[e].right = LOCK
      \/ HasLeft(th[t], e) /\ links[e].left \in Elements /\ links[e].right = LOCK
      \/ HasRight(th[t], e) /\ links[e].left = LOCK /\ links[e].right \in Elements
  <2>1. CASE HasTarget(th[t], e)
    <3>1. links[e] = Links(LOCK, LOCK)
        BY <2>1, <1>1 DEF HasTarget, LockInv
    <3> QED
        BY <3>1, <2>1, WordForm, LinksForm
  <2>2. CASE HasLeft(th[t], e)
    <3>1. links[e] = Links(th[t].lft.left, LOCK) /\ th[t].lft.left \in Elements
        BY <2>2, <1>1 DEF HasLeft, LockInv
    <3>2. links[e].left = th[t].lft.left /\ links[e].right = LOCK
        BY <3>1, WordForm, LinksForm
    <3> QED
        BY <3>1, <3>2, <2>2
  <2>3. CASE HasRight(th[t], e)
    <3>1. links[e] = Links(LOCK, th[t].rgt.right) /\ th[t].rgt.right \in Elements
        BY <2>3, <1>1 DEF HasRight, LockInv
    <3>2. links[e].left = LOCK /\ links[e].right = th[t].rgt.right
        BY <3>1, WordForm, LinksForm
    <3> QED
        BY <3>1, <3>2, <2>3
  <2> QED
      BY <2>1, <2>2, <2>3
<1> QED
    BY <1>2, <1>3, <1>4, Marked

\* A spare element is not touched by writes to other words.
LEMMA SpareKept ==
    ASSUME ListInv, NEW t \in Threads, th[t].spare # END, links'[th[t].spare] = links[th[t].spare],
           freeListHead'[t] = freeListHead[t], NEW s, s = th[t].spare
    PROVE  Popped(t, s)'
<1>1. Popped(t, s)
    BY Knows DEF HandInv
<1> QED
    BY <1>1 DEF Popped

\* The right neighbour points to the left one.
LEMMA JoinRightStep ==
    ASSUME ListInv, NEW t \in Threads, UnlinkJoinRight(t)
    PROVE  ListInv'
<1>1. th[t].pc = "joinRight" /\ Still /\ UNCHANGED <<ops, known>>
    BY DEF UnlinkJoinRight, At, Still, heads, history
<1>2. PICK x \in Elements, l \in Elements, m \in Elements, q \in Elements :
          /\ x = th[t].x /\ l = th[t].tgt.left /\ m = th[t].tgt.right /\ q = th[t].rgt.right
          /\ Adj(l, m) /\ links[x] = Links(LOCK, LOCK) /\ links[m] = Links(LOCK, q)
    BY <1>1, Knows DEF LockInv, OpInv, HoldsTarget, HoldsRight
<1>3. th[t] \in ThreadState /\ links \in [Elements -> Word] /\ OpInv(t)
    BY Knows
<1>4. PICK w \in Word : w = Links(l, q) /\ w.left = l /\ w.right = q
    BY WordForm
<1>5. links[m].left = LOCK /\ links[m].right = q
  <2>1. Links(LOCK, q).left = LOCK /\ Links(LOCK, q).right = q
      BY WordForm, LinksForm
  <2> QED
      BY <2>1, <1>2
<1>6. links' = [links EXCEPT ![m] = w]
  <2>1. links' = [links EXCEPT ![m].left = l]
      BY <1>2 DEF UnlinkJoinRight
  <2>2. [links[m] EXCEPT !.left = l] = w
      BY <1>2, <1>4 DEF Links
  <2> QED
      BY <2>1, <2>2, <1>3
<1>7. links'[m] = w /\ \A d \in Elements : d # m => links'[d] = links[d]
    BY <1>3, <1>6
<1>8. /\ \A a : Adj(a, m) => a = l
      /\ \A o \in Threads : m # head[o] /\ m \notin Range(frees[o]) /\ m \notin InHand(o)
    BY <1>2, Knows, OneNeighbour
<1>9. Agrees(m, w)
  <2>1. \A b \in Elements : Adj(m, b) => w.right \in {b, LOCK}
      BY <1>4, <1>5, Knows DEF ChainInv
  <2>2. \A o \in Threads : lists[o] # <<>> /\ m = tail[o] => w.right = END
      BY <1>4, <1>5, Knows DEF ChainInv
  <2> QED
      BY <2>1, <2>2, <1>4, <1>8 DEF Agrees
<1>10. HasRight(th[t], m)
    BY <1>1, <1>2 DEF HasRight, HoldsRight
<1>11. \A u \in Threads : u # t => ~Mine(u, m)
    BY <1>10, LockedApart
<1>12. PICK r : r = [th[t] EXCEPT !.pc = "clear"]
    OBVIOUS
<1>13. /\ r \in ThreadState /\ r.pc = "clear" /\ r.op = th[t].op /\ r.x = x
       /\ r.spare = th[t].spare
    BY <1>2, <1>3, <1>12 DEF ThreadState, Labels
<1>14. th' = [th EXCEPT ![t] = r] /\ th'[t] = r
    BY <1>12, Knows DEF UnlinkJoinRight, Goto
<1>15. \A d : /\ HasTarget(r, d) <=> HasTarget(th[t], d)
              /\ ~HasLeft(r, d) /\ ~HasLeft(th[t], d)
              /\ ~HasRight(r, d) /\ (HasRight(th[t], d) <=> d = m)
    BY <1>1, <1>2, <1>13 DEF HasTarget, HasLeft, HasRight, HoldsTarget, HoldsLeft, HoldsRight
<1>16. x \in InHand(t) /\ (th[t].spare # END => th[t].spare \in InHand(t))
    BY <1>1, <1>2, <1>3, InHands, Knows
<1>17. links'[x] = links[x]
    BY <1>7, <1>8, <1>16
<1>18. LockInv(t)'
    BY <1>2, <1>13, <1>14, <1>17 DEF LockInv, HoldsTarget, HoldsLeft, HoldsRight, Between
<1>19. HandInv(t)'
  <2>1. ASSUME r.spare # END PROVE Popped(t, r.spare)'
    <3>1. r.spare \in Elements /\ r.spare # m
        BY <2>1, <1>3, <1>8, <1>13, <1>16, MyTypes, Knows
    <3> QED
        BY <3>1, <2>1, <1>1, <1>7, <1>13, SpareKept DEF Still
  <2> QED
      BY <2>1, <1>13, <1>14 DEF HandInv, Popped
<1>20. OpInv(t)'
    BY <1>1, <1>2, <1>3, <1>13, <1>14 DEF OpInv, Unlinking, Evicting, Still
<1>21. InHand(t)' = InHand(t)
    BY <1>1, <1>2, <1>13, <1>14 DEF InHand
<1> QED
    BY <1>1, <1>4, <1>6, <1>9, <1>11, <1>13, <1>14, <1>15, <1>18, <1>19, <1>20, <1>21, WordStep,
       Marked

\* The element is out of the list: it gets the end marks.
LEMMA ClearStep ==
    ASSUME ListInv, NEW t \in Threads, UnlinkClear(t)
    PROVE  ListInv'
<1>1. th[t].pc = "clear" /\ Still /\ UNCHANGED <<ops, known>>
    BY DEF UnlinkClear, At, Still, heads, history
<1>2. PICK x \in Elements : x = th[t].x /\ links[x] = Links(LOCK, LOCK)
    BY <1>1, Knows DEF LockInv, OpInv, HoldsTarget
<1>3. th[t] \in ThreadState /\ links \in [Elements -> Word] /\ OpInv(t)
    BY Knows
<1>4. PICK w \in Word : w = Ends /\ w.left = END /\ w.right = END
    BY WordForm, LinksForm DEF Ends
<1>5. links' = [links EXCEPT ![x] = w]
    BY <1>2, <1>4 DEF UnlinkClear
<1>6. links'[x] = w /\ \A d \in Elements : d # x => links'[d] = links[d]
    BY <1>3, <1>5
<1>7. x \in InHand(t)
    BY <1>1, <1>2, <1>3, InHands, Knows
<1>8. Agrees(x, w)
  <2>1. (\A b \in Elements : ~Adj(x, b)) /\ (\A a \in Elements : ~Adj(a, x))
      BY <1>7, Knows, OneNeighbour
  <2>2. \A o \in Threads : x \notin Range(frees[o])
      BY <1>7, Knows, Apart
  <2> QED
      BY <2>1, <2>2, <1>4 DEF Agrees
<1>9. HasTarget(th[t], x)
    BY <1>1, <1>2 DEF HasTarget, HoldsTarget
<1>10. \A u \in Threads : u # t => ~Mine(u, x)
    BY <1>9, LockedApart
<1>11. PICK r \in ThreadState :
           /\ th' = [th EXCEPT ![t] = r] /\ r.x = x /\ r.op = th[t].op /\ r.spare = th[t].spare
           /\ r.pc = IF th[t].op = "remove" THEN "push" ELSE "link"
  <2>1. th[t].op \in {"get", "set", "remove"}
      BY <1>1, <1>3 DEF OpInv, Unlinking
  <2>2. CASE th[t].op = "remove"
    <3>1. Resume(t, "push", x) /\ "push" \in Labels
        BY <2>2, <1>2 DEF UnlinkClear, UnlinkDone, Labels
    <3> QED
        BY <3>1, <2>2, Resumed, Knows
  <2>3. CASE th[t].op # "remove"
    <3>1. Resume(t, "link", x) /\ "link" \in Labels
        BY <2>1, <2>3, <1>2 DEF UnlinkClear, UnlinkDone, Labels
    <3> QED
        BY <3>1, <2>3, Resumed, Knows
  <2> QED
      BY <2>2, <2>3
<1>12. th'[t] = r
    BY <1>11, Knows
<1>13. \A d : /\ ~HasTarget(r, d) /\ ~HasLeft(r, d) /\ ~HasRight(r, d)
              /\ (HasTarget(th[t], d) <=> d = x) /\ ~HasLeft(th[t], d) /\ ~HasRight(th[t], d)
    BY <1>1, <1>2, <1>11 DEF HasTarget, HasLeft, HasRight, HoldsTarget, HoldsLeft, HoldsRight
<1>14. LockInv(t)'
    BY <1>11, <1>12 DEF LockInv, HoldsTarget, HoldsLeft, HoldsRight, Between
<1>15. HandInv(t)'
  <2>1. ASSUME r.spare # END PROVE Popped(t, r.spare)'
    <3>1. r.spare \in Elements /\ r.spare # x
      <4>1. th[t].op = "set"
          BY <2>1, <1>3, <1>11 DEF OpInv
      <4> QED
          BY <4>1, <2>1, <1>1, <1>2, <1>3, <1>11, MyTypes, Knows DEF OpInv
    <3> QED
        BY <3>1, <2>1, <1>1, <1>6, <1>11, SpareKept DEF Still
  <2>2. Popped(t, x)'
      BY <1>4, <1>6 DEF Popped
  <2> QED
      BY <2>1, <2>2, <1>11, <1>12 DEF HandInv, Popped
<1>16. OpInv(t)'
    BY <1>1, <1>2, <1>3, <1>11, <1>12 DEF OpInv, Unlinking, Evicting, Still
<1>17. InHand(t)' = InHand(t)
    BY <1>1, <1>2, <1>11, <1>12 DEF InHand
<1> QED
    BY <1>1, <1>4, <1>5, <1>8, <1>10, <1>11, <1>13, <1>14, <1>15, <1>16, <1>17, WordStep, Marked

\* The element gets its old word back.
LEMMA UndoTargetStep ==
    ASSUME ListInv, NEW t \in Threads, UndoTarget(t)
    PROVE  ListInv'
<1>1. th[t].pc \in {"undoTarget", "undoBoth"} /\ Still /\ UNCHANGED <<ops, known>>
    BY DEF UndoTarget, Still, heads, history
<1>2. PICK x \in Elements, l \in Elements, m \in Elements :
          /\ x = th[t].x /\ l = th[t].tgt.left /\ m = th[t].tgt.right
          /\ Adj(l, x) /\ Adj(x, m) /\ links[x] = Links(LOCK, LOCK)
    BY <1>1, Knows DEF LockInv, OpInv, Between, HoldsTarget
<1>3. th[t] \in ThreadState /\ links \in [Elements -> Word] /\ OpInv(t)
    BY Knows
<1>4. PICK w \in Word : w = th[t].tgt /\ w.left = l /\ w.right = m
    BY <1>2, MyTypes, Knows
<1>5. links' = [links EXCEPT ![x] = w]
    BY <1>2, <1>4 DEF UndoTarget
<1>6. links'[x] = w /\ \A d \in Elements : d # x => links'[d] = links[d]
    BY <1>3, <1>5
<1>7. /\ \A a : Adj(a, x) => a = l
      /\ \A b : Adj(x, b) => b = m
      /\ \A o \in Threads : /\ x # head[o] /\ x # tail[o] /\ x \notin Range(frees[o])
                            /\ x \notin InHand(o)
    BY <1>2, Knows, OneNeighbour
<1>8. Agrees(x, w)
    BY <1>4, <1>7 DEF Agrees
<1>9. HasTarget(th[t], x)
    BY <1>1, <1>2 DEF HasTarget, HoldsTarget
<1>10. \A u \in Threads : u # t => ~Mine(u, x)
    BY <1>9, LockedApart
<1>11. ASSUME th[t].spare # END
       PROVE  th[t].spare \in Elements /\ links'[th[t].spare] = links[th[t].spare]
  <2>1. th[t].spare \in InHand(t) /\ th[t].spare \in Elements
      BY <1>3, <1>11, InHands, MyTypes, Knows
  <2> QED
      BY <2>1, <1>6, <1>7
<1>12. \A d : (HasTarget(th[t], d) <=> d = x) /\ ~HasRight(th[t], d)
    BY <1>1, <1>2 DEF HasTarget, HasRight, HoldsTarget, HoldsRight
<1>13. CASE th[t].pc = "undoTarget"
  <2>1. UndoDone(t)
      BY <1>13 DEF UndoTarget, At
  <2>2. PICK r \in ThreadState :
            /\ th' = [th EXCEPT ![t] = r]
            /\ \/ GivesUp(t, r)
               \/ /\ r.pc = "lock" /\ r.x = th[t].x
                  /\ r.op = th[t].op /\ r.spare = th[t].spare
      BY <2>1, Undone, Knows
  <2>3. th[t].pc \in Unlinking \ {"joinRight", "clear"}
      BY <1>13 DEF Unlinking
  <2>4. /\ LockInv(t)' /\ HandInv(t)' /\ OpInv(t)' /\ InHand(t)' = InHand(t)
        /\ \A e : ~HasTarget(r, e) /\ ~HasLeft(r, e) /\ ~HasRight(r, e)
    <3>1. CASE GivesUp(t, r)
        BY <3>1, <2>2, <2>3, <1>1, <1>11, GivingUp
    <3>2. CASE /\ r.pc = "lock" /\ r.x = th[t].x
               /\ r.op = th[t].op /\ r.spare = th[t].spare
        BY <3>2, <2>2, <2>3, <1>1, <1>11, Restarting
    <3> QED
        BY <3>1, <3>2, <2>2
  <2>5. \A d : ~HasLeft(th[t], d)
      BY <1>13 DEF HasLeft, HoldsLeft
  <2> QED
      BY <2>2, <2>4, <2>5, <1>1, <1>4, <1>5, <1>8, <1>10, <1>12, WordStep, Marked
<1>14. CASE th[t].pc = "undoBoth"
  <2>1. PICK r : r = [th[t] EXCEPT !.pc = "undoLeft"]
      OBVIOUS
  <2>2. /\ r \in ThreadState /\ r.pc = "undoLeft" /\ r.op = th[t].op /\ r.x = x
        /\ r.spare = th[t].spare /\ r.tgt = th[t].tgt /\ r.lft = th[t].lft
      BY <2>1, <1>2, <1>3 DEF ThreadState, Labels
  <2>3. th' = [th EXCEPT ![t] = r] /\ th'[t] = r
      BY <2>1, <1>14, Knows DEF UndoTarget, At, Goto
  <2>4. \A d : /\ ~HasTarget(r, d) /\ ~HasRight(r, d)
               /\ HasLeft(r, d) <=> HasLeft(th[t], d)
      BY <2>2, <1>14 DEF HasTarget, HasLeft, HasRight, HoldsTarget, HoldsLeft, HoldsRight
  <2>5. l # x
      BY <1>2, Knows, OneNeighbour
  <2>6. LockInv(t)'
    <3>1. /\ th[t].lft.left \in Elements /\ th[t].lft.right = x
          /\ links[l] = Links(th[t].lft.left, LOCK)
        BY <1>2, <1>14, Knows DEF LockInv, HoldsLeft
    <3>2. links'[l] = links[l]
        BY <2>5, <1>6
    <3> QED
        BY <3>1, <3>2, <2>2, <2>3, <1>1, <1>2, StillAdj
        DEF LockInv, HoldsTarget, HoldsLeft, HoldsRight, Between
  <2>7. HandInv(t)'
    <3>1. ASSUME r.spare # END PROVE Popped(t, r.spare)'
        BY <3>1, <2>2, <1>1, <1>11, SpareKept DEF Still
    <3> QED
        BY <3>1, <2>2, <2>3 DEF HandInv, Popped
  <2>8. OpInv(t)'
      BY <2>2, <2>3, <1>1, <1>2, <1>3, <1>14 DEF OpInv, Unlinking, Evicting, Still
  <2>9. InHand(t)' = InHand(t)
      BY <2>2, <2>3, <1>14 DEF InHand
  <2> QED
      BY <2>2, <2>3, <2>4, <2>6, <2>7, <2>8, <2>9, <1>1, <1>4, <1>5, <1>8, <1>10, <1>12,
         WordStep, Marked
<1> QED
    BY <1>1, <1>13, <1>14

\* So does its left neighbour.
LEMMA UndoLeftStep ==
    ASSUME ListInv, NEW t \in Threads, UndoLeft(t)
    PROVE  ListInv'
<1>1. th[t].pc = "undoLeft" /\ Still /\ UNCHANGED <<ops, known>>
    BY DEF UndoLeft, At, Still, heads, history
<1>2. PICK x \in Elements, l \in Elements, k \in Elements :
          /\ x = th[t].x /\ l = th[t].tgt.left /\ k = th[t].lft.left /\ th[t].lft.right = x
          /\ Adj(l, x) /\ links[l] = Links(k, LOCK)
    BY <1>1, Knows DEF LockInv, OpInv, HoldsLeft
<1>3. th[t] \in ThreadState /\ links \in [Elements -> Word] /\ OpInv(t)
    BY Knows
<1>4. PICK w \in Word : w = th[t].lft /\ w.left = k /\ w.right = x
    BY <1>2, MyTypes, Knows
<1>5. links' = [links EXCEPT ![l] = w]
    BY <1>2, <1>4 DEF UndoLeft
<1>6. links'[l] = w /\ \A d \in Elements : d # l => links'[d] = links[d]
    BY <1>3, <1>5
<1>7. /\ \A b : Adj(l, b) => b = x
      /\ \A o \in Threads : /\ l # tail[o] /\ l \notin Range(frees[o]) /\ l \notin InHand(o)
    BY <1>2, Knows, OneNeighbour
<1>8. Agrees(l, w)
  <2>1. links[l].left = k
      BY <1>2, WordForm, LinksForm
  <2>2. \A a \in Elements : Adj(a, l) => w.left \in {a, LOCK}
      BY <2>1, <1>4, Knows DEF ChainInv
  <2>3. \A o \in Threads : lists[o] # <<>> /\ l = head[o] => w.left = END
      BY <2>1, <1>4, Knows DEF ChainInv
  <2> QED
      BY <2>2, <2>3, <1>4, <1>7 DEF Agrees
<1>9. HasLeft(th[t], l)
    BY <1>1, <1>2 DEF HasLeft, HoldsLeft
<1>10. \A u \in Threads : u # t => ~Mine(u, l)
    BY <1>9, LockedApart
<1>11. ASSUME th[t].spare # END
       PROVE  links'[th[t].spare] = links[th[t].spare]
  <2>1. th[t].spare \in InHand(t) /\ th[t].spare \in Elements
      BY <1>3, <1>11, InHands, MyTypes, Knows
  <2> QED
      BY <2>1, <1>6, <1>7
<1>12. \A d : ~HasTarget(th[t], d) /\ ~HasRight(th[t], d) /\ (HasLeft(th[t], d) <=> d = l)
    BY <1>1, <1>2 DEF HasTarget, HasLeft, HasRight, HoldsTarget, HoldsLeft, HoldsRight
<1>13. UndoDone(t)
    BY DEF UndoLeft
<1>14. PICK r \in ThreadState :
          /\ th' = [th EXCEPT ![t] = r]
          /\ \/ GivesUp(t, r)
             \/ /\ r.pc = "lock" /\ r.x = th[t].x
                /\ r.op = th[t].op /\ r.spare = th[t].spare
    BY <1>13, Undone, Knows
<1>15. th[t].pc \in Unlinking \ {"joinRight", "clear"}
    BY <1>1 DEF Unlinking
<1>16. /\ LockInv(t)' /\ HandInv(t)' /\ OpInv(t)' /\ InHand(t)' = InHand(t)
       /\ \A e : ~HasTarget(r, e) /\ ~HasLeft(r, e) /\ ~HasRight(r, e)
  <2>1. CASE GivesUp(t, r)
      BY <2>1, <1>1, <1>11, <1>14, <1>15, GivingUp
  <2>2. CASE /\ r.pc = "lock" /\ r.x = th[t].x
             /\ r.op = th[t].op /\ r.spare = th[t].spare
      BY <2>2, <1>1, <1>11, <1>14, <1>15, Restarting
  <2> QED
      BY <2>1, <2>2, <1>14
<1> QED
    BY <1>1, <1>4, <1>5, <1>8, <1>10, <1>12, <1>14, <1>16, WordStep, Marked

\* A thread relies on one of two neighbours at least, if it relies on them
\* being neighbours.
LEMMA NeedsMine ==
    ASSUME NEW u \in Threads, NEW a, NEW b, Needs(u, a, b)
    PROVE  Mine(u, a) \/ Mine(u, b)
    BY DEF Needs, Mine, HasTarget, HasLeft, HasRight, HoldsTarget, HoldsLeft, HoldsRight, Between

\* The lists when x, between l and m, is taken out.
TakenOut(l, x, m) ==
    /\ lists' \in [Threads -> Seq(Elements)]
    /\ \A o \in Threads : /\ IsInjective(lists'[o])
                          /\ Range(lists'[o]) = Range(lists[o]) \ {x}
                          /\ FirstOf(lists'[o]) = FirstOf(lists[o])
                          /\ LastOf(lists'[o]) = LastOf(lists[o])
                          /\ lists[o] = <<>> <=> lists'[o] = <<>>
    /\ \A a, b : Adj(a, b)' <=> (Adj(a, b) /\ a # x /\ b # x) \/ (a = l /\ b = m)

LEMMA ListsWithout ==
    ASSUME Types, PlaceInv, ChainInv, NEW l, NEW x \in Elements, NEW m, Adj(l, x), Adj(x, m),
           lists' = [o \in Threads |-> Without(lists[o], x)]
    PROVE  TakenOut(l, x, m)
<1>1. PICK o \in Threads : Consec(lists[o], l, x)
    BY DEF Adj
<1>2. PICK p \in Threads : Consec(lists[p], x, m)
    BY DEF Adj
<1>3. \A u \in Threads : lists[u] \in Seq(Elements) /\ IsInjective(lists[u])
    BY MyTypes DEF PlaceInv
<1>4. x \in Range(lists[o]) /\ x \in Range(lists[p])
    BY <1>1, <1>2, <1>3, Neighbours
<1>5. p = o
    BY <1>4, Apart
<1>6. \A u \in Threads : u # o => x \notin Range(lists[u])
    BY <1>4, Apart
<1>7. \A u \in Threads : u # o => lists'[u] = lists[u]
    BY <1>6, WithoutOther
<1>8. PICK q : q = Without(lists[o], x)
    OBVIOUS
<1>9. /\ q \in Seq(Elements) /\ IsInjective(q) /\ Range(q) = Range(lists[o]) \ {x} /\ q # <<>>
      /\ FirstOf(q) = FirstOf(lists[o]) /\ LastOf(q) = LastOf(lists[o])
      /\ \A a, b : Consec(q, a, b) <=> \/ Consec(lists[o], a, b) /\ a # x /\ b # x
                                       \/ a = l /\ b = m
    BY <1>1, <1>2, <1>3, <1>5, <1>8, WithoutInner
<1>10. lists'[o] = q
    BY <1>8
<1>11. lists[o] # <<>>
    BY <1>1, <1>3, Neighbours
<1>12. ASSUME NEW u \in Threads
       PROVE  /\ lists'[u] \in Seq(Elements) /\ IsInjective(lists'[u])
              /\ Range(lists'[u]) = Range(lists[u]) \ {x}
              /\ FirstOf(lists'[u]) = FirstOf(lists[u]) /\ LastOf(lists'[u]) = LastOf(lists[u])
              /\ lists[u] = <<>> <=> lists'[u] = <<>>
  <2>1. CASE u = o
      BY <2>1, <1>9, <1>10, <1>11
  <2>2. CASE u # o
      BY <2>2, <1>3, <1>6, <1>7
  <2> QED
      BY <2>1, <2>2
<1>13. lists' \in [Threads -> Seq(Elements)]
    BY <1>12
<1>14. ASSUME NEW a, NEW b, Adj(a, b)'
       PROVE  (Adj(a, b) /\ a # x /\ b # x) \/ (a = l /\ b = m)
  <2>1. PICK u \in Threads : Consec(lists'[u], a, b)
      BY <1>14 DEF Adj
  <2>2. CASE u = o
      BY <2>1, <2>2, <1>9, <1>10 DEF Adj
  <2>3. CASE u # o
    <3>1. Consec(lists[u], a, b) /\ x \notin Range(lists[u])
        BY <2>1, <2>3, <1>6, <1>7
    <3>2. a # x /\ b # x
        BY <3>1, <1>3, Neighbours
    <3> QED
        BY <3>1, <3>2 DEF Adj
  <2> QED
      BY <2>2, <2>3
<1>15. ASSUME NEW a, NEW b, (Adj(a, b) /\ a # x /\ b # x) \/ (a = l /\ b = m)
       PROVE  Adj(a, b)'
  <2>1. CASE a = l /\ b = m
      BY <2>1, <1>9, <1>10 DEF Adj
  <2>2. CASE Adj(a, b) /\ a # x /\ b # x
    <3>1. PICK u \in Threads : Consec(lists[u], a, b)
        BY <2>2 DEF Adj
    <3>2. Consec(lists'[u], a, b)
      <4>1. CASE u = o
          BY <4>1, <3>1, <2>2, <1>9, <1>10
      <4>2. CASE u # o
          BY <4>2, <3>1, <1>7
      <4> QED
          BY <4>1, <4>2
    <3> QED
        BY <3>2 DEF Adj
  <2> QED
      BY <2>1, <2>2, <1>15
<1> QED
    BY <1>12, <1>13, <1>14, <1>15 DEF TakenOut

\* The left neighbour points to the right one: the element has left its list.
LEMMA JoinLeftStep ==
    ASSUME ListInv, NEW t \in Threads, UnlinkJoinLeft(t)
    PROVE  ListInv'
<1>1. /\ th[t].pc = "joinLeft" /\ UNCHANGED <<head, tail, freeListHead, ops, known, frees>>
      /\ lists' = [o \in Threads |-> Without(lists[o], th[t].x)]
      /\ links' = [links EXCEPT ![th[t].tgt.left].right = th[t].tgt.right]
    BY DEF UnlinkJoinLeft, At, heads
<1>2. PICK x \in Elements, l \in Elements, m \in Elements :
          /\ x = th[t].x /\ l = th[t].tgt.left /\ m = th[t].tgt.right
          /\ Adj(l, x) /\ Adj(x, m)
    BY <1>1, Knows DEF LockInv, OpInv, Between
<1>3. /\ th[t] \in ThreadState /\ links \in [Elements -> Word] /\ OpInv(t)
      /\ Types /\ PlaceInv /\ ChainInv /\ FreeInv /\ Exclusive /\ Accounted
    BY Knows
<1>4. PICK k \in Elements, q \in Elements :
          /\ links[x] = Links(LOCK, LOCK)
          /\ k = th[t].lft.left /\ th[t].lft.right = x /\ links[l] = Links(k, LOCK)
          /\ q = th[t].rgt.right /\ links[m] = Links(LOCK, q)
    BY <1>1, <1>2, Knows DEF LockInv, HoldsTarget, HoldsLeft, HoldsRight
<1>5. HasTarget(th[t], x) /\ HasLeft(th[t], l) /\ HasRight(th[t], m)
    BY <1>1, <1>2 DEF HasTarget, HasLeft, HasRight, HoldsTarget, HoldsLeft, HoldsRight
<1>6. \A u \in Threads : u # t => ~Mine(u, x) /\ ~Mine(u, l) /\ ~Mine(u, m)
    BY <1>5, LockedApart
<1>7. Links(k, LOCK).left = k /\ Links(k, LOCK).right = LOCK /\ Links(LOCK, q).left = LOCK
    BY WordForm, LinksForm
<1>8. links[l].left = k /\ links[l].right = LOCK /\ links[m].left = LOCK
    BY <1>4, <1>7
<1>9. l # x /\ l # m
    BY <1>2, <1>3, <1>8, OneNeighbour, Marked
<1>10. PICK w \in Word : w = Links(k, m) /\ w.left = k /\ w.right = m
    BY WordForm
<1>11. links' = [links EXCEPT ![l] = w]
  <2>1. links' = [links EXCEPT ![l].right = m]
      BY <1>1, <1>2
  <2>2. [links[l] EXCEPT !.right = m] = w
      BY <1>4, <1>10 DEF Links
  <2> QED
      BY <2>1, <2>2, <1>3
<1>12. /\ links' \in [Elements -> Word] /\ links'[l] = w
       /\ \A d \in Elements : d # l => links'[d] = links[d]
    BY <1>3, <1>11
<1>13. /\ lists' \in [Threads -> Seq(Elements)]
       /\ \A o \in Threads : /\ IsInjective(lists'[o])
                             /\ Range(lists'[o]) = Range(lists[o]) \ {x}
                             /\ FirstOf(lists'[o]) = FirstOf(lists[o])
                             /\ LastOf(lists'[o]) = LastOf(lists[o])
                             /\ lists[o] = <<>> <=> lists'[o] = <<>>
       /\ \A a, b : Adj(a, b)' <=> (Adj(a, b) /\ a # x /\ b # x) \/ (a = l /\ b = m)
  <2>1. lists' = [o \in Threads |-> Without(lists[o], x)]
      BY <1>1, <1>2
  <2>2. Types /\ PlaceInv /\ ChainInv /\ Adj(l, x) /\ Adj(x, m)
      BY <1>2, <1>3
  <2>3. TakenOut(l, x, m)
      BY <2>1, <2>2, ListsWithout
  <2> QED
      BY <2>3 DEF TakenOut
<1>14. PICK r : r = [th[t] EXCEPT !.pc = "joinRight"]
    OBVIOUS
<1>15. /\ r \in ThreadState /\ r.pc = "joinRight" /\ r.op = th[t].op /\ r.x = x
       /\ r.spare = th[t].spare /\ r.tgt = th[t].tgt /\ r.rgt = th[t].rgt
    BY <1>2, <1>3, <1>14 DEF ThreadState, Labels
<1>16. th' = [th EXCEPT ![t] = r] /\ th'[t] = r
    BY <1>14, Knows DEF UnlinkJoinLeft, Goto
<1>17. \A u \in Threads : u # t => th'[u] = th[u]
    BY <1>3, <1>16 DEF Types
<1>18. Types'
  <2>1. th' \in [Threads -> ThreadState]
      BY <1>3, <1>15, <1>16 DEF Types
  <2> QED
      BY <2>1, <1>1, <1>3, <1>12, <1>13 DEF Types
<1>19. /\ \A b : Adj(l, b) => b = x
       /\ \A o \in Threads : /\ l # tail[o] /\ l \notin Range(frees[o]) /\ l \notin InHand(o)
                             /\ x \notin Range(frees[o]) /\ x \notin InHand(o)
    BY <1>2, <1>3, OneNeighbour
<1>20. PlaceInv'
  <2>1. PICK o \in Threads : x \in Range(lists[o])
      BY <1>2, <1>3, OneNeighbour
  <2>2. \A u \in Threads : u # o => Range(lists'[u]) = Range(lists[u])
    <3>1. \A u \in Threads : u # o => x \notin Range(lists[u])
        BY <2>1, <1>3, Apart
    <3> QED
        BY <3>1, <1>13
  <2>3. InHand(t)' = InHand(t) \cup {x}
    <3>1. x # END
        BY Marked
    <3> QED
        BY <3>1, <1>1, <1>15, <1>16 DEF InHand
  <2>4. \A u \in Threads : u # t => InHand(u)' = InHand(u)
      BY <1>17 DEF InHand
  <2>5. "list" \in Kinds /\ "hand" \in Kinds
      BY DEF Kinds
  <2>6. /\ PlaceOf(o, "list")' = PlaceOf(o, "list") \ {x}
        /\ PlaceOf(t, "hand")' = PlaceOf(t, "hand") \cup {x}
        /\ x \in PlaceOf(o, "list")
      BY <2>1, <2>3, <1>13 DEF PlaceOf
  <2>7. \A u \in Threads, n \in Kinds :
            (u # o \/ n # "list") /\ (u # t \/ n # "hand") => PlaceOf(u, n)' = PlaceOf(u, n)
      BY <2>2, <2>4, <1>1 DEF PlaceOf, Kinds
  <2>8. \A u \in Threads : IsInjective(lists'[u]) /\ IsInjective(frees'[u])
      BY <1>1, <1>3, <1>13 DEF PlaceInv
  <2> QED
      BY <2>5, <2>6, <2>7, <2>8, <1>3, ElementMoves
<1>21. ChainInv'
  <2>1. ASSUME NEW a \in Elements, NEW b \in Elements, Adj(a, b)'
        PROVE  links'[a].right \in {b, LOCK} /\ links'[b].left \in {a, LOCK}
    <3>1. CASE a = l /\ b = m
        BY <3>1, <1>8, <1>9, <1>10, <1>12
    <3>2. CASE Adj(a, b) /\ a # x /\ b # x
      <4>1. links[a].right \in {b, LOCK} /\ links[b].left \in {a, LOCK} /\ a # l
          BY <3>2, <1>3, <1>19 DEF ChainInv
      <4>2. links'[b].left = links[b].left
          BY <1>8, <1>10, <1>12
      <4> QED
          BY <4>1, <4>2, <1>12
    <3> QED
        BY <3>1, <3>2, <2>1, <1>13
  <2>2. ASSUME NEW o \in Threads
        PROVE  /\ head'[o] = FirstOf(lists'[o]) /\ tail'[o] = LastOf(lists'[o])
               /\ lists'[o] # <<>> => links'[head'[o]].left = END /\ links'[tail'[o]].right = END
    <3>1. head[o] = FirstOf(lists[o]) /\ tail[o] = LastOf(lists[o])
        BY <1>3 DEF ChainInv
    <3>2. ASSUME lists[o] # <<>> PROVE links'[head[o]].left = END /\ links'[tail[o]].right = END
      <4>1. head[o] \in Elements /\ tail[o] \in Elements
          BY <3>1, <3>2, <1>3, EndsOf, MyTypes
      <4>2. links[head[o]].left = END /\ links[tail[o]].right = END
          BY <3>2, <1>3 DEF ChainInv
      <4>3. links'[head[o]].left = links[head[o]].left
          BY <4>1, <1>8, <1>10, <1>12
      <4>4. links'[tail[o]] = links[tail[o]]
          BY <4>1, <1>12, <1>19
      <4> QED
          BY <4>2, <4>3, <4>4
    <3> QED
        BY <3>1, <3>2, <1>1, <1>13
  <2> QED
      BY <2>1, <2>2 DEF ChainInv
<1>22. FreeInv'
  <2>1. ASSUME NEW o \in Threads, NEW e \in Range(frees[o]) PROVE links'[e] = links[e]
    <3>1. e \in Elements /\ e # l
        BY <2>1, <1>3, <1>19, EndsOf, MyTypes
    <3> QED
        BY <3>1, <1>12
  <2>2. frees' = frees /\ freeListHead' = freeListHead /\ FreeInv
      BY <1>1, <1>3
  <2> QED
      BY <2>1, <2>2 DEF FreeInv
<1>23. \A d : /\ HasTarget(r, d) <=> HasTarget(th[t], d)
              /\ ~HasLeft(r, d) /\ (HasLeft(th[t], d) <=> d = l)
              /\ HasRight(r, d) <=> HasRight(th[t], d)
    BY <1>1, <1>2, <1>15 DEF HasTarget, HasLeft, HasRight, HoldsTarget, HoldsLeft, HoldsRight
<1>24. Exclusive' /\ Accounted'
  <2>1. \A u \in Threads, e \in Elements : u # t =>
           /\ HasTarget(r, e) => ~HasTarget(th[u], e)
           /\ HasLeft(r, e) => ~HasLeft(th[u], e)
           /\ HasRight(r, e) => ~HasRight(th[u], e)
      BY <1>3, <1>23 DEF Exclusive
  <2>2. \A e \in Elements : links'[e].left = LOCK =>
           \/ HasTarget(r, e) \/ HasRight(r, e)
           \/ links[e].left = LOCK /\ ~HasTarget(th[t], e) /\ ~HasRight(th[t], e)
      BY <1>10, <1>12, <1>23, Marked
  <2>3. \A e \in Elements : links'[e].right = LOCK =>
           \/ HasTarget(r, e) \/ HasLeft(r, e)
           \/ links[e].right = LOCK /\ ~HasTarget(th[t], e) /\ ~HasLeft(th[t], e)
      BY <1>10, <1>12, <1>23, Marked
  <2> QED
      BY <2>1, <2>2, <2>3, <1>3, <1>16, ClaimsAfter
<1>25. ASSUME NEW u \in Threads, u # t PROVE Undisturbed(u)
  <2>1. \A e \in Elements : Mine(u, e) => links'[e] = links[e]
      BY <1>6, <1>12, <1>25
  <2>2. ASSUME NEW a, NEW b, Needs(u, a, b), Adj(a, b) PROVE Adj(a, b)'
    <3>1. Mine(u, a) \/ Mine(u, b)
        BY <2>2, NeedsMine
    <3>2. a = x => b = m
        BY <2>2, <1>2, <1>3, OneNeighbour
    <3>3. b = x => a = l
        BY <2>2, <1>2, <1>3, OneNeighbour
    <3>4. a # x /\ b # x
        BY <3>1, <3>2, <3>3, <1>6, <1>25
    <3> QED
        BY <3>4, <2>2, <1>13
  <2> QED
      BY <2>1, <2>2, <1>1, <1>13, <1>17, <1>25 DEF Undisturbed
<1>26. LockInv(t)'
  <2>1. links'[x] = Links(LOCK, LOCK) /\ links'[m] = Links(LOCK, q) /\ Adj(l, m)'
      BY <1>4, <1>9, <1>12, <1>13
  <2> QED
      BY <2>1, <1>2, <1>4, <1>15, <1>16
      DEF LockInv, HoldsTarget, HoldsLeft, HoldsRight, Between
<1>27. th[t].spare # END => th[t].spare \in InHand(t) /\ th[t].spare \in Elements
    BY <1>3, InHands, MyTypes
<1>28. HandInv(t)'
  <2>1. ASSUME r.spare # END PROVE Popped(t, r.spare)'
      BY <2>1, <1>1, <1>12, <1>15, <1>19, <1>27, SpareKept
  <2> QED
      BY <2>1, <1>15, <1>16 DEF HandInv, Popped
<1>29. OpInv(t)'
  <2>1. r.op = "set" => r.x # r.spare
      BY <1>3, <1>15, <1>19, <1>27 DEF OpInv
  <2> QED
      BY <2>1, <1>1, <1>2, <1>3, <1>15, <1>16 DEF OpInv, Unlinking, Evicting
<1> QED
    BY <1>15, <1>16, <1>18, <1>20, <1>21, <1>22, <1>24, <1>25, <1>26, <1>28, <1>29, Assemble

\* No other thread relies on what t has in its hands.
LEMMA HandApart ==
    ASSUME ListInv, NEW t \in Threads, NEW u \in Threads, u # t, NEW e \in InHand(t)
    PROVE  ~Mine(u, e)
<1>1. /\ Types /\ PlaceInv /\ ChainInv
      /\ LockInv(u) /\ HandInv(u) /\ OpInv(u)
    BY DEF ListInv
<1>2. (\A a : ~Adj(a, e)) /\ (\A b : ~Adj(e, b))
    BY <1>1, OneNeighbour
<1>3. e \notin InHand(u) /\ e \notin Range(lists[u])
    BY <1>1, Apart
<1>4. ~HasTarget(th[u], e)
  <2>1. th[u].pc \in {"joinRight", "clear"} => th[u].x \in InHand(u)
      BY <1>1, InHands
  <2> QED
      BY <2>1, <1>1, <1>2, <1>3 DEF HasTarget, HoldsTarget, LockInv, Between
<1>5. ~HasLeft(th[u], e)
    BY <1>1, <1>2 DEF HasLeft, HoldsLeft, LockInv, Between
<1>6. ~HasRight(th[u], e)
    BY <1>1, <1>2 DEF HasRight, HoldsRight, LockInv, Between
<1>7. lists[u] # <<>> => head[u] \in Range(lists[u])
    BY <1>1, EndsOf, MyTypes DEF ChainInv
<1> QED
    BY <1>3, <1>4, <1>5, <1>6, <1>7 DEF Mine

-----------------------------------------------------------------------------
(* The owner's operations *)

\* A step that writes no word disturbs nobody, if it leaves the other lists.
LEMMA NoWrite ==
    ASSUME ListInv, NEW t \in Threads, NEW r, th' = [th EXCEPT ![t] = r], links' = links,
           \A a, b : Adj(a, b) => Adj(a, b)',
           \A u \in Threads : u # t => /\ head'[u] = head[u] /\ tail'[u] = tail[u]
                                       /\ freeListHead'[u] = freeListHead[u]
                                       /\ frees'[u] = frees[u] /\ lists'[u] = lists[u]
    PROVE  \A u \in Threads : u # t => Undisturbed(u)
<1>1. \A u \in Threads : u # t => th'[u] = th[u]
    BY Knows DEF Types
<1> QED
    BY <1>1 DEF Undisturbed

\* A call takes the first free element.
LEMMA PopStep ==
    ASSUME ListInv, NEW t \in Threads, th[t] = Idle, PopFree(t),
           UNCHANGED <<links, head, tail, lists>>, ops' \in [Threads -> 0 .. MaxOps],
           NEW r \in ThreadState, th' = [th EXCEPT ![t] = r], NEW e, e = freeListHead[t],
           known' \subseteq Elements \cup {e},
           \/ r.pc = "lock" /\ r.op = "set" /\ r.x \in Elements /\ r.spare = e
           \/ r.pc = "link" /\ r.op = "insert" /\ r.x = e /\ r.spare = END
    PROVE  ListInv'
<1>1. /\ Types /\ PlaceInv /\ ChainInv /\ FreeInv /\ Exclusive /\ Accounted
      /\ LockInv(t) /\ HandInv(t) /\ OpInv(t)
    BY Knows
<1>2. frees[t] # <<>> /\ frees[t] \in Seq(Elements) /\ IsInjective(frees[t])
  <2>1. Idle.pc = "idle" /\ Idle.op = "none"
      BY IdleState
  <2> QED
      BY <2>1, <1>1, MyTypes DEF OpInv, PlaceInv
<1>3. e = FirstOf(frees[t]) /\ e \in Elements /\ e \in Range(frees[t])
    BY <1>1, <1>2, EndsOf DEF FreeInv
<1>4. e # END
    BY <1>3, Marked
<1>5. /\ frees' = [frees EXCEPT ![t] = Tail(frees[t])]
      /\ freeListHead' = [freeListHead EXCEPT ![t] = links[e].right]
    BY DEF PopFree
<1>6. PICK q : q = Tail(frees[t])
    OBVIOUS
<1>7. /\ q \in Seq(Elements) /\ IsInjective(q) /\ Range(q) = Range(frees[t]) \ {e}
      /\ q # <<>> => LastOf(q) = LastOf(frees[t])
      /\ q # <<>> => Consec(frees[t], e, FirstOf(q))
      /\ q = <<>> => e = LastOf(frees[t])
      /\ \A a, b : Consec(q, a, b) => Consec(frees[t], a, b)
    BY <1>2, <1>3, <1>6, TailOf
<1>8. /\ frees'[t] = q /\ \A u \in Threads : u # t => frees'[u] = frees[u]
      /\ frees' \in [Threads -> Seq(Elements)]
    BY <1>1, <1>5, <1>6, <1>7 DEF Types
<1>9. links[e].left = END /\ links[e].right = FirstOf(q)
  <2>1. /\ links[e].left = END /\ (e = LastOf(frees[t]) => links[e].right = END)
        /\ \A b \in Elements : Consec(frees[t], e, b) => links[e].right = b
      BY <1>1, <1>3 DEF FreeInv
  <2>2. CASE q = <<>>
      BY <2>1, <2>2, <1>7 DEF FirstOf
  <2>3. CASE q # <<>>
    <3>1. FirstOf(q) \in Elements
        BY <2>3, <1>7, EndsOf
    <3> QED
        BY <3>1, <2>1, <2>3, <1>7
  <2> QED
      BY <2>2, <2>3
<1>10. FirstOf(q) \in Elements \cup {END}
    BY <1>7, EndsOf
<1>11. /\ freeListHead'[t] = FirstOf(q) /\ freeListHead' \in [Threads -> Elements \cup {END}]
       /\ \A u \in Threads : u # t => freeListHead'[u] = freeListHead[u]
    BY <1>1, <1>5, <1>9, <1>10 DEF Types
<1>12. th'[t] = r /\ \A u \in Threads : u # t => th'[u] = th[u]
    BY <1>1 DEF Types
<1>13. Types'
  <2>1. th' \in [Threads -> ThreadState]
      BY <1>1 DEF Types
  <2>2. known' \subseteq Elements
      BY <1>3
  <2> QED
      BY <2>1, <2>2, <1>1, <1>8, <1>11 DEF Types
<1>14. PlaceInv'
  <2>1. InHand(t) = {}
      BY IdleState DEF InHand
  <2>2. InHand(t)' = InHand(t) \cup {e}
      BY <2>1, <1>4, <1>12 DEF InHand
  <2>3. \A u \in Threads : u # t => InHand(u)' = InHand(u)
      BY <1>12 DEF InHand
  <2>4. "free" \in Kinds /\ "hand" \in Kinds
      BY DEF Kinds
  <2>5. /\ PlaceOf(t, "free")' = PlaceOf(t, "free") \ {e}
        /\ PlaceOf(t, "hand")' = PlaceOf(t, "hand") \cup {e}
        /\ e \in PlaceOf(t, "free")
      BY <2>2, <1>3, <1>7, <1>8 DEF PlaceOf
  <2>6. \A u \in Threads, n \in Kinds :
            (u # t \/ n # "free") /\ (u # t \/ n # "hand") => PlaceOf(u, n)' = PlaceOf(u, n)
      BY <2>3, <1>8 DEF PlaceOf, Kinds
  <2>7. \A u \in Threads : IsInjective(lists'[u]) /\ IsInjective(frees'[u])
      BY <1>1, <1>7, <1>8 DEF PlaceInv
  <2> QED
      BY <2>4, <2>5, <2>6, <2>7, <1>1, ElementMoves
<1>15. \A a, b : Adj(a, b)' <=> Adj(a, b)
    BY DEF Adj
<1>16. ChainInv'
    BY <1>1, <1>15 DEF ChainInv
<1>17. FreeInv'
  <2> SUFFICES ASSUME NEW o \in Threads
               PROVE  /\ freeListHead'[o] = FirstOf(frees'[o])
                      /\ \A x \in Range(frees'[o]) :
                            /\ links[x].left = END
                            /\ x = LastOf(frees'[o]) => links[x].right = END
                            /\ \A b \in Elements : Consec(frees'[o], x, b) => links[x].right = b
      BY DEF FreeInv
  <2>1. CASE o # t
    <3>1. frees'[o] = frees[o] /\ freeListHead'[o] = freeListHead[o] /\ FreeInv
        BY <2>1, <1>1, <1>8, <1>11
    <3> QED
        BY <3>1 DEF FreeInv
  <2>2. CASE o = t
    <3>1. ASSUME NEW x \in Range(q)
          PROVE  /\ links[x].left = END
                 /\ x = LastOf(q) => links[x].right = END
                 /\ \A b \in Elements : Consec(q, x, b) => links[x].right = b
      <4>1. x \in Range(frees[t]) /\ q # <<>>
          BY <3>1, <1>7, EndsOf
      <4>2. /\ links[x].left = END /\ (x = LastOf(frees[t]) => links[x].right = END)
            /\ \A b \in Elements : Consec(frees[t], x, b) => links[x].right = b
          BY <4>1, <1>1 DEF FreeInv
      <4> QED
          BY <4>1, <4>2, <1>7
    <3> QED
        BY <3>1, <2>2, <1>8, <1>11
  <2> QED
      BY <2>1, <2>2
<1>18. \A d : /\ ~HasTarget(r, d) /\ ~HasLeft(r, d) /\ ~HasRight(r, d)
              /\ ~HasTarget(th[t], d) /\ ~HasLeft(th[t], d) /\ ~HasRight(th[t], d)
    BY IdleState DEF HasTarget, HasLeft, HasRight, HoldsTarget, HoldsLeft, HoldsRight
<1>19. Exclusive' /\ Accounted'
    BY <1>1, <1>18, ClaimsAfter
<1>20. \A u \in Threads : u # t => Undisturbed(u)
    BY <1>8, <1>11, <1>15, NoWrite
<1>21. LockInv(t)'
    BY <1>12 DEF LockInv, HoldsTarget, HoldsLeft, HoldsRight, Between
<1>22. Popped(t, e)'
    BY <1>9, <1>11 DEF Popped
<1>23. HandInv(t)'
    BY <1>12, <1>22 DEF HandInv, Popped
<1>24. OpInv(t)'
    BY <1>3, <1>4, <1>12 DEF OpInv, Unlinking, Evicting
<1> QED
    BY <1>13, <1>14, <1>16, <1>17, <1>19, <1>20, <1>21, <1>23, <1>24, Assemble

LEMMA CallPopStep ==
    ASSUME ListInv, NEW t \in Threads, CallInsert(t) \/ \E x \in known : CallSet(t, x)
    PROVE  ListInv'
<1>1. PICK e : e = freeListHead[t]
    OBVIOUS
<1>2. e \in Elements \cup {END} /\ known \subseteq Elements
    BY <1>1, MyTypes, Knows
<1>3. CASE CallInsert(t)
  <2>1. ops' \in [Threads -> 0 .. MaxOps] /\ "insert" \in Ops /\ th[t] = Idle
      BY <1>3, CountedOps DEF CallInsert
  <2>2. PICK r : r = [Idle EXCEPT !.pc = "link", !.op = "insert", !.x = e]
      OBVIOUS
  <2>3. r \in ThreadState /\ r.pc = "link" /\ r.op = "insert" /\ r.x = e /\ r.spare = END
      BY <2>1, <2>2, <1>2, IdleState DEF ThreadState, Labels
  <2>4. th' = [th EXCEPT ![t] = r] /\ known' = known \cup {e} /\ PopFree(t)
      BY <2>1, <2>2, <1>1, <1>3 DEF CallInsert
  <2>5. known' \subseteq Elements \cup {e} /\ UNCHANGED <<links, head, tail, lists>>
      BY <2>4, <1>2, <1>3 DEF CallInsert
  <2> QED
      BY <2>1, <2>3, <2>4, <2>5, <1>1, PopStep
<1>4. CASE \E x \in known : CallSet(t, x)
  <2>0. PICK x \in Elements : CallSet(t, x)
      BY <1>2, <1>4
  <2>1. ops' \in [Threads -> 0 .. MaxOps] /\ "set" \in Ops /\ th[t] = Idle
      BY <2>0, CountedOps DEF CallSet
  <2>2. PICK r : r = [Idle EXCEPT !.pc = "lock", !.op = "set", !.x = x, !.spare = e]
      OBVIOUS
  <2>3. r \in ThreadState /\ r.pc = "lock" /\ r.op = "set" /\ r.x = x /\ r.spare = e
      BY <2>1, <2>2, <1>2, IdleState DEF ThreadState, Labels
  <2>4. th' = [th EXCEPT ![t] = r] /\ known' = known /\ PopFree(t)
      BY <2>0, <2>1, <2>2, <1>1 DEF CallSet
  <2>5. known' \subseteq Elements \cup {e} /\ UNCHANGED <<links, head, tail, lists>>
      BY <2>0, <2>4, <1>2 DEF CallSet
  <2> QED
      BY <2>1, <2>3, <2>4, <2>5, <1>1, PopStep
<1> QED
    BY <1>3, <1>4

\* linkHead is over: the thread has x no longer.
LEMMA LinkedOwn ==
    ASSUME ListInv, NEW t \in Threads, th[t].pc \in {"link", "headStore"}, LinkDone(t),
           UNCHANGED <<freeListHead, frees>>, lists'[t] # <<>>,
           th[t].spare # END => links'[th[t].spare] = links[th[t].spare]
    PROVE  \E r \in ThreadState :
              /\ th' = [th EXCEPT ![t] = r]
              /\ LockInv(t)' /\ HandInv(t)' /\ OpInv(t)' /\ InHand(t)' = InHand(t) \ {th[t].x}
              /\ \A d : ~HasTarget(r, d) /\ ~HasLeft(r, d) /\ ~HasRight(r, d)
<1>1. Types /\ FreeInv /\ HandInv(t) /\ OpInv(t)
    BY Knows
<1>2. PICK x \in Elements : x = th[t].x
    BY <1>1 DEF OpInv
<1>3. InHand(t) \ {x} = {th[t].spare} \ {END}
    BY <1>1, <1>2 DEF InHand, OpInv
<1>4. th[t].op \in {"get", "set", "insert"} /\ (th[t].spare # END <=> th[t].op = "set")
    BY <1>1 DEF OpInv
<1>5. CASE th[t].op = "set"
  <2>1. PICK s \in Elements : s = th[t].spare
      BY <1>1, <1>4, <1>5, MyTypes
  <2>2. Resume(t, "push", s) /\ "push" \in Labels
      BY <2>1, <1>5 DEF LinkDone, Labels
  <2>3. PICK r \in ThreadState : /\ th' = [th EXCEPT ![t] = r] /\ r.pc = "push" /\ r.x = s
                                 /\ r.op = th[t].op /\ r.spare = s
      BY <2>1, <2>2, <1>1, Resumed
  <2>4. th'[t] = r /\ s # END
      BY <2>3, Knows, Marked
  <2>5. Popped(t, s)'
      BY <2>1, <2>4, SpareKept
  <2>6. LockInv(t)'
      BY <2>3, <2>4 DEF LockInv, HoldsTarget, HoldsLeft, HoldsRight, Between
  <2>7. HandInv(t)'
      BY <2>3, <2>4, <2>5 DEF HandInv, Popped
  <2>8. OpInv(t)'
      BY <2>3, <2>4, <1>5 DEF OpInv, Unlinking, Evicting
  <2>9. InHand(t)' = InHand(t) \ {x}
      BY <2>1, <2>3, <2>4, <1>3 DEF InHand
  <2> QED
      BY <2>3, <2>6, <2>7, <2>8, <2>9, <1>2
      DEF HasTarget, HasLeft, HasRight, HoldsTarget, HoldsLeft, HoldsRight
<1>6. CASE th[t].op = "insert" /\ freeListHead[t] = END
  <2>1. Resume(t, "tail", END) /\ "tail" \in Labels
      BY <1>6 DEF LinkDone, Labels
  <2>2. PICK r \in ThreadState : /\ th' = [th EXCEPT ![t] = r] /\ r.pc = "tail" /\ r.x = END
                                 /\ r.op = th[t].op /\ r.spare = th[t].spare
      BY <2>1, <1>1, Resumed
  <2>3. th'[t] = r /\ th[t].spare = END
      BY <2>2, <1>4, <1>6, Knows
  <2>4. LockInv(t)'
      BY <2>2, <2>3 DEF LockInv, HoldsTarget, HoldsLeft, HoldsRight, Between
  <2>5. HandInv(t)'
      BY <2>2, <2>3 DEF HandInv, Popped
  <2>6. OpInv(t)'
      BY <2>2, <2>3, <1>6 DEF OpInv, Unlinking, Evicting
  <2>7. InHand(t)' = InHand(t) \ {x}
      BY <2>2, <2>3, <1>3 DEF InHand
  <2> QED
      BY <2>2, <2>4, <2>5, <2>6, <2>7, <1>2
      DEF HasTarget, HasLeft, HasRight, HoldsTarget, HoldsLeft, HoldsRight
<1>7. CASE th[t].op # "set" /\ ~(th[t].op = "insert" /\ freeListHead[t] = END)
  <2>1. th' = [th EXCEPT ![t] = Idle]
      BY <1>7 DEF LinkDone, Return
  <2>2. th'[t] = Idle /\ th[t].spare = END
      BY <2>1, <1>4, <1>7, Knows
  <2>3. /\ Idle \in ThreadState /\ Idle.pc = "idle" /\ Idle.op = "none" /\ Idle.spare = END
        /\ \A d : ~HasTarget(Idle, d) /\ ~HasLeft(Idle, d) /\ ~HasRight(Idle, d)
      BY IdleState
  <2>4. frees[t] # <<>>
    <3>1. CASE th[t].op = "insert"
        BY <3>1, <1>1, <1>7 DEF FreeInv, FirstOf
    <3>2. CASE th[t].op = "get"
        BY <3>2, <1>1 DEF OpInv
    <3> QED
        BY <3>1, <3>2, <1>4, <1>7
  <2>5. LockInv(t)'
      BY <2>2, <2>3 DEF LockInv, HoldsTarget, HoldsLeft, HoldsRight, Between
  <2>6. HandInv(t)'
      BY <2>2, <2>3 DEF HandInv, Popped
  <2>7. OpInv(t)'
      BY <2>2, <2>3, <2>4 DEF OpInv, Unlinking, Evicting
  <2>8. InHand(t)' = InHand(t) \ {x}
      BY <2>2, <2>3, <1>3 DEF InHand
  <2> QED
      BY <2>1, <2>3, <2>5, <2>6, <2>7, <2>8, <1>2
<1> QED
    BY <1>5, <1>6, <1>7

\* An element in the hands of a thread is next to nothing.
LEMMA HandAgrees ==
    ASSUME ListInv, NEW t \in Threads, NEW e \in InHand(t)
    PROVE  /\ \A a : ~Adj(a, e) /\ ~Adj(e, a)
           /\ \A o \in Threads : e \notin Range(lists[o]) /\ e \notin Range(frees[o])
           /\ \A o \in Threads : lists[o] # <<>> => e # head[o] /\ e # tail[o]
           /\ \A w : Agrees(e, w)
<1>1. Types /\ PlaceInv /\ ChainInv
    BY Knows
<1>2. \A a : ~Adj(a, e) /\ ~Adj(e, a)
    BY <1>1, OneNeighbour
<1>3. \A o \in Threads : e \notin Range(lists[o]) /\ e \notin Range(frees[o])
    BY <1>1, Apart
<1>4. \A o \in Threads : lists[o] # <<>> => /\ head[o] \in Range(lists[o])
                                            /\ tail[o] \in Range(lists[o])
    BY <1>1, EndsOf, MyTypes DEF ChainInv
<1> QED
    BY <1>2, <1>3, <1>4 DEF Agrees

\* linkHead in front of a list that is not empty: first the element's word.
LEMMA LinkWordStep ==
    ASSUME ListInv, NEW t \in Threads, th[t].pc = "link", head[t] # END,
           links' = [links EXCEPT ![th[t].x] = Links(END, head[t])], Goto(t, "headLoad"),
           UNCHANGED <<head, tail, lists, freeListHead, ops, known, frees>>
    PROVE  ListInv'
<1>1. Still
    BY DEF Still
<1>2. /\ th[t] \in ThreadState /\ links \in [Elements -> Word] /\ Types /\ ChainInv
      /\ OpInv(t) /\ HandInv(t)
    BY Knows
<1>3. PICK x \in Elements : x = th[t].x
    BY <1>2 DEF OpInv
<1>4. head[t] \in Elements /\ lists[t] # <<>>
    BY <1>2, MyTypes DEF ChainInv, FirstOf
<1>5. PICK w \in Word : w = Links(END, head[t]) /\ w.left = END /\ w.right = head[t]
    BY <1>4, WordForm, LinksForm
<1>6. links' = [links EXCEPT ![x] = w]
    BY <1>3, <1>5
<1>7. links'[x] = w /\ \A d \in Elements : d # x => links'[d] = links[d]
    BY <1>2, <1>6
<1>8. x \in InHand(t)
    BY <1>2, <1>3, InHands
<1>9. Agrees(x, w)
    BY <1>8, HandAgrees
<1>10. \A u \in Threads : u # t => ~Mine(u, x)
    BY <1>8, HandApart
<1>11. PICK r : r = [th[t] EXCEPT !.pc = "headLoad"]
    OBVIOUS
<1>12. /\ r \in ThreadState /\ r.pc = "headLoad" /\ r.op = th[t].op /\ r.x = x
       /\ r.spare = th[t].spare
    BY <1>2, <1>3, <1>11 DEF ThreadState, Labels
<1>13. th' = [th EXCEPT ![t] = r] /\ th'[t] = r
    BY <1>11, Knows DEF Goto
<1>14. \A d : /\ ~HasTarget(r, d) /\ ~HasLeft(r, d) /\ ~HasRight(r, d)
              /\ ~HasTarget(th[t], d) /\ ~HasLeft(th[t], d) /\ ~HasRight(th[t], d)
    BY <1>12 DEF HasTarget, HasLeft, HasRight, HoldsTarget, HoldsLeft, HoldsRight
<1>15. LockInv(t)'
    BY <1>12, <1>13 DEF LockInv, HoldsTarget, HoldsLeft, HoldsRight, Between
<1>16. th[t].spare # END => th[t].spare \in Elements /\ th[t].spare # x
    BY <1>2, <1>3, MyTypes DEF OpInv
<1>17. HandInv(t)'
  <2>1. ASSUME r.spare # END PROVE Popped(t, r.spare)'
      BY <2>1, <1>7, <1>12, <1>16, SpareKept
  <2> QED
      BY <2>1, <1>4, <1>5, <1>7, <1>12, <1>13 DEF HandInv, Popped
<1>18. OpInv(t)'
  <2>1. r.op \in {"get", "set", "insert"} /\ (r.spare # END <=> r.op = "set") /\ r.x \in Elements
      BY <1>2, <1>12 DEF OpInv
  <2>2. r.op = "set" => r.x # r.spare
      BY <2>1, <1>12, <1>16
  <2>3. frees'[t] = <<>> => r.op \in {"set", "insert"}
      BY <1>2, <1>12 DEF OpInv
  <2> QED
      BY <2>1, <2>2, <2>3, <1>12, <1>13 DEF OpInv, Unlinking, Evicting
<1>19. InHand(t)' = InHand(t)
    BY <1>3, <1>12, <1>13 DEF InHand
<1> QED
    BY <1>1, <1>4, <1>5, <1>6, <1>9, <1>10, <1>12, <1>13, <1>14, <1>15, <1>17, <1>18, <1>19,
       WordStep,
       Marked

\* Reading the word of the old head.
LEMMA HeadLoadStep ==
    ASSUME ListInv, NEW t \in Threads, LinkHeadLoad(t)
    PROVE  ListInv'
<1>1. th[t].pc = "headLoad" /\ Still /\ UNCHANGED <<links, ops, known>>
    BY DEF LinkHeadLoad, At, Still, heads, history
<1>2. /\ th[t] \in ThreadState /\ links \in [Elements -> Word] /\ Types /\ ChainInv
      /\ OpInv(t) /\ HandInv(t)
    BY Knows
<1>3. lists[t] # <<>> /\ links[th[t].x] = Links(END, head[t])
    BY <1>1, <1>2 DEF HandInv
<1>4. head[t] \in Elements
    BY <1>2, <1>3, EndsOf, MyTypes DEF ChainInv
<1>5. PICK w \in Word : w = links[head[t]]
    BY <1>2, <1>4
<1>6. PICK r : r = [th[t] EXCEPT !.pc = "headStore", !.rgt = w]
    OBVIOUS
<1>7. /\ r \in ThreadState /\ r.pc = "headStore" /\ r.op = th[t].op /\ r.x = th[t].x
      /\ r.spare = th[t].spare /\ r.rgt = w
    BY <1>2, <1>6 DEF ThreadState, Labels
<1>8. th' = [th EXCEPT ![t] = r] /\ th'[t] = r
    BY <1>5, <1>6, Knows DEF LinkHeadLoad
<1>9. \A d : /\ ~HasTarget(r, d) /\ ~HasLeft(r, d) /\ ~HasRight(r, d)
             /\ ~HasTarget(th[t], d) /\ ~HasLeft(th[t], d) /\ ~HasRight(th[t], d)
    BY <1>1, <1>7 DEF HasTarget, HasLeft, HasRight, HoldsTarget, HoldsLeft, HoldsRight
<1>10. LockInv(t)'
    BY <1>7, <1>8 DEF LockInv, HoldsTarget, HoldsLeft, HoldsRight, Between
<1>11. HandInv(t)'
    BY <1>1, <1>2, <1>3, <1>5, <1>7, <1>8 DEF HandInv, Popped, Still
<1>12. OpInv(t)'
    BY <1>1, <1>2, <1>7, <1>8 DEF OpInv, Unlinking, Evicting, Still
<1>13. InHand(t)' = InHand(t)
    BY <1>1, <1>7, <1>8 DEF InHand
<1>14. ops' \in [Threads -> 0 .. MaxOps] /\ known' \subseteq Elements
    BY <1>1, Knows
<1> QED
    BY <1>1, <1>7, <1>8, <1>9, <1>10, <1>11, <1>12, <1>13, <1>14, QuietStep

\* The element enters the list: as its only element, or before the old head,
\* which gets a left neighbour.
LEMMA EnterStep ==
    ASSUME ListInv, NEW t \in Threads, th[t].pc \in {"link", "headStore"}, LinkDone(t),
           UNCHANGED <<freeListHead, ops, known, frees>>,
           NEW x \in Elements, x = th[t].x,
           head' = [head EXCEPT ![t] = x], lists' = [lists EXCEPT ![t] = <<x>> \o lists[t]],
           \/ /\ th[t].pc = "link" /\ lists[t] = <<>> /\ links' = [links EXCEPT ![x] = Ends]
              /\ tail' = [tail EXCEPT ![t] = x]
           \/ /\ th[t].pc = "headStore" /\ lists[t] # <<>> /\ tail' = tail
              /\ links' = [links EXCEPT ![head[t]] = Links(x, th[t].rgt.right)]
    PROVE  ListInv'
<1>1. /\ Types /\ PlaceInv /\ ChainInv /\ FreeInv /\ Exclusive /\ Accounted
      /\ HandInv(t) /\ OpInv(t) /\ links \in [Elements -> Word] /\ lists[t] \in Seq(Elements)
      /\ IsInjective(lists[t])
    BY Knows, MyTypes DEF PlaceInv
<1>2. x \in InHand(t)
    BY <1>1, InHands
<1>3. /\ \A a : ~Adj(a, x) /\ ~Adj(x, a)
      /\ \A o \in Threads : x \notin Range(lists[o]) /\ x \notin Range(frees[o])
      /\ \A o \in Threads : lists[o] # <<>> => x # head[o] /\ x # tail[o]
    BY <1>2, HandAgrees
<1>4. PICK s : s = <<x>> \o lists[t]
    OBVIOUS
<1>5. /\ s \in Seq(Elements) /\ IsInjective(s) /\ Range(s) = Range(lists[t]) \cup {x}
      /\ s # <<>> /\ FirstOf(s) = x
      /\ LastOf(s) = IF lists[t] = <<>> THEN x ELSE LastOf(lists[t])
      /\ \A a, b : Consec(s, a, b) <=> \/ Consec(lists[t], a, b)
                                       \/ lists[t] # <<>> /\ a = x /\ b = FirstOf(lists[t])
    BY <1>1, <1>3, <1>4, Prepended
<1>6. /\ lists'[t] = s /\ \A u \in Threads : u # t => lists'[u] = lists[u]
      /\ lists' \in [Threads -> Seq(Elements)]
    BY <1>1, <1>4, <1>5 DEF Types
<1>7. /\ head'[t] = x /\ \A u \in Threads : u # t => head'[u] = head[u]
      /\ head' \in [Threads -> Elements \cup {END}]
    BY <1>1 DEF Types
<1>8. /\ tail'[t] = LastOf(s) /\ \A u \in Threads : u # t => tail'[u] = tail[u]
      /\ tail' \in [Threads -> Elements \cup {END}]
  <2>1. CASE lists[t] = <<>>
    <3>1. tail' = [tail EXCEPT ![t] = x] /\ LastOf(s) = x
        BY <2>1, <1>5
    <3> QED
        BY <3>1, <1>1 DEF Types
  <2>2. CASE lists[t] # <<>>
    <3>1. tail' = tail /\ LastOf(s) = LastOf(lists[t])
        BY <2>2, <1>5
    <3> QED
        BY <3>1, <1>1 DEF Types, ChainInv
  <2> QED
      BY <2>1, <2>2
<1>9. PICK h : h = head[t] /\ h = FirstOf(lists[t])
    BY <1>1 DEF ChainInv
<1>10. \A a, b : Adj(a, b)' <=> Adj(a, b) \/ (lists[t] # <<>> /\ a = x /\ b = h)
  <2>1. ASSUME NEW a, NEW b, Adj(a, b)'
        PROVE  Adj(a, b) \/ (lists[t] # <<>> /\ a = x /\ b = h)
    <3>1. PICK o \in Threads : Consec(lists'[o], a, b)
        BY <2>1 DEF Adj
    <3> QED
        BY <3>1, <1>5, <1>6, <1>9 DEF Adj
  <2>2. ASSUME NEW a, NEW b, Adj(a, b) PROVE Adj(a, b)'
    <3>1. PICK o \in Threads : Consec(lists[o], a, b)
        BY <2>2 DEF Adj
    <3>2. Consec(lists'[o], a, b)
        BY <3>1, <1>5, <1>6
    <3> QED
        BY <3>2 DEF Adj
  <2>3. ASSUME lists[t] # <<>> PROVE Adj(x, h)'
    <3>1. Consec(lists'[t], x, h)
        BY <2>3, <1>5, <1>6, <1>9
    <3> QED
        BY <3>1 DEF Adj
  <2> QED
      BY <2>1, <2>2, <2>3
\* The word that changes: the element's own, or the old head's left link.
<1>11. PICK y \in Elements, w \in Word :
          /\ links' = [links EXCEPT ![y] = w]
          /\ \/ lists[t] = <<>> /\ y = x /\ w.left = END /\ w.right = END
             \/ /\ lists[t] # <<>> /\ y = h /\ links[x] = Links(END, h)
                /\ w.left = x /\ w.right = links[h].right
  <2>1. CASE lists[t] = <<>>
    <3>1. Ends \in Word /\ Ends.left = END /\ Ends.right = END
        BY WordForm DEF Ends, Marks
    <3> QED
        BY <3>1, <2>1
  <2>2. CASE lists[t] # <<>>
    <3>1. h \in Elements /\ links[x] = Links(END, h) /\ th[t].rgt = links[h]
        BY <2>2, <1>1, <1>9, EndsOf DEF HandInv
    <3>2. links[h].right \in Elements \cup Marks
        BY <3>1, <1>1, WordForm
    <3>3. /\ Links(x, links[h].right) \in Word /\ Links(x, links[h].right).left = x
          /\ Links(x, links[h].right).right = links[h].right
        BY <3>2, WordForm
    <3> QED
        BY <3>1, <3>3, <2>2, <1>9
  <2> QED
      BY <2>1, <2>2
<1>12. /\ links' \in [Elements -> Word] /\ links'[y] = w
       /\ \A d \in Elements : d # y => links'[d] = links[d]
    BY <1>1, <1>11
\* The old head is in the thread's list and in no other place.
<1>13. lists[t] # <<>> =>
          /\ h \in Range(lists[t]) /\ h \in Elements /\ h # x /\ links[h].left = END
          /\ \A a : ~Adj(a, h)
          /\ \A o \in Threads : /\ h \notin Range(frees[o]) /\ h \notin InHand(o)
                                /\ o # t => h \notin Range(lists[o])
  <2> SUFFICES ASSUME lists[t] # <<>>
               PROVE  /\ h \in Range(lists[t]) /\ h \in Elements /\ h # x /\ links[h].left = END
                      /\ \A a : ~Adj(a, h)
                      /\ \A o \in Threads : /\ h \notin Range(frees[o]) /\ h \notin InHand(o)
                                            /\ o # t => h \notin Range(lists[o])
      OBVIOUS
  <2>1. h \in Range(lists[t]) /\ h \in Elements
      BY <1>1, <1>9, EndsOf
  <2>2. h # x /\ links[h].left = END
      BY <1>1, <1>3, <1>9 DEF ChainInv
  <2>3. \A a : ~Adj(a, h)
      BY <1>1, <1>9, OneNeighbour
  <2>4. \A o \in Threads : /\ h \notin Range(frees[o]) /\ h \notin InHand(o)
                           /\ o # t => h \notin Range(lists[o])
      BY <2>1, <1>1, Apart
  <2> QED
      BY <2>1, <2>2, <2>3, <2>4
<1>14. \A o \in Threads : y \notin Range(frees[o])
    BY <1>3, <1>11, <1>13
<1>15. th[t].spare # END => links'[th[t].spare] = links[th[t].spare]
  <2> SUFFICES ASSUME th[t].spare # END PROVE links'[th[t].spare] = links[th[t].spare]
      OBVIOUS
  <2>1. th[t].spare \in InHand(t) /\ th[t].spare \in Elements
      BY <1>1, InHands
  <2>2. th[t].spare # x
      BY <1>1 DEF OpInv
  <2>3. th[t].spare # y
      BY <2>1, <2>2, <1>11, <1>13
  <2> QED
      BY <2>1, <2>3, <1>12
<1>16. PICK r \in ThreadState :
          /\ th' = [th EXCEPT ![t] = r]
          /\ LockInv(t)' /\ HandInv(t)' /\ OpInv(t)' /\ InHand(t)' = InHand(t) \ {x}
          /\ \A d : ~HasTarget(r, d) /\ ~HasLeft(r, d) /\ ~HasRight(r, d)
    BY <1>5, <1>6, <1>15, LinkedOwn
<1>17. th'[t] = r /\ \A u \in Threads : u # t => th'[u] = th[u]
    BY <1>1, <1>16 DEF Types
<1>18. Types'
  <2>1. th' \in [Threads -> ThreadState]
      BY <1>1, <1>16 DEF Types
  <2> QED
      BY <2>1, <1>1, <1>6, <1>7, <1>8, <1>12 DEF Types
<1>19. PlaceInv'
  <2>1. \A u \in Threads : u # t => InHand(u)' = InHand(u)
      BY <1>17 DEF InHand
  <2>2. "list" \in Kinds /\ "hand" \in Kinds
      BY DEF Kinds
  <2>3. /\ PlaceOf(t, "hand")' = PlaceOf(t, "hand") \ {x}
        /\ PlaceOf(t, "list")' = PlaceOf(t, "list") \cup {x}
        /\ x \in PlaceOf(t, "hand")
      BY <1>2, <1>5, <1>6, <1>16 DEF PlaceOf
  <2>4. \A u \in Threads, n \in Kinds :
            (u # t \/ n # "hand") /\ (u # t \/ n # "list") => PlaceOf(u, n)' = PlaceOf(u, n)
      BY <2>1, <1>6 DEF PlaceOf, Kinds
  <2>5. \A u \in Threads : IsInjective(lists'[u]) /\ IsInjective(frees'[u])
      BY <1>1, <1>5, <1>6 DEF PlaceInv
  <2> QED
      BY <2>2, <2>3, <2>4, <2>5, <1>1, ElementMoves
<1>20. ChainInv'
  <2>1. ASSUME NEW a \in Elements, NEW b \in Elements, Adj(a, b)'
        PROVE  links'[a].right \in {b, LOCK} /\ links'[b].left \in {a, LOCK}
    <3>1. CASE Adj(a, b)
      <4>1. links[a].right \in {b, LOCK} /\ links[b].left \in {a, LOCK}
          BY <3>1, <1>1 DEF ChainInv
      <4>2. a # x /\ b # x
          BY <3>1, <1>3
      <4>3. lists[t] # <<>> => b # h
          BY <3>1, <1>13
      <4>4. b # y
          BY <4>2, <4>3, <1>11
      <4>5. links'[a].right = links[a].right
        <5>1. CASE a # y
            BY <5>1, <1>12
        <5>2. CASE a = y
            BY <5>2, <4>2, <1>11, <1>12
        <5> QED
            BY <5>1, <5>2
      <4> QED
          BY <4>1, <4>4, <4>5, <1>12
    <3>2. CASE lists[t] # <<>> /\ a = x /\ b = h
      <4>1. y = h /\ x # h /\ links[x] = Links(END, h) /\ w.left = x
          BY <3>2, <1>11, <1>13
      <4>2. h \in Elements /\ Links(END, h).right = h
          BY <3>2, <1>13, WordForm, LinksForm
      <4> QED
          BY <4>1, <4>2, <3>2, <1>12
    <3> QED
        BY <3>1, <3>2, <2>1, <1>10
  <2>2. ASSUME NEW o \in Threads
        PROVE  /\ head'[o] = FirstOf(lists'[o]) /\ tail'[o] = LastOf(lists'[o])
               /\ lists'[o] # <<>> => links'[head'[o]].left = END /\ links'[tail'[o]].right = END
    <3>1. CASE o # t
      <4>1. /\ lists'[o] = lists[o] /\ head'[o] = head[o] /\ tail'[o] = tail[o]
            /\ head[o] = FirstOf(lists[o]) /\ tail[o] = LastOf(lists[o])
          BY <3>1, <1>1, <1>6, <1>7, <1>8 DEF ChainInv
      <4>2. ASSUME lists[o] # <<>> PROVE links'[head[o]].left = END /\ links'[tail[o]].right = END
        <5>1. /\ head[o] \in Range(lists[o]) /\ tail[o] \in Range(lists[o])
              /\ head[o] \in Elements /\ tail[o] \in Elements
            BY <4>1, <4>2, <1>1, EndsOf, MyTypes
        <5>2. y \notin Range(lists[o])
            BY <3>1, <1>3, <1>11, <1>13
        <5>3. links'[head[o]] = links[head[o]] /\ links'[tail[o]] = links[tail[o]]
            BY <5>1, <5>2, <1>12
        <5> QED
            BY <5>3, <4>2, <1>1 DEF ChainInv
      <4> QED
          BY <4>1, <4>2
    <3>2. CASE o = t /\ lists[t] = <<>>
      <4>1. tail'[t] = x /\ y = x
          BY <3>2, <1>5, <1>8, <1>11, <1>3
      <4> QED
          BY <4>1, <3>2, <1>5, <1>6, <1>7, <1>8, <1>11, <1>12
    <3>3. CASE o = t /\ lists[t] # <<>>
      <4>1. /\ y = h /\ x # h /\ links[x] = Links(END, h) /\ w.right = links[h].right
            /\ h \in Elements
          BY <3>3, <1>11, <1>13
      <4>2. links'[x].left = END
        <5>1. Links(END, h).left = END
            BY <4>1, WordForm, LinksForm
        <5> QED
            BY <5>1, <4>1, <1>12
      <4>3. tail'[t] = tail[t] /\ tail[t] \in Elements /\ links[tail[t]].right = END
          BY <3>3, <1>1, <1>5, <1>8, EndsOf DEF ChainInv
      <4>4. links'[tail[t]].right = END
        <5>1. CASE tail[t] = h
            BY <5>1, <4>1, <4>3, <1>12
        <5>2. CASE tail[t] # h
            BY <5>2, <4>1, <4>3, <1>12
        <5> QED
            BY <5>1, <5>2
      <4> QED
          BY <4>2, <4>3, <4>4, <3>3, <1>5, <1>6, <1>7, <1>8
    <3> QED
        BY <3>1, <3>2, <3>3
  <2> QED
      BY <2>1, <2>2 DEF ChainInv
<1>21. FreeInv'
  <2>1. ASSUME NEW o \in Threads, NEW e \in Range(frees[o]) PROVE links'[e] = links[e]
    <3>1. e \in Elements /\ e # y
        BY <2>1, <1>1, <1>14, EndsOf, MyTypes
    <3> QED
        BY <3>1, <1>12
  <2>2. frees' = frees /\ freeListHead' = freeListHead /\ FreeInv
      BY <1>1
  <2> QED
      BY <2>1, <2>2 DEF FreeInv
<1>22. Exclusive' /\ Accounted'
  <2>1. \A d : ~HasTarget(th[t], d) /\ ~HasLeft(th[t], d) /\ ~HasRight(th[t], d)
      BY DEF HasTarget, HasLeft, HasRight, HoldsTarget, HoldsLeft, HoldsRight
  <2>2. \A e \in Elements : links'[e].left = LOCK => links[e].left = LOCK
      BY <1>11, <1>12, Marked
  <2>3. \A e \in Elements : links'[e].right = LOCK => links[e].right = LOCK
      BY <1>11, <1>12, Marked
  <2> QED
      BY <2>1, <2>2, <2>3, <1>1, <1>16, ClaimsAfter
<1>23. ASSUME NEW u \in Threads, u # t PROVE Undisturbed(u)
  <2>1. ~Mine(u, y)
    <3>1. CASE lists[t] = <<>>
        BY <3>1, <1>2, <1>11, <1>23, HandApart
    <3>2. CASE lists[t] # <<>>
      <4>1. /\ LockInv(u) /\ HandInv(u) /\ OpInv(u) /\ Types /\ PlaceInv /\ ChainInv
          BY <1>1 DEF ListInv
      <4>2. y = h /\ links[h].left = END /\ h \notin InHand(u) /\ h \notin Range(lists[u])
          BY <3>2, <1>11, <1>13, <1>23
      <4> QED
          BY <4>1, <4>2, MineWord, Marked
    <3> QED
        BY <3>1, <3>2
  <2>2. \A e \in Elements : Mine(u, e) => links'[e] = links[e]
      BY <2>1, <1>12
  <2>3. \A a, b : Adj(a, b) => Adj(a, b)'
      BY <1>10
  <2> QED
      BY <2>2, <2>3, <1>6, <1>7, <1>8, <1>17, <1>23 DEF Undisturbed
<1> QED
    BY <1>16, <1>18, <1>19, <1>20, <1>21, <1>22, <1>23, Assemble

LEMMA LinkStoreStep ==
    ASSUME ListInv, NEW t \in Threads, LinkStore(t)
    PROVE  ListInv'
<1>1. Types /\ ChainInv /\ OpInv(t) /\ lists[t] \in Seq(Elements) /\ th[t].pc = "link"
    BY Knows, MyTypes DEF LinkStore, At
<1>2. PICK x \in Elements : x = th[t].x
    BY <1>1 DEF OpInv
<1>3. /\ links' = [links EXCEPT ![x] = Links(END, head[t])]
      /\ UNCHANGED <<freeListHead, ops, known, frees>>
    BY <1>2 DEF LinkStore
<1>4. CASE head[t] # END
    BY <1>1, <1>2, <1>3, <1>4, LinkWordStep DEF LinkStore
<1>5. CASE head[t] = END
  <2>1. lists[t] = <<>>
      BY <1>1, <1>5, EndsOf, Marked DEF ChainInv
  <2>2. <<x>> \o lists[t] = <<x>>
      BY <2>1
  <2>3. /\ head' = [head EXCEPT ![t] = x] /\ tail' = [tail EXCEPT ![t] = x]
        /\ lists' = [lists EXCEPT ![t] = <<x>> \o lists[t]] /\ LinkDone(t)
      BY <2>2, <1>2, <1>5 DEF LinkStore
  <2>4. links' = [links EXCEPT ![x] = Ends]
      BY <1>3, <1>5 DEF Ends
  <2> QED
      BY <2>1, <2>3, <2>4, <1>1, <1>2, <1>3, EnterStep
<1> QED
    BY <1>4, <1>5

LEMMA HeadStoreStep ==
    ASSUME ListInv, NEW t \in Threads, LinkHeadStore(t)
    PROVE  ListInv'
<1>1. OpInv(t) /\ HandInv(t) /\ th[t].pc = "headStore"
    BY Knows DEF LinkHeadStore, At
<1>2. PICK x \in Elements : x = th[t].x
    BY <1>1 DEF OpInv
<1>3. /\ lists[t] # <<>> /\ LinkDone(t) /\ UNCHANGED <<tail, freeListHead, ops, known, frees>>
      /\ head' = [head EXCEPT ![t] = x] /\ lists' = [lists EXCEPT ![t] = <<x>> \o lists[t]]
      /\ links' = [links EXCEPT ![head[t]] = Links(x, th[t].rgt.right)]
    BY <1>1, <1>2 DEF LinkHeadStore, HandInv
<1> QED
    BY <1>1, <1>2, <1>3, EnterStep

-----------------------------------------------------------------------------
(* Eviction *)

\* Another thread relies on no element of t's list whose word has no lock; the
\* tail's word has none on the left if it has none on the right.
LEMMA ListApart ==
    ASSUME ListInv, NEW t \in Threads, NEW u \in Threads, u # t, NEW e \in Range(lists[t]),
           links[e].right # LOCK, links[e].left # LOCK \/ links[e].right = END
    PROVE  ~Mine(u, e)
<1>1. /\ Types /\ PlaceInv /\ ChainInv /\ lists[t] \in Seq(Elements)
      /\ LockInv(u) /\ HandInv(u) /\ OpInv(u)
    BY MyTypes DEF ListInv
<1>2. e \in Elements /\ e \notin InHand(u) /\ e \notin Range(lists[u])
    BY <1>1, Apart, EndsOf
<1> QED
    BY <1>1, <1>2, MineWord, Marked

\* The left neighbour of the tail, if its right link says so.
LEMMA TailNeighbour ==
    ASSUME ListInv, NEW t \in Threads, lists[t] # <<>>, InHand(t) = {}, NEW l \in Elements,
           links[l].right = tail[t]
    PROVE  Adj(l, tail[t])
<1>1. Types /\ PlaceInv /\ ChainInv /\ FreeInv
    BY DEF ListInv
<1>2. PICK z : z = tail[t] /\ z = LastOf(lists[t])
    BY <1>1 DEF ChainInv
<1>3. z \in Range(lists[t]) /\ z \in Elements /\ z # END /\ z # LOCK
    BY <1>1, <1>2, EndsOf, MyTypes, Marked
<1>4. PICK u \in Threads : l \in Range(lists[u]) \/ l \in Range(frees[u]) \/ l \in InHand(u)
    BY <1>1, Somewhere
<1>5. CASE l \in Range(lists[u])
  <2>1. lists[u] \in Seq(Elements) /\ lists[u] # <<>>
      BY <1>1, <1>5, MyTypes, HasNeighbours
  <2>2. tail[u] = LastOf(lists[u]) /\ links[tail[u]].right = END
      BY <2>1, <1>1 DEF ChainInv
  <2>3. l # LastOf(lists[u])
      BY <2>2, <1>2, <1>3
  <2>4. PICK b \in Elements : Consec(lists[u], l, b)
      BY <2>1, <2>3, <1>5, HasNeighbours
  <2>5. Adj(l, b)
      BY <2>4 DEF Adj
  <2>6. links[l].right \in {b, LOCK}
      BY <2>5, <1>1 DEF ChainInv
  <2> QED
      BY <2>5, <2>6, <1>2, <1>3
<1>6. CASE l \in Range(frees[u])
  <2>1. frees[u] \in Seq(Elements)
      BY <1>1, MyTypes
  <2>2. /\ l = LastOf(frees[u]) => links[l].right = END
        /\ \A b \in Elements : Consec(frees[u], l, b) => links[l].right = b
      BY <1>1, <1>6 DEF FreeInv
  <2>3. PICK b \in Elements : Consec(frees[u], l, b)
      BY <2>1, <2>2, <1>2, <1>3, <1>6, HasNeighbours
  <2>4. b \in Range(frees[u])
      BY <2>1, <2>3, <1>1, Neighbours DEF PlaceInv
  <2> QED
      BY <2>2, <2>3, <2>4, <1>1, <1>2, <1>3, Apart
<1>7. CASE l \in InHand(u)
  <2>1. LockInv(u) /\ HandInv(u) /\ OpInv(u)
      BY DEF ListInv
  <2>2. \/ links[l] = Links(LOCK, LOCK)
        \/ links[l].right \in {END, freeListHead[u]}
        \/ lists[u] # <<>> /\ links[l] = Links(END, head[u])
      BY <2>1, <1>1, <1>7, HandWord
  <2>3. head[u] \in Elements \cup {END}
      BY <1>1, MyTypes
  <2>4. Links(LOCK, LOCK).right = LOCK /\ Links(END, head[u]).right = head[u]
      BY <2>3, WordForm, LinksForm
  <2>5. freeListHead[u] # z
    <3>1. freeListHead[u] = FirstOf(frees[u]) /\ frees[u] \in Seq(Elements)
        BY <1>1, MyTypes DEF FreeInv
    <3> QED
        BY <3>1, <1>1, <1>3, EndsOf, Apart
  <2>6. ASSUME lists[u] # <<>>, links[l] = Links(END, head[u]) PROVE FALSE
    <3>1. head[u] = FirstOf(lists[u]) /\ lists[u] \in Seq(Elements)
        BY <1>1, MyTypes DEF ChainInv
    <3>2. z \in Range(lists[u])
        BY <3>1, <2>4, <2>6, <1>2, EndsOf
    <3> QED
        BY <3>2, <1>1, <1>3, <1>7, Apart
  <2> QED
      BY <2>2, <2>4, <2>5, <2>6, <1>2, <1>3
<1> QED
    BY <1>4, <1>5, <1>6, <1>7

\* The thread takes an element of its own list into its empty hands.
LEMMA TailOwn ==
    ASSUME ListInv, NEW t \in Threads, th[t].pc \in {"tail", "tailCut"}, NEW x \in Elements,
           Resume(t, "tailClear", x), links'[x].right = END, UNCHANGED frees
    PROVE  \E r \in ThreadState :
              /\ th' = [th EXCEPT ![t] = r]
              /\ LockInv(t)' /\ HandInv(t)' /\ OpInv(t)' /\ InHand(t)' = InHand(t) \cup {x}
              /\ \A d : /\ ~HasTarget(r, d) /\ ~HasLeft(r, d) /\ ~HasRight(r, d)
                        /\ ~HasTarget(th[t], d) /\ ~HasLeft(th[t], d) /\ ~HasRight(th[t], d)
<1>1. Types /\ OpInv(t)
    BY Knows
<1>2. th[t].op = "insert" /\ th[t].spare = END
    BY <1>1 DEF OpInv, Evicting
<1>3. "tailClear" \in Labels
    BY DEF Labels
<1>4. PICK r \in ThreadState : /\ th' = [th EXCEPT ![t] = r] /\ r.pc = "tailClear" /\ r.x = x
                               /\ r.op = "insert" /\ r.spare = END
    BY <1>1, <1>2, <1>3, Resumed
<1>5. th'[t] = r
    BY <1>4, Knows
<1>6. LockInv(t)'
    BY <1>4, <1>5 DEF LockInv, HoldsTarget, HoldsLeft, HoldsRight, Between
<1>7. HandInv(t)'
    BY <1>4, <1>5 DEF HandInv, Popped
<1>8. OpInv(t)'
    BY <1>4, <1>5 DEF OpInv, Unlinking, Evicting
<1>9. InHand(t)' = InHand(t) \cup {x}
    BY <1>2, <1>4, <1>5, Marked DEF InHand
<1> QED
    BY <1>4, <1>6, <1>7, <1>8, <1>9
    DEF HasTarget, HasLeft, HasRight, HoldsTarget, HoldsLeft, HoldsRight

\* A list whose first element is its last has no other.
LEMMA Single ==
    ASSUME NEW s \in Seq(Elements), IsInjective(s), s # <<>>, FirstOf(s) = LastOf(s)
    PROVE  Range(s) = {FirstOf(s)} /\ \A a, b : ~Consec(s, a, b)
<1>1. PICK n \in Nat \ {0} : n = Len(s) /\ DOMAIN s = 1 .. n
    OBVIOUS
<1>2. 1 \in 1 .. n /\ n \in 1 .. n /\ s[1] = s[n] /\ FirstOf(s) = s[1]
    BY <1>1 DEF FirstOf, LastOf
<1>3. n = 1
    BY <1>1, <1>2 DEF IsInjective
<1> QED
    BY <1>1, <1>2, <1>3 DEF Range, Consec

\* The thread's list becomes s, without its last element x.
Shortened(t, x, s) ==
    /\ s \in Seq(Elements) /\ IsInjective(s) /\ Range(s) = Range(lists[t]) \ {x}
    /\ \A a, b : Consec(s, a, b) <=> Consec(lists[t], a, b) /\ b # x
    /\ head'[t] = FirstOf(s) /\ tail'[t] = LastOf(s)
    /\ \A u \in Threads : u # t => head'[u] = head[u] /\ tail'[u] = tail[u]
    /\ s # <<>> => FirstOf(s) = head[t] /\ Adj(LastOf(s), x)

\* Only the word of x's left neighbour changes.
CutOff(x) ==
    /\ links' \in [Elements -> Word]
    /\ \A e \in Elements : links'[e].left = links[e].left
    /\ \A e \in Elements : ~Adj(e, x) => links'[e] = links[e]
    /\ \A e \in Elements : Adj(e, x) => /\ links'[e].right = END
                                        /\ links[e].left # LOCK /\ links[e].right # LOCK

\* The last element leaves the list, alone or after its left neighbour has
\* been made the end.
LEMMA LeaveStep ==
    ASSUME ListInv, NEW t \in Threads, th[t].pc \in {"tail", "tailCut"},
           NEW x \in Elements, x = tail[t], lists[t] # <<>>, Resume(t, "tailClear", x),
           UNCHANGED <<freeListHead, ops, known, frees>>, NEW s, lists' = [lists EXCEPT ![t] = s],
           links[x].right = END,
           \/ /\ s = <<>> /\ links' = links /\ links[x].left = END
              /\ head' = [head EXCEPT ![t] = END] /\ tail' = [tail EXCEPT ![t] = END]
           \/ \E l \in Elements :
                 /\ s = Front(lists[t]) /\ links' = [links EXCEPT ![l].right = END]
                 /\ Adj(l, x) /\ links[l].left # LOCK /\ links[l].right # LOCK
                 /\ head' = head /\ tail' = [tail EXCEPT ![t] = l]
    PROVE  ListInv'
<1>1. /\ Types /\ PlaceInv /\ ChainInv /\ FreeInv /\ Exclusive /\ Accounted
      /\ OpInv(t) /\ links \in [Elements -> Word] /\ lists[t] \in Seq(Elements)
      /\ IsInjective(lists[t])
    BY Knows, MyTypes DEF PlaceInv
<1>2. x = LastOf(lists[t]) /\ head[t] = FirstOf(lists[t]) /\ x \in Range(lists[t])
    BY <1>1, EndsOf DEF ChainInv
\* The list without its last element.
<1>3. Shortened(t, x, s)
  <2>1. CASE /\ s = <<>> /\ links[x].left = END
             /\ head' = [head EXCEPT ![t] = END] /\ tail' = [tail EXCEPT ![t] = END]
    <3>1. x = FirstOf(lists[t])
      <4> SUFFICES ASSUME x # FirstOf(lists[t]) PROVE FALSE
          OBVIOUS
      <4>1. PICK a \in Elements : Consec(lists[t], a, x)
          BY <1>1, <1>2, HasNeighbours
      <4>2. Adj(a, x)
          BY <4>1 DEF Adj
      <4>3. links[x].left \in {a, LOCK}
          BY <4>2, <1>1 DEF ChainInv
      <4> QED
          BY <4>3, <2>1, Marked
    <3>2. Range(lists[t]) = {x} /\ \A a, b : ~Consec(lists[t], a, b)
        BY <3>1, <1>1, <1>2, Single
    <3>3. s \in Seq(Elements) /\ Range(s) = {} /\ FirstOf(s) = END /\ LastOf(s) = END
        BY <2>1 DEF FirstOf, LastOf, Range
    <3>4. IsInjective(s) /\ \A a, b : ~Consec(s, a, b)
        BY <2>1 DEF IsInjective, Consec
    <3>5. /\ head'[t] = END /\ tail'[t] = END
          /\ \A u \in Threads : u # t => head'[u] = head[u] /\ tail'[u] = tail[u]
        BY <2>1, <1>1 DEF Types
    <3> QED
        BY <3>2, <3>3, <3>4, <3>5, <2>1 DEF Shortened
  <2>2. ASSUME NEW l \in Elements, s = Front(lists[t]), Adj(l, x), head' = head,
               tail' = [tail EXCEPT ![t] = l]
        PROVE  Shortened(t, x, s)
    <3>1. PICK o \in Threads : Consec(lists[o], l, x)
        BY <2>2 DEF Adj
    <3>2. x \in Range(lists[o])
        BY <3>1, <1>1, MyTypes, Neighbours DEF PlaceInv
    <3>3. Consec(lists[t], l, LastOf(lists[t]))
        BY <3>1, <3>2, <1>1, <1>2, Apart
    <3>4. /\ s \in Seq(Elements) /\ IsInjective(s) /\ Range(s) = Range(lists[t]) \ {x} /\ s # <<>>
          /\ FirstOf(s) = FirstOf(lists[t]) /\ LastOf(s) = l
          /\ \A a, b : Consec(s, a, b) <=> Consec(lists[t], a, b) /\ b # x
        BY <3>3, <2>2, <1>1, <1>2, FrontOf
    <3>5. tail'[t] = l /\ \A u \in Threads : u # t => tail'[u] = tail[u]
        BY <2>2, <1>1 DEF Types
    <3> QED
        BY <3>4, <3>5, <2>2, <1>2 DEF Shortened
  <2> QED
      BY <2>1, <2>2
<1>4. /\ s \in Seq(Elements) /\ IsInjective(s) /\ Range(s) = Range(lists[t]) \ {x}
      /\ \A a, b : Consec(s, a, b) <=> Consec(lists[t], a, b) /\ b # x
      /\ head'[t] = FirstOf(s) /\ tail'[t] = LastOf(s)
      /\ \A u \in Threads : u # t => head'[u] = head[u] /\ tail'[u] = tail[u]
      /\ s # <<>> => FirstOf(s) = head[t] /\ Adj(LastOf(s), x)
    BY <1>3 DEF Shortened
<1>5. CutOff(x)
  <2>1. CASE s = <<>> /\ links' = links /\ head' = [head EXCEPT ![t] = END]
    <3>1. \A a : ~Adj(a, x)
      <4>1. Range(lists[t]) = {x}
          BY <2>1, <1>2, <1>4, EndsOf
      <4>2. head[t] = x
          BY <4>1, <1>1, <1>2, EndsOf
      <4> QED
          BY <4>2, <1>1, OneNeighbour
    <3> QED
        BY <3>1, <2>1, <1>1 DEF CutOff
  <2>2. ASSUME NEW l \in Elements, links' = [links EXCEPT ![l].right = END], Adj(l, x),
               links[l].left # LOCK, links[l].right # LOCK
        PROVE  CutOff(x)
    <3>1. \A e : Adj(e, x) => e = l
        BY <2>2, <1>1, OneNeighbour
    <3>2. PICK w : w = [links[l] EXCEPT !.right = END]
        OBVIOUS
    <3>3. w \in Word /\ w.left = links[l].left /\ w.right = END
        BY <3>2, <1>1 DEF Word, Marks
    <3>4. links' = [links EXCEPT ![l] = w]
        BY <3>2, <2>2, <1>1
    <3>5. /\ links' \in [Elements -> Word] /\ links'[l] = w
          /\ \A d \in Elements : d # l => links'[d] = links[d]
        BY <3>3, <3>4, <1>1
    <3> QED
        BY <3>1, <3>3, <3>5, <2>2 DEF CutOff
  <2> QED
      BY <2>1, <2>2
<1>6. /\ links' \in [Elements -> Word]
      /\ \A e \in Elements : links'[e].left = links[e].left
      /\ \A e \in Elements : ~Adj(e, x) => links'[e] = links[e]
      /\ \A e \in Elements : Adj(e, x) => /\ links'[e].right = END
                                          /\ links[e].left # LOCK /\ links[e].right # LOCK
    BY <1>5 DEF CutOff
<1>7. /\ lists'[t] = s /\ \A u \in Threads : u # t => lists'[u] = lists[u]
      /\ lists' \in [Threads -> Seq(Elements)]
    BY <1>1, <1>4 DEF Types
<1>8. \A a, b : Adj(a, b)' <=> Adj(a, b) /\ b # x
  <2>1. ASSUME NEW a, NEW b, Adj(a, b)' PROVE Adj(a, b) /\ b # x
    <3>1. PICK o \in Threads : Consec(lists'[o], a, b)
        BY <2>1 DEF Adj
    <3>2. CASE o = t
        BY <3>1, <3>2, <1>4, <1>7 DEF Adj
    <3>3. CASE o # t
      <4>1. Consec(lists[o], a, b)
          BY <3>1, <3>3, <1>7
      <4>2. b \in Range(lists[o])
          BY <4>1, <1>1, MyTypes, Neighbours DEF PlaceInv
      <4>3. b # x
          BY <4>2, <3>3, <1>1, <1>2, Apart
      <4> QED
          BY <4>1, <4>3 DEF Adj
    <3> QED
        BY <3>2, <3>3
  <2>2. ASSUME NEW a, NEW b, Adj(a, b), b # x PROVE Adj(a, b)'
    <3>1. PICK o \in Threads : Consec(lists[o], a, b)
        BY <2>2 DEF Adj
    <3>2. Consec(lists'[o], a, b)
        BY <3>1, <2>2, <1>4, <1>7
    <3> QED
        BY <3>2 DEF Adj
  <2> QED
      BY <2>1, <2>2
<1>9. ~Adj(x, x) /\ links'[x].right = END
    BY <1>1, <1>6, OneNeighbour
<1>10. PICK r \in ThreadState :
          /\ th' = [th EXCEPT ![t] = r]
          /\ LockInv(t)' /\ HandInv(t)' /\ OpInv(t)' /\ InHand(t)' = InHand(t) \cup {x}
          /\ \A d : /\ ~HasTarget(r, d) /\ ~HasLeft(r, d) /\ ~HasRight(r, d)
                    /\ ~HasTarget(th[t], d) /\ ~HasLeft(th[t], d) /\ ~HasRight(th[t], d)
    BY <1>9, TailOwn
<1>11. th'[t] = r /\ \A u \in Threads : u # t => th'[u] = th[u]
    BY <1>1, <1>10 DEF Types
<1>12. Types'
  <2>1. th' \in [Threads -> ThreadState]
      BY <1>1, <1>10 DEF Types
  <2>2. head \in [Threads -> Elements \cup {END}] /\ tail \in [Threads -> Elements \cup {END}]
      BY <1>1 DEF Types
  <2>3. head' \in [Threads -> Elements \cup {END}]
      BY <2>2
  <2>4. tail' \in [Threads -> Elements \cup {END}]
    <3>1. \E l \in Elements \cup {END} : tail' = [tail EXCEPT ![t] = l]
        OBVIOUS
    <3> QED
        BY <3>1, <2>2
  <2> QED
      BY <2>1, <2>3, <2>4, <1>1, <1>6, <1>7 DEF Types
<1>13. PlaceInv'
  <2>1. \A u \in Threads : u # t => InHand(u)' = InHand(u)
      BY <1>11 DEF InHand
  <2>2. "list" \in Kinds /\ "hand" \in Kinds
      BY DEF Kinds
  <2>3. /\ PlaceOf(t, "list")' = PlaceOf(t, "list") \ {x}
        /\ PlaceOf(t, "hand")' = PlaceOf(t, "hand") \cup {x}
        /\ x \in PlaceOf(t, "list")
      BY <1>2, <1>4, <1>7, <1>10 DEF PlaceOf
  <2>4. \A u \in Threads, n \in Kinds :
            (u # t \/ n # "list") /\ (u # t \/ n # "hand") => PlaceOf(u, n)' = PlaceOf(u, n)
      BY <2>1, <1>7 DEF PlaceOf, Kinds
  <2>5. \A u \in Threads : IsInjective(lists'[u]) /\ IsInjective(frees'[u])
      BY <1>1, <1>4, <1>7 DEF PlaceInv
  <2> QED
      BY <2>2, <2>3, <2>4, <2>5, <1>1, ElementMoves
<1>14. ChainInv'
  <2>1. ASSUME NEW a \in Elements, NEW b \in Elements, Adj(a, b)'
        PROVE  links'[a].right \in {b, LOCK} /\ links'[b].left \in {a, LOCK}
    <3>1. Adj(a, b) /\ b # x
        BY <2>1, <1>8
    <3>2. links[a].right \in {b, LOCK} /\ links[b].left \in {a, LOCK}
        BY <3>1, <1>1 DEF ChainInv
    <3>3. ~Adj(a, x)
        BY <3>1, <1>1, OneNeighbour
    <3> QED
        BY <3>2, <3>3, <1>6
  <2>2. ASSUME NEW o \in Threads
        PROVE  /\ head'[o] = FirstOf(lists'[o]) /\ tail'[o] = LastOf(lists'[o])
               /\ lists'[o] # <<>> => links'[head'[o]].left = END /\ links'[tail'[o]].right = END
    <3>1. CASE o = t
      <4>1. ASSUME s # <<>> PROVE links'[head'[t]].left = END /\ links'[tail'[t]].right = END
        <5>1. /\ head'[t] = head[t] /\ head[t] \in Elements /\ Adj(tail'[t], x)
              /\ tail'[t] \in Elements
            BY <4>1, <1>4, EndsOf
        <5>2. links[head[t]].left = END
            BY <1>1 DEF ChainInv
        <5> QED
            BY <5>1, <5>2, <1>6
      <4> QED
          BY <4>1, <3>1, <1>4, <1>7
    <3>2. CASE o # t
      <4>1. /\ lists'[o] = lists[o] /\ head'[o] = head[o] /\ tail'[o] = tail[o]
            /\ head[o] = FirstOf(lists[o]) /\ tail[o] = LastOf(lists[o])
          BY <3>2, <1>1, <1>4, <1>7 DEF ChainInv
      <4>2. ASSUME lists[o] # <<>> PROVE links'[head[o]].left = END /\ links'[tail[o]].right = END
        <5>1. head[o] \in Elements /\ tail[o] \in Elements
            BY <4>1, <4>2, <1>1, EndsOf, MyTypes
        <5>2. links[head[o]].left = END /\ links[tail[o]].right = END
            BY <4>2, <1>1 DEF ChainInv
        <5>3. ~Adj(tail[o], x)
            BY <1>1, OneNeighbour
        <5> QED
            BY <5>1, <5>2, <5>3, <1>6
      <4> QED
          BY <4>1, <4>2
    <3> QED
        BY <3>1, <3>2
  <2> QED
      BY <2>1, <2>2 DEF ChainInv
<1>15. FreeInv'
  <2>1. ASSUME NEW o \in Threads, NEW e \in Range(frees[o]) PROVE links'[e] = links[e]
    <3>1. e \in Elements /\ ~Adj(e, x)
        BY <2>1, <1>1, OneNeighbour, EndsOf, MyTypes
    <3> QED
        BY <3>1, <1>6
  <2>2. frees' = frees /\ freeListHead' = freeListHead /\ FreeInv
      BY <1>1
  <2> QED
      BY <2>1, <2>2 DEF FreeInv
<1>16. Exclusive' /\ Accounted'
  <2>1. \A e \in Elements : links'[e].left = LOCK => links[e].left = LOCK
      BY <1>6
  <2>2. \A e \in Elements : links'[e].right = LOCK => links[e].right = LOCK
      BY <1>6, Marked
  <2>3. ASSUME NEW e \in Elements
        PROVE  /\ ~HasTarget(r, e) /\ ~HasLeft(r, e) /\ ~HasRight(r, e)
               /\ ~HasTarget(th[t], e) /\ ~HasLeft(th[t], e) /\ ~HasRight(th[t], e)
      BY <1>10
  <2>4. Types /\ Exclusive /\ Accounted /\ th' = [th EXCEPT ![t] = r]
      BY <1>1, <1>10
  <2> QED
      BY <2>1, <2>2, <2>3, <2>4, ClaimsAfter
<1>17. ASSUME NEW u \in Threads, u # t PROVE Undisturbed(u)
  <2>1. ~Mine(u, x)
      BY <1>2, <1>17, ListApart, Marked
  <2>2. ASSUME NEW e \in Elements, Adj(e, x) PROVE ~Mine(u, e)
    <3>1. PICK o \in Threads : e \in Range(lists[o]) /\ x \in Range(lists[o])
        BY <2>2, <1>1, OneNeighbour
    <3>2. e \in Range(lists[t])
        BY <3>1, <1>1, <1>2, Apart
    <3> QED
        BY <3>2, <2>2, <1>6, <1>17, ListApart
  <2>3. \A e \in Elements : Mine(u, e) => links'[e] = links[e]
      BY <2>2, <1>6
  <2>4. ASSUME NEW a, NEW b, Needs(u, a, b), Adj(a, b) PROVE Adj(a, b)'
    <3>1. Mine(u, a) \/ Mine(u, b)
        BY <2>4, NeedsMine
    <3>2. a \in Elements
        BY <2>4, <1>1, OneNeighbour
    <3>3. b # x
        BY <3>1, <3>2, <2>1, <2>2, <2>4
    <3> QED
        BY <3>3, <2>4, <1>8
  <2>5. /\ th'[u] = th[u] /\ head'[u] = head[u] /\ tail'[u] = tail[u]
        /\ freeListHead'[u] = freeListHead[u] /\ frees'[u] = frees[u]
        /\ lists'[u] = lists[u]
      BY <1>4, <1>7, <1>11, <1>17
  <2> QED
      BY <2>3, <2>4, <2>5 DEF Undisturbed
<1> QED
    BY <1>10, <1>12, <1>13, <1>14, <1>15, <1>16, <1>17, Assemble

LEMMA TailLoadStep ==
    ASSUME ListInv, NEW t \in Threads, TailLoad(t)
    PROVE  ListInv'
<1>1. /\ th[t].pc = "tail" /\ UNCHANGED <<links, freeListHead, ops, known, frees>>
      /\ links[tail[t]].left # LOCK /\ links[tail[t]].right = END
    BY DEF TailLoad, At
<1>2. /\ Types /\ ChainInv /\ OpInv(t) /\ HandInv(t) /\ th[t] \in ThreadState
      /\ links \in [Elements -> Word]
    BY Knows
<1>3. lists[t] # <<>> /\ th[t].op = "insert" /\ th[t].spare = END
    BY <1>1, <1>2 DEF HandInv, OpInv, Evicting
<1>4. PICK x \in Elements : x = tail[t]
    BY <1>2, <1>3, EndsOf, MyTypes DEF ChainInv
<1>5. CASE links[x].left = END
  <2>1. /\ head' = [head EXCEPT ![t] = END] /\ tail' = [tail EXCEPT ![t] = END]
        /\ lists' = [lists EXCEPT ![t] = <<>>] /\ Resume(t, "tailClear", x)
      BY <1>4, <1>5 DEF TailLoad
  <2> QED
      BY <2>1, <1>1, <1>3, <1>4, <1>5, LeaveStep
<1>6. CASE links[x].left # END
  <2>1. Still
      BY <1>1, <1>4, <1>6 DEF TailLoad, Still
  <2>2. PICK w \in Word : w = links[x] /\ w.left \in Elements
    <3>1. links[x] \in Word /\ links[x].left \notin Marks
        BY <1>1, <1>2, <1>4, <1>6 DEF Marks
    <3> QED
        BY <3>1, WordForm
  <2>3. PICK r : r = [th[t] EXCEPT !.pc = "tailCheck", !.x = x, !.tgt = w]
      OBVIOUS
  <2>4. /\ r \in ThreadState /\ r.pc = "tailCheck" /\ r.op = "insert" /\ r.x = x /\ r.spare = END
        /\ r.tgt = w
      BY <2>3, <1>2, <1>3 DEF ThreadState, Labels
  <2>5. th' = [th EXCEPT ![t] = r] /\ th'[t] = r
      BY <2>2, <2>3, <1>4, <1>6, Knows DEF TailLoad
  <2>6. \A d : /\ ~HasTarget(r, d) /\ ~HasLeft(r, d) /\ ~HasRight(r, d)
               /\ ~HasTarget(th[t], d) /\ ~HasLeft(th[t], d) /\ ~HasRight(th[t], d)
      BY <2>4, <1>1 DEF HasTarget, HasLeft, HasRight, HoldsTarget, HoldsLeft, HoldsRight
  <2>7. LockInv(t)'
      BY <2>4, <2>5 DEF LockInv, HoldsTarget, HoldsLeft, HoldsRight, Between
  <2>8. HandInv(t)'
      BY <2>1, <2>2, <2>4, <2>5, <1>3, <1>4 DEF HandInv, Still
  <2>9. OpInv(t)'
      BY <2>4, <2>5 DEF OpInv, Unlinking, Evicting
  <2>10. InHand(t)' = InHand(t)
      BY <2>4, <2>5, <1>1, <1>3 DEF InHand
  <2>11. ops' \in [Threads -> 0 .. MaxOps] /\ known' \subseteq Elements
      BY <1>1, Knows
  <2> QED
      BY <2>1, <2>4, <2>5, <2>6, <2>7, <2>8, <2>9, <2>10, <2>11, <1>1, QuietStep
<1> QED
    BY <1>5, <1>6

LEMMA TailCheckStep ==
    ASSUME ListInv, NEW t \in Threads, TailCheck(t)
    PROVE  ListInv'
<1>1. th[t].pc = "tailCheck" /\ Still /\ UNCHANGED <<links, ops, known>>
    BY DEF TailCheck, At, Still, heads, history
<1>2. Types /\ OpInv(t) /\ HandInv(t) /\ th[t] \in ThreadState
    BY Knows
<1>3. /\ lists[t] # <<>> /\ th[t].op = "insert" /\ th[t].spare = END /\ th[t].x \in Elements
      /\ th[t].x = tail[t] /\ th[t].tgt.left \in Elements
    BY <1>1, <1>2 DEF HandInv, OpInv, Evicting
<1>4. PICK r \in ThreadState :
          /\ th' = [th EXCEPT ![t] = r] /\ r.op = "insert" /\ r.spare = END
          /\ \/ r.pc = "tail"
             \/ r.pc = "tailCut" /\ r.x = th[t].x /\ r.tgt = th[t].tgt
  <2>1. CASE LeftOfTailFree(t)
    <3>1. PICK r : r = [th[t] EXCEPT !.pc = "tailCut"]
        OBVIOUS
    <3>2. /\ r \in ThreadState /\ r.pc = "tailCut" /\ r.op = "insert" /\ r.spare = END
          /\ r.x = th[t].x /\ r.tgt = th[t].tgt
        BY <3>1, <1>2, <1>3 DEF ThreadState, Labels
    <3>3. th' = [th EXCEPT ![t] = r]
        BY <3>1, <2>1 DEF TailCheck, Goto
    <3> QED
        BY <3>2, <3>3
  <2>2. CASE ~LeftOfTailFree(t)
    <3>1. Resume(t, "tail", END) /\ "tail" \in Labels
        BY <2>2 DEF TailCheck, Labels
    <3> QED
        BY <3>1, <1>2, <1>3, Resumed
  <2> QED
      BY <2>1, <2>2
<1>5. th'[t] = r
    BY <1>4, Knows
<1>6. \A d : /\ ~HasTarget(r, d) /\ ~HasLeft(r, d) /\ ~HasRight(r, d)
             /\ ~HasTarget(th[t], d) /\ ~HasLeft(th[t], d) /\ ~HasRight(th[t], d)
    BY <1>1, <1>4 DEF HasTarget, HasLeft, HasRight, HoldsTarget, HoldsLeft, HoldsRight
<1>7. LockInv(t)'
    BY <1>4, <1>5 DEF LockInv, HoldsTarget, HoldsLeft, HoldsRight, Between
<1>8. HandInv(t)'
    BY <1>1, <1>3, <1>4, <1>5 DEF HandInv, Still
<1>9. OpInv(t)'
    BY <1>3, <1>4, <1>5 DEF OpInv, Unlinking, Evicting
<1>10. InHand(t)' = InHand(t)
    BY <1>1, <1>3, <1>4, <1>5 DEF InHand
<1>11. ops' \in [Threads -> 0 .. MaxOps] /\ known' \subseteq Elements
    BY <1>1, Knows
<1> QED
    BY <1>1, <1>4, <1>6, <1>7, <1>8, <1>9, <1>10, <1>11, QuietStep

\* The left neighbour, which still points at the tail, becomes the end.
LEMMA TailCutStep ==
    ASSUME ListInv, NEW t \in Threads, TailCut(t)
    PROVE  ListInv'
<1>1. /\ th[t].pc = "tailCut" /\ LeftOfTailFree(t)
      /\ UNCHANGED <<head, freeListHead, ops, known, frees>>
    BY DEF TailCut, At
<1>2. ChainInv /\ OpInv(t) /\ HandInv(t)
    BY Knows
<1>3. PICK x \in Elements, l \in Elements : x = th[t].x /\ l = th[t].tgt.left /\ x = tail[t]
    BY <1>1, <1>2 DEF HandInv, OpInv
<1>4. lists[t] # <<>> /\ th[t].spare = END
    BY <1>1, <1>2 DEF HandInv, OpInv, Evicting
<1>5. InHand(t) = {}
    BY <1>1, <1>4 DEF InHand
<1>6. links[l].left # LOCK /\ links[l].right = x /\ links[l].right # LOCK
    BY <1>1, <1>3, Marked DEF LeftOfTailFree
<1>7. Adj(l, x)
    BY <1>3, <1>4, <1>5, <1>6, TailNeighbour
<1>8. links[x].right = END
    BY <1>2, <1>3, <1>4 DEF ChainInv
<1>9. /\ links' = [links EXCEPT ![l].right = END] /\ tail' = [tail EXCEPT ![t] = l]
      /\ lists' = [lists EXCEPT ![t] = Front(lists[t])] /\ Resume(t, "tailClear", x)
    BY <1>3 DEF TailCut
<1> QED
    BY <1>1, <1>3, <1>4, <1>6, <1>7, <1>8, <1>9, LeaveStep

\* The evicted element's word is reset.
LEMMA TailClearStep ==
    ASSUME ListInv, NEW t \in Threads, TailClear(t)
    PROVE  ListInv'
<1>1. th[t].pc = "tailClear" /\ Still /\ UNCHANGED <<ops, known>>
    BY DEF TailClear, At, Still, heads, history
<1>2. /\ Types /\ OpInv(t) /\ th[t] \in ThreadState /\ links \in [Elements -> Word]
    BY Knows
<1>3. PICK x \in Elements : x = th[t].x /\ th[t].op = "insert" /\ th[t].spare = END
    BY <1>1, <1>2 DEF OpInv, Evicting
<1>4. x \in InHand(t)
    BY <1>1, <1>2, <1>3, InHands
<1>5. PICK w \in Word : w = Ends /\ w.left = END /\ w.right = END
    BY WordForm, LinksForm DEF Ends
<1>6. links' = [links EXCEPT ![x] = w]
    BY <1>3, <1>5 DEF TailClear
<1>7. links'[x] = w
    BY <1>2, <1>6
<1>8. Agrees(x, w) /\ \A u \in Threads : u # t => ~Mine(u, x)
    BY <1>4, HandAgrees, HandApart
<1>9. PICK r : r = [th[t] EXCEPT !.pc = "push"]
    OBVIOUS
<1>10. r \in ThreadState /\ r.pc = "push" /\ r.op = "insert" /\ r.x = x /\ r.spare = END
    BY <1>2, <1>3, <1>9 DEF ThreadState, Labels
<1>11. th' = [th EXCEPT ![t] = r] /\ th'[t] = r
    BY <1>9, Knows DEF TailClear, Goto
<1>12. \A d : /\ ~HasTarget(r, d) /\ ~HasLeft(r, d) /\ ~HasRight(r, d)
              /\ ~HasTarget(th[t], d) /\ ~HasLeft(th[t], d) /\ ~HasRight(th[t], d)
    BY <1>1, <1>10 DEF HasTarget, HasLeft, HasRight, HoldsTarget, HoldsLeft, HoldsRight
<1>13. LockInv(t)'
    BY <1>10, <1>11 DEF LockInv, HoldsTarget, HoldsLeft, HoldsRight, Between
<1>14. HandInv(t)'
    BY <1>5, <1>7, <1>10, <1>11 DEF HandInv, Popped
<1>15. OpInv(t)'
    BY <1>10, <1>11 DEF OpInv, Unlinking, Evicting
<1>16. InHand(t)' = InHand(t)
    BY <1>1, <1>3, <1>10, <1>11 DEF InHand
<1> QED
    BY <1>1, <1>5, <1>6, <1>8, <1>10, <1>11, <1>12, <1>13, <1>14, <1>15, <1>16, WordStep, Marked

\* The last element goes to the front of the free list.
LEMMA PutBackStep ==
    ASSUME ListInv, NEW t \in Threads, PutBack(t)
    PROVE  ListInv'
<1>1. /\ th[t].pc = "push" /\ th' = [th EXCEPT ![t] = Idle]
      /\ UNCHANGED <<head, tail, ops, known, lists>>
    BY DEF PutBack, At, Return
<1>2. /\ Types /\ PlaceInv /\ ChainInv /\ FreeInv /\ Exclusive /\ Accounted /\ OpInv(t)
      /\ links \in [Elements -> Word] /\ frees[t] \in Seq(Elements) /\ IsInjective(frees[t])
    BY Knows, MyTypes DEF PlaceInv
<1>3. PICK x \in Elements : x = th[t].x
    BY <1>1, <1>2 DEF OpInv
<1>4. x \in InHand(t) /\ InHand(t) = {x}
  <2>1. th[t].spare \in {END, x}
      BY <1>1, <1>2, <1>3 DEF OpInv
  <2> QED
      BY <2>1, <1>1, <1>3, Marked DEF InHand
<1>5. PICK f : f = freeListHead[t] /\ f = FirstOf(frees[t])
    BY <1>2 DEF FreeInv
<1>6. f \in Elements \cup {END}
    BY <1>2, <1>5, MyTypes
<1>7. PICK w \in Word : w = Links(END, f) /\ w.left = END /\ w.right = f
    BY <1>6, WordForm, LinksForm
<1>8. /\ links' = [links EXCEPT ![x] = w]
      /\ freeListHead' = [freeListHead EXCEPT ![t] = x]
      /\ frees' = [frees EXCEPT ![t] = <<x>> \o frees[t]]
    BY <1>3, <1>5, <1>7 DEF PutBack, PushFree
<1>9. /\ links' \in [Elements -> Word] /\ links'[x] = w
      /\ \A d \in Elements : d # x => links'[d] = links[d]
    BY <1>2, <1>8
<1>10. /\ \A a : ~Adj(a, x) /\ ~Adj(x, a)
       /\ \A o \in Threads : x \notin Range(lists[o]) /\ x \notin Range(frees[o])
       /\ \A o \in Threads : lists[o] # <<>> => x # head[o] /\ x # tail[o]
    BY <1>4, HandAgrees
<1>11. PICK s : s = <<x>> \o frees[t]
    OBVIOUS
<1>12. /\ s \in Seq(Elements) /\ IsInjective(s) /\ Range(s) = Range(frees[t]) \cup {x}
       /\ s # <<>> /\ FirstOf(s) = x
       /\ LastOf(s) = IF frees[t] = <<>> THEN x ELSE LastOf(frees[t])
       /\ \A a, b : Consec(s, a, b) <=> \/ Consec(frees[t], a, b)
                                        \/ frees[t] # <<>> /\ a = x /\ b = FirstOf(frees[t])
    BY <1>2, <1>10, <1>11, Prepended
<1>13. /\ frees'[t] = s /\ \A u \in Threads : u # t => frees'[u] = frees[u]
       /\ frees' \in [Threads -> Seq(Elements)]
    BY <1>2, <1>8, <1>11, <1>12 DEF Types
<1>14. /\ freeListHead'[t] = x /\ freeListHead' \in [Threads -> Elements \cup {END}]
       /\ \A u \in Threads : u # t => freeListHead'[u] = freeListHead[u]
    BY <1>2, <1>8 DEF Types
<1>15. th'[t] = Idle /\ \A u \in Threads : u # t => th'[u] = th[u]
    BY <1>1, <1>2 DEF Types
<1>16. Types'
  <2>1. th' \in [Threads -> ThreadState]
      BY <1>1, <1>2, IdleState DEF Types
  <2> QED
      BY <2>1, <1>1, <1>2, <1>9, <1>13, <1>14 DEF Types
<1>17. PlaceInv'
  <2>1. InHand(t)' = InHand(t) \ {x}
      BY <1>4, <1>15, IdleState DEF InHand
  <2>2. \A u \in Threads : u # t => InHand(u)' = InHand(u)
      BY <1>15 DEF InHand
  <2>3. "free" \in Kinds /\ "hand" \in Kinds
      BY DEF Kinds
  <2>4. /\ PlaceOf(t, "hand")' = PlaceOf(t, "hand") \ {x}
        /\ PlaceOf(t, "free")' = PlaceOf(t, "free") \cup {x}
        /\ x \in PlaceOf(t, "hand")
      BY <2>1, <1>4, <1>12, <1>13 DEF PlaceOf
  <2>5. \A u \in Threads, n \in Kinds :
            (u # t \/ n # "hand") /\ (u # t \/ n # "free") => PlaceOf(u, n)' = PlaceOf(u, n)
      BY <2>2, <1>1, <1>13 DEF PlaceOf, Kinds
  <2>6. \A u \in Threads : IsInjective(lists'[u]) /\ IsInjective(frees'[u])
      BY <1>1, <1>2, <1>12, <1>13 DEF PlaceInv
  <2> QED
      BY <2>3, <2>4, <2>5, <2>6, <1>2, ElementMoves
<1>18. \A a, b : Adj(a, b)' <=> Adj(a, b)
    BY <1>1 DEF Adj
<1>19. ChainInv'
  <2>1. ASSUME NEW a \in Elements, NEW b \in Elements, Adj(a, b)
        PROVE  links'[a].right \in {b, LOCK} /\ links'[b].left \in {a, LOCK}
    <3>1. a # x /\ b # x
        BY <2>1, <1>10
    <3> QED
        BY <3>1, <2>1, <1>2, <1>9 DEF ChainInv
  <2>2. ASSUME NEW o \in Threads, lists[o] # <<>>
        PROVE  links'[head[o]].left = END /\ links'[tail[o]].right = END
    <3>1. head[o] \in Elements /\ tail[o] \in Elements /\ head[o] # x /\ tail[o] # x
        BY <2>2, <1>2, <1>10, EndsOf, MyTypes DEF ChainInv
    <3> QED
        BY <3>1, <2>2, <1>2, <1>9 DEF ChainInv
  <2>3. \A o \in Threads : head[o] = FirstOf(lists[o]) /\ tail[o] = LastOf(lists[o])
      BY <1>2 DEF ChainInv
  <2> QED
      BY <2>1, <2>2, <2>3, <1>1, <1>18 DEF ChainInv
<1>20. FreeInv'
  <2>1. ASSUME NEW o \in Threads, NEW e \in Range(frees[o])
        PROVE  /\ links'[e] = links[e] /\ e # x /\ links[e].left = END
               /\ e = LastOf(frees[o]) => links[e].right = END
               /\ \A b \in Elements : Consec(frees[o], e, b) => links[e].right = b
    <3>1. e \in Elements /\ e # x
        BY <2>1, <1>2, <1>10, EndsOf, MyTypes
    <3> QED
        BY <3>1, <2>1, <1>2, <1>9 DEF FreeInv
  <2> SUFFICES ASSUME NEW o \in Threads
               PROVE  /\ freeListHead'[o] = FirstOf(frees'[o])
                      /\ \A e \in Range(frees'[o]) :
                            /\ links'[e].left = END
                            /\ e = LastOf(frees'[o]) => links'[e].right = END
                            /\ \A b \in Elements : Consec(frees'[o], e, b) => links'[e].right = b
      BY DEF FreeInv
  <2>2. CASE o # t
    <3>1. frees'[o] = frees[o] /\ freeListHead'[o] = FirstOf(frees[o])
        BY <2>2, <1>2, <1>13, <1>14 DEF FreeInv
    <3> QED
        BY <3>1, <2>1
  <2>3. CASE o = t
    <3>1. ASSUME NEW e \in Range(s)
          PROVE  /\ links'[e].left = END
                 /\ e = LastOf(s) => links'[e].right = END
                 /\ \A b \in Elements : Consec(s, e, b) => links'[e].right = b
      <4>1. CASE e = x
        <5>1. ~(\E b : Consec(frees[t], x, b))
            BY <1>2, <1>10, Neighbours
        <5>2. ASSUME x = LastOf(s) PROVE f = END
          <6>1. frees[t] = <<>>
              BY <5>2, <1>2, <1>10, <1>12, EndsOf
          <6> QED
              BY <6>1, <1>5 DEF FirstOf
        <5> QED
            BY <5>1, <5>2, <4>1, <1>5, <1>7, <1>9, <1>12
      <4>2. CASE e # x
        <5>1. e \in Range(frees[t]) /\ frees[t] # <<>>
            BY <3>1, <4>2, <1>2, <1>12, EndsOf
        <5>2. e = LastOf(s) => e = LastOf(frees[t])
            BY <5>1, <1>12
        <5>3. \A b : Consec(s, e, b) => Consec(frees[t], e, b)
            BY <4>2, <1>12
        <5> QED
            BY <5>1, <5>2, <5>3, <2>1
      <4> QED
          BY <4>1, <4>2
    <3> QED
        BY <3>1, <2>3, <1>12, <1>13, <1>14
  <2> QED
      BY <2>2, <2>3
<1>21. \A d : /\ ~HasTarget(Idle, d) /\ ~HasLeft(Idle, d) /\ ~HasRight(Idle, d)
              /\ ~HasTarget(th[t], d) /\ ~HasLeft(th[t], d) /\ ~HasRight(th[t], d)
    BY <1>1, IdleState DEF HasTarget, HasLeft, HasRight, HoldsTarget, HoldsLeft, HoldsRight
<1>22. Exclusive' /\ Accounted'
  <2>1. \A e \in Elements : links'[e].left = LOCK => links[e].left = LOCK
      BY <1>7, <1>9, Marked
  <2>2. \A e \in Elements : links'[e].right = LOCK => links[e].right = LOCK
      BY <1>6, <1>7, <1>9, Marked
  <2> QED
      BY <2>1, <2>2, <1>1, <1>2, <1>21, ClaimsAfter
<1>23. ASSUME NEW u \in Threads, u # t PROVE Undisturbed(u)
  <2>1. ~Mine(u, x)
      BY <1>4, <1>23, HandApart
  <2>2. \A e \in Elements : Mine(u, e) => links'[e] = links[e]
      BY <2>1, <1>9
  <2> QED
      BY <2>2, <1>1, <1>13, <1>14, <1>15, <1>18, <1>23 DEF Undisturbed
<1>24. Idle.pc = "idle" /\ Idle.op = "none" /\ Idle.spare = END /\ Idle.x = END
    BY IdleState
<1>25. LockInv(t)' /\ HandInv(t)'
    BY <1>15, <1>24 DEF LockInv, HandInv, HoldsTarget, HoldsLeft, HoldsRight, Between
<1>26. OpInv(t)'
    BY <1>12, <1>13, <1>15, <1>24 DEF OpInv, Unlinking, Evicting
<1> QED
    BY <1>1, <1>16, <1>17, <1>19, <1>20, <1>22, <1>23, <1>25, <1>26, IdleState, Assemble

-----------------------------------------------------------------------------
(* The initial lists *)

\* The word of an element of a list, by its neighbours.
LEMMA ChainWord ==
    ASSUME NEW s \in Seq(Elements), IsInjective(s), NEW x \in Range(s)
    PROVE  /\ ChainLinks(s, x) \in Word
           /\ ChainLinks(s, x).left # LOCK /\ ChainLinks(s, x).right # LOCK
           /\ x = FirstOf(s) => ChainLinks(s, x).left = END
           /\ x = LastOf(s) => ChainLinks(s, x).right = END
           /\ \A a : Consec(s, a, x) => ChainLinks(s, x).left = a
           /\ \A b : Consec(s, x, b) => ChainLinks(s, x).right = b
<1>1. PICK n \in Nat : n = Len(s) /\ DOMAIN s = 1 .. n /\ \A k \in 1 .. n : s[k] \in Elements
    OBVIOUS
<1>2. \A j, k \in 1 .. n : s[j] = s[k] => j = k
    BY <1>1 DEF IsInjective
<1>3. PICK i \in 1 .. n : s[i] = x
    BY <1>1 DEF Range
<1>4. i = CHOOSE j \in DOMAIN s : s[j] = x
    BY <1>1, <1>2, <1>3
<1>5. PICK a0, b0 : /\ a0 = IF i = 1 THEN END ELSE s[i - 1]
                    /\ b0 = IF i = n THEN END ELSE s[i + 1]
    OBVIOUS
<1>6. ChainLinks(s, x) = Links(a0, b0)
    BY <1>1, <1>4, <1>5 DEF ChainLinks
<1>7. a0 \in Elements \cup {END} /\ b0 \in Elements \cup {END}
  <2>1. i # 1 => i - 1 \in 1 .. n
      OBVIOUS
  <2>2. i # n => i + 1 \in 1 .. n
      OBVIOUS
  <2> QED
      BY <2>1, <2>2, <1>1, <1>5
<1>8. /\ ChainLinks(s, x) \in Word /\ ChainLinks(s, x).left = a0 /\ ChainLinks(s, x).right = b0
  <2>1. a0 \in Elements \cup Marks /\ b0 \in Elements \cup Marks
      BY <1>7 DEF Marks
  <2>2. Links(a0, b0) \in Word /\ Links(a0, b0).left = a0 /\ Links(a0, b0).right = b0
      BY ONLY <2>1, WordForm
  <2> QED
      BY <2>2, <1>6
<1>9. n # 0 /\ 1 \in 1 .. n /\ n \in 1 .. n /\ FirstOf(s) = s[1] /\ LastOf(s) = s[n]
    BY <1>1, <1>3 DEF FirstOf, LastOf
<1>10. (x = FirstOf(s) => a0 = END) /\ (x = LastOf(s) => b0 = END)
    BY <1>2, <1>3, <1>5, <1>9
<1>11. ASSUME NEW a, Consec(s, a, x) PROVE a0 = a
  <2>1. PICK j \in 1 .. n - 1 : s[j] = a /\ s[j + 1] = x
      BY <1>1, <1>11 DEF Consec
  <2>2. j + 1 \in 1 .. n
      OBVIOUS
  <2>3. j + 1 = i
      BY <2>1, <2>2, <1>2, <1>3
  <2>4. i # 1 /\ i - 1 = j
      BY <2>3
  <2> QED
      BY <2>1, <2>4, <1>5
<1>12. ASSUME NEW b, Consec(s, x, b) PROVE b0 = b
  <2>1. PICK j \in 1 .. n - 1 : s[j] = x /\ s[j + 1] = b
      BY <1>1, <1>12 DEF Consec
  <2>2. j = i
      BY <2>1, <1>2, <1>3
  <2>3. i # n
      BY <2>2
  <2> QED
      BY <2>1, <2>2, <2>3, <1>5
<1> QED
    BY <1>7, <1>8, <1>10, <1>11, <1>12, Marked

\* The words of the initial lists.
LEMMA InitWords ==
    ASSUME Init
    PROVE  /\ \A t \in Threads : \A e \in Range(InitLists[t]) :
                 links[e] = ChainLinks(InitLists[t], e)
           /\ \A t \in Threads : \A e \in Range(InitFree[t]) :
                 links[e] = Links(END, ChainLinks(InitFree[t], e).right)
<1>1. /\ InitLists \in [Threads -> Seq(Elements)] /\ InitFree \in [Threads -> Seq(Elements)]
      /\ \A t, u \in Threads :
            /\ Range(InitLists[t]) \cap Range(InitFree[u]) = {}
            /\ t # u => /\ Range(InitLists[t]) \cap Range(InitLists[u]) = {}
                        /\ Range(InitFree[t]) \cap Range(InitFree[u]) = {}
    BY InitAssumption
<1>2. \A t \in Threads : /\ Range(InitLists[t]) \subseteq Elements
                         /\ Range(InitFree[t]) \subseteq Elements
    BY <1>1, EndsOf
<1>3. ASSUME NEW t \in Threads, NEW e \in Range(InitLists[t])
      PROVE  links[e] = ChainLinks(InitLists[t], e)
  <2>1. t = CHOOSE u \in Threads : e \in Range(InitLists[u])
      BY <1>1, <1>3
  <2>2. e \in Elements /\ \E u \in Threads : e \in Range(InitLists[u])
      BY <1>2, <1>3
  <2>3. links[e] = ChainLinks(InitLists[CHOOSE u \in Threads : e \in Range(InitLists[u])], e)
      BY <2>2 DEF Init
  <2> QED
      BY <2>1, <2>3
<1>4. ASSUME NEW t \in Threads, NEW e \in Range(InitFree[t])
      PROVE  links[e] = Links(END, ChainLinks(InitFree[t], e).right)
  <2>1. t = CHOOSE u \in Threads : e \in Range(InitFree[u])
      BY <1>1, <1>4
  <2>2. e \in Elements /\ ~\E u \in Threads : e \in Range(InitLists[u])
      BY <1>1, <1>2, <1>4
  <2>3. links[e] = Links(END, ChainLinks(InitFree[CHOOSE u \in Threads :
                                                     e \in Range(InitFree[u])], e).right)
      BY <2>2 DEF Init
  <2> QED
      BY <2>1, <2>3
<1> QED
    BY <1>3, <1>4

LEMMA InitInv == Init => ListInv
<1> SUFFICES ASSUME Init PROVE ListInv
    OBVIOUS
<1>1. /\ InitLists \in [Threads -> Seq(Elements)] /\ InitFree \in [Threads -> Seq(Elements)]
      /\ MaxOps \in Nat
      /\ \A t \in Threads : /\ InitFree[t] # <<>>
                            /\ IsInjective(InitLists[t]) /\ IsInjective(InitFree[t])
      /\ \A e \in Elements : \E t \in Threads : e \in Range(InitLists[t]) \cup Range(InitFree[t])
      /\ \A t, u \in Threads :
            /\ Range(InitLists[t]) \cap Range(InitFree[u]) = {}
            /\ t # u => /\ Range(InitLists[t]) \cap Range(InitLists[u]) = {}
                        /\ Range(InitFree[t]) \cap Range(InitFree[u]) = {}
    BY InitAssumption
<1>2. /\ lists = InitLists /\ frees = InitFree /\ th = [t \in Threads |-> Idle]
      /\ head = [t \in Threads |-> FirstOf(InitLists[t])]
      /\ tail = [t \in Threads |-> LastOf(InitLists[t])]
      /\ freeListHead = [t \in Threads |-> FirstOf(InitFree[t])]
      /\ ops = [t \in Threads |-> 0] /\ known = UNION {Range(InitLists[t]) : t \in Threads}
    BY DEF Init
<1>3. ASSUME NEW t \in Threads, NEW e \in Range(lists[t])
      PROVE  /\ links[e] \in Word /\ links[e].left # LOCK /\ links[e].right # LOCK
             /\ e = FirstOf(lists[t]) => links[e].left = END
             /\ e = LastOf(lists[t]) => links[e].right = END
             /\ \A a : Consec(lists[t], a, e) => links[e].left = a
             /\ \A b : Consec(lists[t], e, b) => links[e].right = b
  <2>1. lists[t] \in Seq(Elements) /\ IsInjective(lists[t]) /\ links[e] = ChainLinks(lists[t], e)
      BY <1>1, <1>2, <1>3, InitWords
  <2> QED
      BY <2>1, <1>3, ChainWord
<1>4. ASSUME NEW t \in Threads, NEW e \in Range(frees[t])
      PROVE  /\ links[e] \in Word /\ links[e].left = END /\ links[e].right # LOCK
             /\ e = LastOf(frees[t]) => links[e].right = END
             /\ \A b : Consec(frees[t], e, b) => links[e].right = b
  <2>1. /\ frees[t] \in Seq(Elements) /\ IsInjective(frees[t])
        /\ links[e] = Links(END, ChainLinks(frees[t], e).right)
      BY <1>1, <1>2, <1>4, InitWords
  <2>2. /\ ChainLinks(frees[t], e) \in Word /\ ChainLinks(frees[t], e).right # LOCK
        /\ e = LastOf(frees[t]) => ChainLinks(frees[t], e).right = END
        /\ \A b : Consec(frees[t], e, b) => ChainLinks(frees[t], e).right = b
      BY <2>1, <1>4, ChainWord
  <2>3. PICK c : c = ChainLinks(frees[t], e).right /\ c \in Elements \cup Marks
      BY <2>2, WordForm
  <2>4. Links(END, c) \in Word /\ Links(END, c).left = END /\ Links(END, c).right = c
      BY <2>3, WordForm, LinksForm
  <2> QED
      BY <2>1, <2>2, <2>3, <2>4
<1>5. \A t \in Threads : /\ Range(lists[t]) \subseteq Elements /\ lists[t] \in Seq(Elements)
                         /\ Range(frees[t]) \subseteq Elements /\ frees[t] \in Seq(Elements)
                         /\ IsInjective(lists[t]) /\ IsInjective(frees[t]) /\ frees[t] # <<>>
                         /\ th[t] = Idle
    BY <1>1, <1>2, EndsOf
<1>6. \A e \in Elements : \E t \in Threads : e \in Range(lists[t]) \/ e \in Range(frees[t])
    BY <1>1, <1>2
<1>7. \A e \in Elements : links[e] \in Word /\ links[e].left # LOCK /\ links[e].right # LOCK
    BY <1>3, <1>4, <1>6, Marked
<1>8. Types
  <2>1. links \in [Elements -> Word]
      BY <1>7 DEF Init
  <2>2. known \subseteq Elements
      BY <1>2, <1>5
  <2>3. \A t \in Threads : /\ FirstOf(lists[t]) \in Elements \cup {END}
                           /\ LastOf(lists[t]) \in Elements \cup {END}
                           /\ FirstOf(frees[t]) \in Elements \cup {END}
      BY <1>5, EndsOf
  <2>4. /\ head \in [Threads -> Elements \cup {END}] /\ tail \in [Threads -> Elements \cup {END}]
        /\ freeListHead \in [Threads -> Elements \cup {END}]
      BY <2>3, <1>2
  <2>5. th \in [Threads -> ThreadState] /\ ops \in [Threads -> 0 .. MaxOps]
      BY <1>1, <1>2, IdleState
  <2> QED
      BY <2>1, <2>2, <2>4, <2>5, <1>1, <1>2 DEF Types
<1>9. PlaceInv
  <2>1. \A u \in Threads : /\ PlaceOf(u, "list") = Range(lists[u])
                           /\ PlaceOf(u, "free") = Range(frees[u])
                           /\ PlaceOf(u, "hand") = {}
      BY <1>5, IdleState DEF PlaceOf, InHand
  <2>2. "list" \in Kinds /\ "free" \in Kinds
      BY DEF Kinds
  <2>3. \A e \in Elements : \E u \in Threads, k \in Kinds : e \in PlaceOf(u, k)
      BY <2>1, <2>2, <1>6
  <2>4. ASSUME NEW u \in Threads, NEW v \in Threads, NEW k \in Kinds, NEW l \in Kinds,
               u # v \/ k # l
        PROVE  PlaceOf(u, k) \cap PlaceOf(v, l) = {}
    <3>1. k \in {"list", "free", "hand"} /\ l \in {"list", "free", "hand"}
        BY DEF Kinds
    <3> QED
        BY <3>1, <2>1, <2>4, <1>1, <1>2
  <2> QED
      BY <2>3, <2>4, <1>5 DEF PlaceInv
<1>10. ChainInv
  <2>1. ASSUME NEW a \in Elements, NEW b \in Elements, Adj(a, b)
        PROVE  links[a].right \in {b, LOCK} /\ links[b].left \in {a, LOCK}
    <3>1. PICK o \in Threads : Consec(lists[o], a, b)
        BY <2>1 DEF Adj
    <3>2. a \in Range(lists[o]) /\ b \in Range(lists[o])
        BY <3>1, <1>5, Neighbours
    <3> QED
        BY <3>1, <3>2, <1>3
  <2>2. ASSUME NEW o \in Threads
        PROVE  /\ head[o] = FirstOf(lists[o]) /\ tail[o] = LastOf(lists[o])
               /\ lists[o] # <<>> => links[head[o]].left = END /\ links[tail[o]].right = END
    <3>1. head[o] = FirstOf(lists[o]) /\ tail[o] = LastOf(lists[o])
        BY <1>2
    <3>2. lists[o] # <<>> => head[o] \in Range(lists[o]) /\ tail[o] \in Range(lists[o])
        BY <3>1, <1>5, EndsOf
    <3> QED
        BY <3>1, <3>2, <1>3
  <2> QED
      BY <2>1, <2>2 DEF ChainInv
<1>11. FreeInv
    BY <1>2, <1>4 DEF FreeInv
<1>12. Exclusive /\ Accounted
    BY <1>5, <1>7, IdleState DEF Exclusive, Accounted
<1>13. ASSUME NEW u \in Threads PROVE LockInv(u) /\ HandInv(u) /\ OpInv(u)
  <2>1. th[u] = Idle /\ frees[u] # <<>>
      BY <1>5
  <2>2. Idle.pc = "idle" /\ Idle.op = "none" /\ Idle.spare = END /\ Idle.x = END
      BY IdleState
  <2>3. LockInv(u) /\ HandInv(u)
      BY <2>1, <2>2 DEF LockInv, HandInv, HoldsTarget, HoldsLeft, HoldsRight, Between
  <2> QED
      BY <2>1, <2>2, <2>3 DEF OpInv, Unlinking, Evicting
<1> QED
    BY <1>8, <1>9, <1>10, <1>11, <1>12, <1>13 DEF ListInv

-----------------------------------------------------------------------------
(* What holds of every behaviour *)

LEMMA NextInv == ListInv /\ [Next]_vars => ListInv'
<1> SUFFICES ASSUME ListInv, [Next]_vars PROVE ListInv'
    OBVIOUS
<1>1. CASE UNCHANGED vars
  <2>1. /\ links' = links /\ head' = head /\ tail' = tail /\ freeListHead' = freeListHead
        /\ th' = th /\ ops' = ops /\ known' = known /\ lists' = lists /\ frees' = frees
      BY <1>1 DEF vars, heads, history
  <2>2. Types' /\ ChainInv' /\ FreeInv' /\ Exclusive' /\ Accounted'
      BY <2>1 DEF ListInv, Types, ChainInv, FreeInv, Exclusive, Accounted, Adj
  <2>3. PlaceInv'
      BY <2>1, ElementsStay DEF ListInv, InHand
  <2>4. ASSUME NEW u \in Threads PROVE LockInv(u)' /\ HandInv(u)' /\ OpInv(u)'
    <3>1. Types /\ PlaceInv /\ ChainInv /\ LockInv(u) /\ HandInv(u) /\ OpInv(u)
        BY DEF ListInv
    <3>2. Undisturbed(u)
        BY <2>1 DEF Undisturbed, Adj
    <3> QED
        BY <3>1, <3>2, OtherThread
  <2> QED
      BY <2>2, <2>3, <2>4 DEF ListInv
<1>2. CASE \E t \in Threads : Call(t) \/ Step(t)
  <2>1. PICK t \in Threads : Call(t) \/ Step(t)
      BY <1>2
  <2>2. CASE Call(t)
      BY <2>2, CallStep, CallPopStep DEF Call
  <2>3. CASE UnlinkStep(t)
      BY <2>3, LockStep, LoadStep, LeftStep, RightStep, JoinLeftStep, JoinRightStep, ClearStep,
         UndoTargetStep, UndoLeftStep DEF UnlinkStep
  <2>4. CASE LinkStep(t)
      BY <2>4, LinkStoreStep, HeadLoadStep, HeadStoreStep DEF LinkStep
  <2>5. CASE EvictStep(t)
      BY <2>5, TailLoadStep, TailCheckStep, TailCutStep, TailClearStep, PutBackStep DEF EvictStep
  <2> QED
      BY <2>1, <2>2, <2>3, <2>4, <2>5 DEF Step
<1> QED
    BY <1>1, <1>2 DEF Next, BoundReached

\* The words of the lists and free lists, the places of the elements and what
\* each thread inside an operation relies on are consistent at every moment.
THEOREM ListsInductive == Spec => []ListInv
<1>1. Init => ListInv
    BY InitInv
<1>2. ListInv /\ [Next]_vars => ListInv'
    BY NextInv
<1> QED
    BY <1>1, <1>2, PTL DEF Spec

\* Every variable keeps its type; unlinkElement only reads and writes words of
\* neighbours that are elements, never of the end mark.
THEOREM ListsTyped == Spec => []TypeOK
<1>1. ListInv => TypeOK
  <2> SUFFICES ASSUME ListInv PROVE TypeOK
      OBVIOUS
  <2>1. Types /\ \A t \in Threads : LockInv(t)
      BY DEF ListInv
  <2>2. ASSUME NEW t \in Threads
        PROVE  /\ th[t].pc \in Labels /\ th[t].op \in Ops \cup {"none"}
               /\ th[t].x \in Elements \cup {END}
               /\ th[t].spare \in Elements \cup {END}
               /\ {th[t].tgt, th[t].lft, th[t].rgt} \subseteq Word
               /\ th[t].retry \in BOOLEAN
               /\ th[t].pc \in {"loadLeft", "loadRight", "left", "right"} =>
                     {th[t].tgt.left, th[t].tgt.right} \subseteq Elements
      BY <2>1, MyTypes DEF LockInv, Between
  <2> QED
      BY <2>1, <2>2 DEF TypeOK, Types
<1> QED
    BY <1>1, ListsInductive, PTL

\* However many threads take elements out of a list while its owner adds at
\* the head and evicts at the tail, neighbours point at each other up to lock
\* marks, the ends are never locked, and free lists stay exact chains.
THEOREM ListsStayLinked == Spec => []ListsLinked
<1>1. ListInv => ListsLinked
  <2> SUFFICES ASSUME ListInv, NEW t \in Threads PROVE ListLinked(t) /\ FreeListLinked(t)
      BY DEF ListsLinked
  <2>1. /\ Types /\ PlaceInv /\ ChainInv /\ FreeInv
        /\ lists[t] \in Seq(Elements) /\ frees[t] \in Seq(Elements)
        /\ IsInjective(frees[t]) /\ links \in [Elements -> Word]
      BY MyTypes, Knows DEF PlaceInv
  <2>2. ListLinked(t)
    <3>1. ASSUME NEW i \in 1 .. (Len(lists[t]) - 1)
          PROVE  /\ links[lists[t][i]].right \in {lists[t][i + 1], LOCK}
                 /\ links[lists[t][i + 1]].left \in {lists[t][i], LOCK}
      <4>1. i \in 1 .. Len(lists[t]) /\ i + 1 \in 1 .. Len(lists[t])
          BY <2>1
      <4>2. PICK a \in Elements, b \in Elements : a = lists[t][i] /\ b = lists[t][i + 1]
          BY <4>1, <2>1
      <4>3. Adj(a, b)
          BY <4>2 DEF Adj, Consec
      <4> QED
          BY <4>2, <4>3, <2>1 DEF ChainInv
    <3> QED
        BY <3>1, <2>1 DEF ListLinked, ChainInv
  <2>3. FreeListLinked(t)
    <3>1. ASSUME NEW i \in DOMAIN frees[t]
          PROVE  links[frees[t][i]] = Links(END, ChainLinks(frees[t], frees[t][i]).right)
      <4>1. PICK x \in Range(frees[t]) : x = frees[t][i]
          BY <3>1 DEF Range
      <4>2. /\ links[x].left = END
            /\ x = LastOf(frees[t]) => links[x].right = END
            /\ \A b \in Elements : Consec(frees[t], x, b) => links[x].right = b
          BY <2>1 DEF FreeInv
      <4>3. /\ x = LastOf(frees[t]) => ChainLinks(frees[t], x).right = END
            /\ \A b : Consec(frees[t], x, b) => ChainLinks(frees[t], x).right = b
          BY <2>1, ChainWord
      <4>4. links[x].right = ChainLinks(frees[t], x).right
          BY <4>2, <4>3, <2>1, HasNeighbours
      <4>5. x \in Elements
          BY <2>1, EndsOf
      <4>6. links[x] = Links(links[x].left, links[x].right)
          BY <4>5, <2>1, WordForm
      <4> QED
          BY <4>1, <4>2, <4>4, <4>6
    <3> QED
        BY <3>1, <2>1 DEF FreeListLinked, FreeInv
  <2> QED
      BY <2>2, <2>3
<1> QED
    BY <1>1, ListsInductive, PTL

\* No element is lost and none is used twice: each is in one list, in one free
\* list or in the hands of one thread.
THEOREM ElementsStayConserved == Spec => []ElementsConserved
<1>1. ListInv => ElementsConserved
  <2> SUFFICES ASSUME ListInv PROVE ElementsConserved
      OBVIOUS
  <2>1. Types /\ PlaceInv /\ \A u \in Threads : OpInv(u)
      BY DEF ListInv
  <2> DEFINE place(p) == CASE p[2] = "list" -> Range(lists[p[1]])
                           [] p[2] = "free" -> Range(frees[p[1]])
                           [] p[2] = "hand" -> InHand(p[1])
             places == Threads \X Kinds
  <2>2. ASSUME NEW u \in Threads, NEW k \in Kinds PROVE place(<<u, k>>) = PlaceOf(u, k)
      BY DEF PlaceOf
  <2>3. ASSUME NEW u \in Threads, NEW k \in Kinds PROVE PlaceOf(u, k) \subseteq Elements
    <3>1. /\ Range(lists[u]) \subseteq Elements /\ Range(frees[u]) \subseteq Elements
          /\ InHand(u) \subseteq Elements
        BY <2>1, EndsOf, MyTypes, InHands
    <3> QED
        BY <3>1 DEF PlaceOf, Kinds
  <2>4. ASSUME NEW p \in places PROVE \E u \in Threads, k \in Kinds : p = <<u, k>>
      OBVIOUS
  <2>5. UNION {place(p) : p \in places} = Elements
    <3> HIDE DEF place
    <3>1. ASSUME NEW p \in places PROVE place(p) \subseteq Elements
        BY <2>2, <2>3, <2>4
    <3>2. ASSUME NEW e \in Elements PROVE \E p \in places : e \in place(p)
      <4>1. PICK u \in Threads, k \in Kinds : e \in PlaceOf(u, k)
          BY <2>1 DEF PlaceInv
      <4>2. <<u, k>> \in places /\ e \in place(<<u, k>>)
          BY <4>1, <2>2
      <4> QED
          BY <4>2
    <3> QED
        BY <3>1, <3>2
  <2>6. ASSUME NEW p \in places, NEW q \in places, p # q PROVE place(p) \cap place(q) = {}
    <3> HIDE DEF place
    <3>1. PICK u \in Threads, k \in Kinds : p = <<u, k>>
        BY <2>4
    <3>2. PICK v \in Threads, l \in Kinds : q = <<v, l>>
        BY <2>4
    <3>3. u # v \/ k # l
        BY <3>1, <3>2, <2>6
    <3>4. PlaceOf(u, k) \cap PlaceOf(v, l) = {}
        BY <3>3, <2>1 DEF PlaceInv
    <3> QED
        BY <3>1, <3>2, <3>4, <2>2
  <2> QED
      BY <2>5, <2>6 DEF ElementsConserved, Kinds
<1> QED
    BY <1>1, ListsInductive, PTL

\* A lock mark is always accounted for by a thread inside unlinkElement: when
\* every thread is outside, no word carries one.
THEOREM NoLockOrphaned == Spec => []NoOrphanedLock
<1>1. ListInv => NoOrphanedLock
  <2> SUFFICES ASSUME ListInv, \A t \in Threads : At(t, "idle"), NEW e \in Elements
               PROVE  links[e].left # LOCK /\ links[e].right # LOCK
      BY DEF NoOrphanedLock
  <2>1. \A u \in Threads : ~HasTarget(th[u], e) /\ ~HasLeft(th[u], e) /\ ~HasRight(th[u], e)
      BY DEF At, HasTarget, HasLeft, HasRight, HoldsTarget, HoldsLeft, HoldsRight
  <2> QED
      BY <2>1 DEF ListInv, Accounted
<1> QED
    BY <1>1, ListsInductive, PTL

\* Neither one of the two elements at the head of s nor one of the two at its
\* tail.
Inside(s, x) == \E i \in 3 .. Len(s) - 2 : s[i] = x

\* With its element and both neighbours locked, unlinkElement works away from
\* the ends.
LEMMA LockedInside ==
    ASSUME ListInv, NEW t \in Threads, At(t, "joinLeft")
    PROVE  \E o \in Threads : Inside(lists[o], th[t].x)
<1>1. Types /\ PlaceInv /\ ChainInv /\ LockInv(t)
    BY DEF ListInv
<1>2. PICK a \in Elements, b \in Elements : a = th[t].tgt.left /\ b = th[t].tgt.right
    BY <1>1 DEF LockInv, Between, At
<1>3. PICK x : x = th[t].x
    OBVIOUS
<1>4. /\ Adj(a, x) /\ Adj(x, b)
      /\ links[a].left \in Elements /\ links[b].right \in Elements
    BY <1>1, <1>2, <1>3 DEF LockInv, Between, HoldsLeft, HoldsRight, At, Links
<1>5. PICK o \in Threads : Consec(lists[o], a, x)
    BY <1>4 DEF Adj
<1>6. PICK v \in Threads : Consec(lists[v], x, b)
    BY <1>4 DEF Adj
<1>7. lists[o] \in Seq(Elements) /\ lists[v] \in Seq(Elements)
    BY <1>1 DEF Types
<1>8. IsInjective(lists[o]) /\ IsInjective(lists[v])
    BY <1>1 DEF PlaceInv
<1>9. v = o
  <2>1. x \in Range(lists[o]) /\ x \in Range(lists[v])
      BY <1>5, <1>6, <1>7, <1>8, Neighbours
  <2>2. PlaceOf(o, "list") = Range(lists[o]) /\ PlaceOf(v, "list") = Range(lists[v])
      BY DEF PlaceOf
  <2> QED
      BY <2>1, <2>2, <1>1 DEF PlaceInv, Kinds
<1>10. PICK s \in Seq(Elements) : s = lists[o]
    BY <1>7
<1>11. PICK n \in Nat : n = Len(s) /\ DOMAIN s = 1 .. n
    BY <1>10
<1>12. PICK i \in 1 .. n - 1 : s[i] = a /\ s[i + 1] = x
    BY <1>5, <1>10, <1>11 DEF Consec
<1>13. PICK j \in 1 .. n - 1 : s[j] = x /\ s[j + 1] = b
    BY <1>6, <1>9, <1>10, <1>11 DEF Consec
<1>14. j = i + 1
  <2>1. j \in DOMAIN s /\ i + 1 \in DOMAIN s
      BY <1>11
  <2> QED
      BY <2>1, <1>8, <1>10, <1>12, <1>13 DEF IsInjective
<1>15. a # FirstOf(s) /\ b # LastOf(s)
  <2>1. s # <<>>
      BY <1>5, <1>7, <1>8, <1>10, Neighbours
  <2>2. links[FirstOf(s)].left = END /\ links[LastOf(s)].right = END
      BY <2>1, <1>1, <1>10 DEF ChainInv
  <2> QED
      BY <2>2, <1>4, MarkAssumption
<1>16. FirstOf(s) = s[1] /\ LastOf(s) = s[n]
    BY <1>11, <1>12 DEF FirstOf, LastOf
<1>17. i # 1 /\ j + 1 # n
    BY <1>12, <1>13, <1>15, <1>16
<1>18. i + 1 \in 3 .. n - 2
    BY <1>14, <1>17
<1> QED
    BY <1>3, <1>10, <1>11, <1>12, <1>18 DEF Inside

\* However long ago it has read its words, unlinkElement never takes one of the
\* two elements at either end of a list, nor one that is in no list: the owner
\* is alone there.  The hash table's model relies on it (Unlinkable).
THEOREM UnlinksInside ==
    Spec => [][\A t \in Threads : UnlinkJoinLeft(t) =>
                  \E o \in Threads : Inside(lists[o], th[t].x)]_vars
<1>1. ListInv /\ [Next]_vars =>
         [\A t \in Threads : UnlinkJoinLeft(t) =>
             \E o \in Threads : Inside(lists[o], th[t].x)]_vars
    BY LockedInside DEF UnlinkJoinLeft
<1> QED
    BY <1>1, ListsInductive, PTL DEF Spec
=============================================================================
