------------------------------ MODULE LRULists ------------------------------
(***************************************************************************)
(* The per-thread LRU lists and free lists of LFLRUHashTable.h.            *)
(*                                                                         *)
(* Every element has one 64-bit atomic word, links, with a left and a      *)
(* right neighbour.  head, tail and freeListHead of a list are only        *)
(* touched by the thread that owns it.  Any thread may take an element out *)
(* of any list (unlinkElement): it locks the element by setting both links *)
(* to the lock mark, then the right link of the left neighbour and the     *)
(* left link of the right neighbour, and gives up near the ends of a list, *)
(* so that the owner can work on its ends without locking.                 *)
(*                                                                         *)
(* One action is one access to links that another thread can observe.  A   *)
(* load and the CAS that expects the loaded value are one step where a     *)
(* failed CAS only leads back to that load.  The hash table above calls    *)
(* these operations with element numbers it read from a slot it has        *)
(* already unlocked, hence at any time with any element that was ever in   *)
(* the hash.                                                               *)
(***************************************************************************)
EXTENDS Integers, Sequences, FiniteSets, SequencesExt

CONSTANTS Threads,     \* worker threads, one LRU list and one free list each
          Elements,    \* indexes into elementStorage
          InitLists,   \* thread -> its LRU list at the start, head first
          InitFree,    \* thread -> its free list at the start, the rest
          MaxOps,      \* bound on the operations of one thread
          Ops,         \* the operations the table performs
          END, LOCK    \* LIST_END_MARK and ACCESS_LOCK_MARK

\* The marks are no element numbers.
ASSUME MarkAssumption == {END, LOCK} \cap Elements = {} /\ END # LOCK

\* At the start every element has one position in one list, and every thread
\* has a free element: it inserts the last one only to evict another.
ASSUME InitAssumption ==
    /\ MaxOps \in Nat
    /\ InitLists \in [Threads -> Seq(Elements)] /\ InitFree \in [Threads -> Seq(Elements)]
    /\ \A t \in Threads : /\ InitFree[t] # <<>>
                          /\ IsInjective(InitLists[t]) /\ IsInjective(InitFree[t])
    /\ \A e \in Elements : \E t \in Threads : e \in Range(InitLists[t]) \cup Range(InitFree[t])
    /\ \A t, u \in Threads :
          /\ Range(InitLists[t]) \cap Range(InitFree[u]) = {}
          /\ t # u => /\ Range(InitLists[t]) \cap Range(InitLists[u]) = {}
                      /\ Range(InitFree[t]) \cap Range(InitFree[u]) = {}

Marks == {END, LOCK}
Links(l, r) == [left |-> l, right |-> r]
Ends == Links(END, END)

VARIABLES links,          \* element -> its two links
          head, tail,     \* thread -> ends of its LRU list
          freeListHead,   \* thread -> first free element
          th,             \* thread -> where it is in an operation
          ops,            \* thread -> operations started so far
          known,          \* elements whose number was ever put in a hash slot
          lists, frees    \* history: the lists as their owners see them

heads == <<head, tail, freeListHead>>
history == <<lists, frees>>
vars == <<links, heads, th, ops, known, history>>

\* A thread outside the lists.  op is the operation, x the element worked on,
\* spare a popped free element, tgt, lft and rgt the words read from x, its
\* left and its right neighbour, retry whether unlinkElement starts again.
Idle == [pc |-> "idle", op |-> "none", x |-> END, spare |-> END,
         tgt |-> Ends, lft |-> Ends, rgt |-> Ends, retry |-> FALSE]

At(t, label) == th[t].pc = label
Return(t) == th' = [th EXCEPT ![t] = Idle]
Goto(t, label) == th' = [th EXCEPT ![t].pc = label]

\* The links of element e in list s, whose elements are all distinct.
ChainLinks(s, e) ==
    LET i == CHOOSE j \in DOMAIN s : s[j] = e
    IN  Links(IF i = 1 THEN END ELSE s[i - 1],
              IF i = Len(s) THEN END ELSE s[i + 1])
FirstOf(s) == IF s = <<>> THEN END ELSE Head(s)
LastOf(s) == IF s = <<>> THEN END ELSE s[Len(s)]

\* A table in use.  Elements of a free list are chained by their right links.
Init ==
    /\ links = [e \in Elements |->
          IF \E t \in Threads : e \in Range(InitLists[t])
          THEN ChainLinks(InitLists[CHOOSE t \in Threads : e \in Range(InitLists[t])], e)
          ELSE Links(END, ChainLinks(InitFree[CHOOSE t \in Threads :
                                                e \in Range(InitFree[t])], e).right)]
    /\ head = [t \in Threads |-> FirstOf(InitLists[t])]
    /\ tail = [t \in Threads |-> LastOf(InitLists[t])]
    /\ freeListHead = [t \in Threads |-> FirstOf(InitFree[t])]
    /\ th = [t \in Threads |-> Idle]
    /\ ops = [t \in Threads |-> 0]
    /\ known = UNION {Range(InitLists[t]) : t \in Threads}
    /\ lists = InitLists
    /\ frees = InitFree

-----------------------------------------------------------------------------
(* Calls from the table *)

Start(t, o) == /\ At(t, "idle") /\ ops[t] < MaxOps /\ o \in Ops
               /\ ops' = [ops EXCEPT ![t] = @ + 1]

\* Taking the first element of the thread's free list.
PopFree(t) ==
    /\ freeListHead' = [freeListHead EXCEPT ![t] = links[@].right]
    /\ frees' = [frees EXCEPT ![t] = Tail(@)]

\* Chaining element e in front of the thread's free list.
PushFree(t, e) ==
    /\ links' = [links EXCEPT ![e] = Links(END, freeListHead[t])]
    /\ freeListHead' = [freeListHead EXCEPT ![t] = e]
    /\ frees' = [frees EXCEPT ![t] = <<e>> \o @]

\* get, set: a key was found in element x; move x to the thread's own list.
CallGet(t, x) ==
    /\ Start(t, "get")
    /\ th' = [th EXCEPT ![t] = [@ EXCEPT !.pc = "lock", !.op = "get", !.x = x]]
    /\ UNCHANGED <<links, heads, known, history>>

\* insertOrSet on a present key: the popped free element is put back last.
CallSet(t, x) ==
    /\ Start(t, "set")
    /\ PopFree(t)
    /\ th' = [th EXCEPT ![t] = [@ EXCEPT !.pc = "lock", !.op = "set", !.x = x,
                                         !.spare = freeListHead[t]]]
    /\ UNCHANGED <<links, head, tail, known, lists>>

\* insertOrSet, insert on an absent key.
CallInsert(t) ==
    /\ Start(t, "insert")
    /\ PopFree(t)
    /\ known' = known \cup {freeListHead[t]}
    /\ th' = [th EXCEPT ![t] = [@ EXCEPT !.pc = "link", !.op = "insert",
                                         !.x = freeListHead[t]]]
    /\ UNCHANGED <<links, head, tail, lists>>

\* remove: the key is no longer in the hash; unlink its element x.
CallRemove(t, x) ==
    /\ Start(t, "remove")
    /\ th' = [th EXCEPT ![t] = [@ EXCEPT !.pc = "lock", !.op = "remove", !.x = x]]
    /\ UNCHANGED <<links, heads, known, history>>

-----------------------------------------------------------------------------
(* unlinkElement *)

\* Continue with element x at another step; the words read so far are dropped.
Resume(t, label, x) ==
    th' = [th EXCEPT ![t] = [Idle EXCEPT !.pc = label, !.op = th[t].op,
                                         !.x = x, !.spare = th[t].spare]]

\* mutant: the callers ignore that the element could not be unlinked.
UnlinkDoneAnyway(t, ok) ==
    IF th[t].op = "remove" THEN Resume(t, "push", th[t].x)
                           ELSE Resume(t, "link", th[t].x)

\* Back in the caller.  A removal that could not unlink leaves its element in
\* the list; insertOrSet has its free element to put back in either case.
UnlinkDone(t, ok) ==
    CASE ok /\ th[t].op \in {"get", "set"} -> Resume(t, "link", th[t].x)
      [] ok /\ th[t].op = "remove"         -> Resume(t, "push", th[t].x)
      [] ~ok /\ th[t].op = "set"           -> Resume(t, "push", th[t].spare)
      [] OTHER                             -> Return(t)

\* mutant: only one of the two links is tested for the end mark.
AtEndLeft(w) == w.left = END
\* The element is at the end of a list or outside all lists.
AtEnd(w) == END \in {w.left, w.right}

\* Lock the element.  At the end of a list, or outside all lists, give up;
\* while somebody else has locked it, spin.
UnlinkLock(t) ==
    LET x == th[t].x
        w == links[x]
    IN  /\ At(t, "lock")
        /\ \/ /\ AtEnd(w)
              /\ UnlinkDone(t, FALSE)
              /\ UNCHANGED links
           \/ /\ ~AtEnd(w) /\ LOCK \notin {w.left, w.right}
              /\ links' = [links EXCEPT ![x] = Links(LOCK, LOCK)]
              /\ th' = [th EXCEPT ![t] = [@ EXCEPT !.pc = "loadLeft", !.tgt = w]]
        /\ UNCHANGED <<heads, ops, known, history>>

\* Read the words of both neighbours; the tests and the CASs that follow use
\* what was read here.
UnlinkLoadLeft(t) ==
    /\ At(t, "loadLeft")
    /\ th' = [th EXCEPT ![t] = [@ EXCEPT !.pc = "loadRight",
                                         !.lft = links[th[t].tgt.left]]]
    /\ UNCHANGED <<links, heads, ops, known, history>>

UnlinkLoadRight(t) ==
    /\ At(t, "loadRight")
    /\ th' = [th EXCEPT ![t] = [@ EXCEPT !.pc = "left",
                                         !.rgt = links[th[t].tgt.right]]]
    /\ UNCHANGED <<links, heads, ops, known, history>>

\* mutant: no test for the head of the list.
LeftFreeOrHead(w, x) == w.left # LOCK /\ w.right = x
\* The word read from x's left neighbour allows to lock its right link.
LeftFree(w, x) == w.left \notin Marks /\ w.right = x

\* Lock the left neighbour's right link, unless that neighbour was the head of
\* its list or somebody else is working on it.
UnlinkLeft(t) ==
    LET l == th[t].tgt.left
        w == th[t].lft
        free == LeftFree(w, th[t].x) /\ links[l] = w
    IN  /\ At(t, "left")
        /\ \/ /\ ~free
              /\ th' = [th EXCEPT ![t] = [@ EXCEPT !.pc = "undoTarget",
                                                   !.retry = (w.left # END)]]
              /\ UNCHANGED links
           \/ /\ free
              /\ links' = [links EXCEPT ![l].right = LOCK]
              /\ Goto(t, "right")
        /\ UNCHANGED <<heads, ops, known, history>>

\* Lock the right neighbour's left link, unless that neighbour was the tail.
UnlinkRight(t) ==
    LET r == th[t].tgt.right
        w == th[t].rgt
        free == w.right \notin Marks /\ w.left = th[t].x /\ links[r] = w
    IN  /\ At(t, "right")
        /\ \/ /\ ~free
              /\ th' = [th EXCEPT ![t] = [@ EXCEPT !.pc = "undoBoth",
                                                   !.retry = (w.right # END)]]
              /\ UNCHANGED links
           \/ /\ free
              /\ links' = [links EXCEPT ![r].left = LOCK]
              /\ Goto(t, "joinLeft")
        /\ UNCHANGED <<heads, ops, known, history>>

\* List s without x, which is in it at most once.
Without(s, x) ==
    IF x \in Range(s) THEN RemoveAt(s, CHOOSE i \in DOMAIN s : s[i] = x) ELSE s

\* Three elements are locked: make the neighbours point at each other.  The
\* CAS loops keep whatever the other half of the word holds.
UnlinkJoinLeft(t) ==
    /\ At(t, "joinLeft")
    /\ links' = [links EXCEPT ![th[t].tgt.left].right = th[t].tgt.right]
    /\ lists' = [o \in Threads |-> Without(lists[o], th[t].x)]
    /\ Goto(t, "joinRight")
    /\ UNCHANGED <<heads, ops, known, frees>>

UnlinkJoinRight(t) ==
    /\ At(t, "joinRight")
    /\ links' = [links EXCEPT ![th[t].tgt.right].left = th[t].tgt.left]
    /\ Goto(t, "clear")
    /\ UNCHANGED <<heads, ops, known, history>>

UnlinkClear(t) ==
    /\ At(t, "clear")
    /\ links' = [links EXCEPT ![th[t].x] = Ends]
    /\ UnlinkDone(t, TRUE)
    /\ UNCHANGED <<heads, ops, known, history>>

\* Take the locks back, the element's first, then start again or give up.
UndoDone(t) == IF th[t].retry THEN Resume(t, "lock", th[t].x)
                              ELSE UnlinkDone(t, FALSE)

\* mutant: the left neighbour is not restored.
UndoTargetOnly(t) ==
    /\ th[t].pc \in {"undoTarget", "undoBoth"}
    /\ links' = [links EXCEPT ![th[t].x] = th[t].tgt]
    /\ UndoDone(t)
    /\ UNCHANGED <<heads, ops, known, history>>

UndoTarget(t) ==
    /\ th[t].pc \in {"undoTarget", "undoBoth"}
    /\ links' = [links EXCEPT ![th[t].x] = th[t].tgt]
    /\ IF At(t, "undoBoth") THEN Goto(t, "undoLeft") ELSE UndoDone(t)
    /\ UNCHANGED <<heads, ops, known, history>>

UndoLeft(t) ==
    /\ At(t, "undoLeft")
    /\ links' = [links EXCEPT ![th[t].tgt.left] = th[t].lft]
    /\ UndoDone(t)
    /\ UNCHANGED <<heads, ops, known, history>>

-----------------------------------------------------------------------------
(* linkHead *)

\* Back in the caller.  An insertion that took the last free element evicts.
LinkDone(t) ==
    CASE th[t].op = "set" -> Resume(t, "push", th[t].spare)
      [] th[t].op = "insert" /\ freeListHead[t] = END -> Resume(t, "tail", END)
      [] OTHER -> Return(t)

LinkStore(t) ==
    LET x == th[t].x
    IN  /\ At(t, "link")
        /\ links' = [links EXCEPT ![x] = Links(END, head[t])]
        /\ \/ /\ head[t] = END
              /\ head' = [head EXCEPT ![t] = x]
              /\ tail' = [tail EXCEPT ![t] = x]
              /\ lists' = [lists EXCEPT ![t] = <<x>>]
              /\ LinkDone(t)
           \/ /\ head[t] # END
              /\ Goto(t, "headLoad")
              /\ UNCHANGED <<head, tail, lists>>
        /\ UNCHANGED <<freeListHead, ops, known, frees>>

LinkHeadLoad(t) ==
    /\ At(t, "headLoad")
    /\ th' = [th EXCEPT ![t] = [@ EXCEPT !.pc = "headStore",
                                         !.rgt = links[head[t]]]]
    /\ UNCHANGED <<links, heads, ops, known, history>>

\* A plain store of a word read earlier: nobody may have changed it.
LinkHeadStore(t) ==
    LET x == th[t].x
    IN  /\ At(t, "headStore")
        /\ links' = [links EXCEPT ![head[t]] = Links(x, th[t].rgt.right)]
        /\ head' = [head EXCEPT ![t] = x]
        /\ lists' = [lists EXCEPT ![t] = <<x>> \o @]
        /\ LinkDone(t)
        /\ UNCHANGED <<tail, freeListHead, ops, known, frees>>

-----------------------------------------------------------------------------
(* unlinkTail, and the eviction it is part of *)

TailLoad(t) ==
    LET x == tail[t]
        w == links[x]
    IN  /\ At(t, "tail")
        /\ w.left # LOCK /\ w.right = END
        /\ \/ /\ w.left # END
              /\ th' = [th EXCEPT ![t] = [@ EXCEPT !.pc = "tailCheck", !.x = x,
                                                   !.tgt = w]]
              /\ UNCHANGED <<head, tail, lists>>
           \/ /\ w.left = END
              /\ head' = [head EXCEPT ![t] = END]
              /\ tail' = [tail EXCEPT ![t] = END]
              /\ lists' = [lists EXCEPT ![t] = <<>>]
              /\ Resume(t, "tailClear", x)
        /\ UNCHANGED <<links, freeListHead, ops, known, frees>>

\* The left neighbour is free and points here.
LeftOfTailFree(t) ==
    LET w == links[th[t].tgt.left]
    IN  w.left # LOCK /\ w.right = th[t].x

TailCheck(t) ==
    /\ At(t, "tailCheck")
    /\ IF LeftOfTailFree(t) THEN Goto(t, "tailCut") ELSE Resume(t, "tail", END)
    /\ UNCHANGED <<links, heads, ops, known, history>>

TailCut(t) ==
    LET l == th[t].tgt.left
    IN  /\ At(t, "tailCut")
        /\ LeftOfTailFree(t)
        /\ links' = [links EXCEPT ![l].right = END]
        /\ tail' = [tail EXCEPT ![t] = l]
        /\ lists' = [lists EXCEPT ![t] = Front(@)]
        /\ Resume(t, "tailClear", th[t].x)
        /\ UNCHANGED <<head, freeListHead, ops, known, frees>>

TailClear(t) ==
    /\ At(t, "tailClear")
    /\ links' = [links EXCEPT ![th[t].x] = Ends]
    /\ Goto(t, "push")
    /\ UNCHANGED <<heads, ops, known, history>>

PutBack(t) ==
    /\ At(t, "push")
    /\ PushFree(t, th[t].x)
    /\ Return(t)
    /\ UNCHANGED <<head, tail, ops, known, lists>>

-----------------------------------------------------------------------------
UnlinkStep(t) ==
    \/ UnlinkLock(t) \/ UnlinkLoadLeft(t) \/ UnlinkLoadRight(t)
    \/ UnlinkLeft(t) \/ UnlinkRight(t)
    \/ UnlinkJoinLeft(t) \/ UnlinkJoinRight(t) \/ UnlinkClear(t)
    \/ UndoTarget(t) \/ UndoLeft(t)
LinkStep(t) == LinkStore(t) \/ LinkHeadLoad(t) \/ LinkHeadStore(t)
EvictStep(t) ==
    \/ TailLoad(t) \/ TailCheck(t) \/ TailCut(t) \/ TailClear(t) \/ PutBack(t)

Call(t) == \/ CallInsert(t)
           \/ \E x \in known : CallGet(t, x) \/ CallSet(t, x) \/ CallRemove(t, x)
Step(t) == UnlinkStep(t) \/ LinkStep(t) \/ EvictStep(t)

\* Every thread has used up its bound of operations; not a deadlock.
BoundReached == /\ \A t \in Threads : At(t, "idle") /\ ops[t] = MaxOps
                /\ UNCHANGED vars

Next == (\E t \in Threads : Call(t) \/ Step(t)) \/ BoundReached

Spec == Init /\ [][Next]_vars

\* A worker inside an operation keeps running.
FairSpec == Spec /\ \A t \in Threads : WF_vars(Step(t))

-----------------------------------------------------------------------------
Word == [left : Elements \cup Marks, right : Elements \cup Marks]
Labels == {"idle", "lock", "loadLeft", "loadRight", "left", "right", "joinLeft",
           "joinRight", "clear", "undoTarget", "undoBoth", "undoLeft", "link",
           "headLoad", "headStore", "tail", "tailCheck", "tailCut",
           "tailClear", "push"}

TypeOK ==
    /\ links \in [Elements -> Word]
    /\ head \in [Threads -> Elements \cup {END}]
    /\ tail \in [Threads -> Elements \cup {END}]
    /\ freeListHead \in [Threads -> Elements \cup {END}]
    /\ ops \in [Threads -> 0 .. MaxOps]
    /\ known \subseteq Elements
    /\ \A t \in Threads :
          /\ th[t].pc \in Labels /\ th[t].op \in Ops \cup {"none"}
          /\ th[t].x \in Elements \cup {END}
          /\ th[t].spare \in Elements \cup {END}
          /\ {th[t].tgt, th[t].lft, th[t].rgt} \subseteq Word
          /\ th[t].retry \in BOOLEAN
          /\ th[t].pc \in {"loadLeft", "loadRight", "left", "right"} =>
                {th[t].tgt.left, th[t].tgt.right} \subseteq Elements

\* Neighbours in a list always point at each other, up to lock marks, and the
\* two ends are never locked, however many threads are taking elements out of
\* the list while its owner adds at the head and evicts at the tail.
ListLinked(t) ==
    LET s == lists[t]
    IN  /\ head[t] = FirstOf(s) /\ tail[t] = LastOf(s)
        /\ s # <<>> => links[head[t]].left = END /\ links[tail[t]].right = END
        /\ \A i \in 1 .. (Len(s) - 1) :
              /\ links[s[i]].right \in {s[i + 1], LOCK}
              /\ links[s[i + 1]].left \in {s[i], LOCK}
\* A free list is a chain of right links that no concurrent unlinkElement on a
\* stale element number can disturb.
FreeListLinked(t) ==
    LET s == frees[t]
    IN  /\ freeListHead[t] = FirstOf(s)
        /\ \A i \in DOMAIN s : links[s[i]] = Links(END, ChainLinks(s, s[i]).right)

\* Both hold of every thread's lists at every moment.
ListsLinked == \A t \in Threads : ListLinked(t) /\ FreeListLinked(t)

\* The elements that no list holds and that thread t is working on.
InHand(t) ==
    LET holdsX == {"joinRight", "clear", "link", "headLoad", "headStore",
                   "tailClear", "push"}
    IN  ({th[t].spare} \cup (IF th[t].pc \in holdsX THEN {th[t].x} ELSE {})) \ {END}

\* Every element is in exactly one list, in exactly one free list or in the
\* hands of exactly one thread: none is lost and none is used twice.
ElementsConserved ==
    LET place(p) == CASE p[2] = "list" -> Range(lists[p[1]])
                      [] p[2] = "free" -> Range(frees[p[1]])
                      [] p[2] = "hand" -> InHand(p[1])
        places == Threads \X {"list", "free", "hand"}
    IN  /\ UNION {place(p) : p \in places} = Elements
        /\ \A p, q \in places : p # q => place(p) \cap place(q) = {}

\* No lock mark outlives the operations: when nobody is inside, the lists are
\* exact in both directions.
NoOrphanedLock ==
    (\A t \in Threads : At(t, "idle")) =>
        \A e \in Elements : LOCK \notin {links[e].left, links[e].right}

\* Every operation returns, as operations documented as wait-free do.
OperationsReturn ==
    \A t \in Threads : ~At(t, "idle") ~> At(t, "idle")
=============================================================================
