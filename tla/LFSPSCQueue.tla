---------------------------- MODULE LFSPSCQueue ----------------------------
(***************************************************************************)
(* The two-lane single-producer single-consumer queue of LFSPSCQueue.h, as *)
(* ServerThread uses it: a pool of preallocated sessions.  The producer is *)
(* the worker thread, which pushes a session back when its connection      *)
(* ends; the consumer is the listener thread, which pops one for every     *)
(* accepted connection.  laneSwitch decides which lane each side works on: *)
(* the producer on laneSwitch % 2, the consumer on the other one.  A side  *)
(* that finds its lane full (empty) swaps the lanes with a CAS and tries   *)
(* once more.                                                              *)
(*                                                                         *)
(* One action is one access to a word the other thread writes.  A thread's *)
(* load of the index only it stores is merged with the next access.        *)
(***************************************************************************)
EXTENDS Integers, FiniteSets

CONSTANTS Sessions,      \* the preallocated Session objects
          BufferSize,    \* slots of one lane, the constructor's buffer_size
          SwitchWidth,   \* laneSwitch wraps at this value (2^64 for size_t)
          NoSession      \* content of a slot nothing was stored in

\* The constructor aborts unless buffer_size >= 2; size_t wraps at an even value.
ASSUME BufferSizeAssumption == BufferSize \in Nat /\ BufferSize >= 2
ASSUME SwitchWidthAssumption ==
    SwitchWidth \in Nat /\ SwitchWidth >= 2 /\ SwitchWidth % 2 = 0
\* ServerThread sizes the queue and the set of sessions by the same constant.
ASSUME SessionsAssumption ==
    /\ IsFiniteSet(Sessions)
    /\ Cardinality(Sessions) <= BufferSize
    /\ NoSession \notin Sessions

Lanes == {0, 1}
Slots == 0 .. (BufferSize - 1)

VARIABLES
    laneSwitch, head, tail, ring,   \* the queue
    ppc, pcur, phead, pval,         \* push: control, curLaneSwitch, head, value
    cpc, ccur, ctail, cval,         \* pop: control, curLaneSwitch, tail, value
    held,         \* sessions outside the queue and known to the worker
    built,        \* the ServerThread constructor has finished
    emptyAtPop    \* history: both lanes were empty when the last pop began

prodVars == <<ppc, pcur, phead, pval>>
consVars == <<cpc, ccur, ctail, cval>>
vars == <<laneSwitch, head, tail, ring, prodVars, consVars, held, built,
          emptyAtPop>>

ProdStates == {"idle", "check", "cas", "reload", "recheck", "write", "publish"}
ConsStates == {"idle", "check", "cas", "reload", "recheck", "read", "advance"}

-----------------------------------------------------------------------------
\* mutant: the buffer mask is not applied.
nextUnmasked(i) == i + 1
next(i) == (i + 1) % BufferSize
bump(n) == (n + 1) % SwitchWidth
PushLane == pcur % 2
PopLane == (ccur + 1) % 2

\* Occupied(l): the slots of lane l that hold pushed and not yet popped values.
Between(t, h) == {i \in Slots : IF t <= h THEN t <= i /\ i < h
                                           ELSE t <= i \/ i < h}
Occupied(l) == Between(tail[l], head[l])
Content(l) == {ring[l][i] : i \in Occupied(l)}

\* The queue as constructed; ServerThread's constructor still has every
\* session in hand.
Init == /\ laneSwitch = 0
        /\ head = [l \in Lanes |-> 0]
        /\ tail = [l \in Lanes |-> 0]
        /\ ring = [l \in Lanes |-> [i \in Slots |-> NoSession]]
        /\ ppc = "idle" /\ pcur = 0 /\ phead = 0 /\ pval = NoSession
        /\ cpc = "idle" /\ ccur = 0 /\ ctail = 0 /\ cval = NoSession
        /\ held = Sessions
        /\ built = FALSE
        /\ emptyAtPop = FALSE

\* The constructor has pushed every session; the threads may start.
ConstructorDone ==
    /\ ~built /\ ppc = "idle" /\ held = {}
    /\ built' = TRUE
    /\ UNCHANGED <<laneSwitch, head, tail, ring, prodVars, consVars, held,
                   emptyAtPop>>

-----------------------------------------------------------------------------
(* push *)

\* push returns: its locals are gone.
PushDone == ppc' = "idle" /\ pcur' = 0 /\ phead' = 0 /\ pval' = NoSession

PushCall(s) ==
    /\ ppc = "idle" /\ s \in held
    /\ pval' = s
    /\ pcur' = laneSwitch
    /\ ppc' = "check"
    /\ UNCHANGED <<laneSwitch, head, tail, ring, phead, consVars, held, built,
                   emptyAtPop>>

\* mutant: head is published before the value is written.
PushCheckPublishes ==
    /\ ppc \in {"check", "recheck"}
    /\ \/ /\ next(head[PushLane]) # tail[PushLane]
          /\ head' = [head EXCEPT ![PushLane] = next(@)]
          /\ phead' = head[PushLane]
          /\ ppc' = "write"
       \/ /\ next(head[PushLane]) = tail[PushLane]
          /\ ppc' = "cas"
          /\ UNCHANGED <<head, phead>>
    /\ UNCHANGED <<laneSwitch, tail, ring, pcur, pval, consVars, held, built,
                   emptyAtPop>>

\* The full test, before and after the lanes are swapped.  A push that finds
\* both lanes full returns false, which every caller ignores: the session is
\* then in nobody's hands.
PushCheck ==
    /\ ppc \in {"check", "recheck"}
    /\ IF next(head[PushLane]) = tail[PushLane] /\ ppc = "recheck"
       THEN /\ held' = held \ {pval}
            /\ PushDone
       ELSE /\ phead' = head[PushLane]
            /\ ppc' = IF next(head[PushLane]) # tail[PushLane] THEN "write"
                                                              ELSE "cas"
            /\ UNCHANGED <<held, pcur, pval>>
    /\ UNCHANGED <<laneSwitch, head, tail, ring, consVars, built, emptyAtPop>>

PushWrite ==
    /\ ppc = "write"
    /\ ring' = [ring EXCEPT ![PushLane][phead] = pval]
    /\ ppc' = "publish"
    /\ UNCHANGED <<laneSwitch, head, tail, pcur, phead, pval, consVars, held,
                   built, emptyAtPop>>

PushPublish ==
    /\ ppc = "publish"
    /\ head' = [head EXCEPT ![PushLane] = next(phead)]
    /\ held' = held \ {pval}
    /\ PushDone
    /\ UNCHANGED <<laneSwitch, tail, ring, consVars, built, emptyAtPop>>

\* mutant: curLaneSwitch is not incremented after the lanes were swapped.
PushSwitchSameLane ==
    /\ ppc = "cas" /\ laneSwitch = pcur
    /\ laneSwitch' = bump(pcur)
    /\ ppc' = "recheck"
    /\ UNCHANGED <<head, tail, ring, pcur, phead, pval, consVars, held, built,
                   emptyAtPop>>

\* mutant: a failed swap is tried again with the old curLaneSwitch.
PushSwitchStale ==
    /\ ppc = "cas"
    /\ \/ /\ laneSwitch = pcur
          /\ laneSwitch' = bump(pcur)
          /\ pcur' = bump(pcur)
          /\ ppc' = "recheck"
       \/ laneSwitch # pcur /\ UNCHANGED <<laneSwitch, pcur, ppc>>
    /\ UNCHANGED <<head, tail, ring, phead, pval, consVars, held, built,
                   emptyAtPop>>

PushSwitch ==
    /\ ppc = "cas"
    /\ \/ /\ laneSwitch = pcur
          /\ laneSwitch' = bump(pcur)
          /\ pcur' = bump(pcur)
          /\ ppc' = "recheck"
       \/ /\ laneSwitch # pcur
          /\ pcur' = laneSwitch
          /\ ppc' = "reload"
          /\ UNCHANGED laneSwitch
    /\ UNCHANGED <<head, tail, ring, phead, pval, consVars, held, built,
                   emptyAtPop>>

PushReload ==
    /\ ppc = "reload"
    /\ pcur' = laneSwitch
    /\ ppc' = "check"
    /\ UNCHANGED <<laneSwitch, head, tail, ring, phead, pval, consVars, held,
                   built, emptyAtPop>>

-----------------------------------------------------------------------------
(* pop *)

\* pop returns: its locals are gone.
PopDone == cpc' = "idle" /\ ccur' = 0 /\ ctail' = 0 /\ cval' = NoSession

PopCall ==
    /\ built /\ cpc = "idle"
    /\ ccur' = laneSwitch
    /\ cpc' = "check"
    /\ emptyAtPop' = (\A l \in Lanes : Occupied(l) = {})
    /\ UNCHANGED <<laneSwitch, head, tail, ring, prodVars, ctail, cval, held,
                   built>>

\* mutant: pop gives up on the first empty lane.
PopCheckOneLane ==
    /\ cpc = "check"
    /\ IF tail[PopLane] = head[PopLane]
       THEN PopDone
       ELSE /\ ctail' = tail[PopLane]
            /\ cpc' = "read"
            /\ UNCHANGED <<ccur, cval>>
    /\ UNCHANGED <<laneSwitch, head, tail, ring, prodVars, held, built,
                   emptyAtPop>>

\* The empty test, before and after the lanes are swapped.  A pop that finds
\* both lanes empty returns false and addSession refuses the connection.
PopCheck ==
    /\ cpc \in {"check", "recheck"}
    /\ IF tail[PopLane] = head[PopLane] /\ cpc = "recheck"
       THEN PopDone
       ELSE /\ ctail' = tail[PopLane]
            /\ cpc' = IF tail[PopLane] # head[PopLane] THEN "read" ELSE "cas"
            /\ UNCHANGED <<ccur, cval>>
    /\ UNCHANGED <<laneSwitch, head, tail, ring, prodVars, held, built,
                   emptyAtPop>>

PopRead ==
    /\ cpc = "read"
    /\ cval' = ring[PopLane][ctail]
    /\ cpc' = "advance"
    /\ UNCHANGED <<laneSwitch, head, tail, ring, prodVars, ccur, ctail, held,
                   built, emptyAtPop>>

\* mutant: tail skips a slot.
PopAdvanceTwice ==
    /\ cpc = "advance"
    /\ tail' = [tail EXCEPT ![PopLane] = next(next(ctail))]
    /\ held' = held \cup {cval}
    /\ PopDone
    /\ UNCHANGED <<laneSwitch, head, ring, prodVars, built, emptyAtPop>>

PopAdvance ==
    /\ cpc = "advance"
    /\ tail' = [tail EXCEPT ![PopLane] = next(ctail)]
    /\ held' = held \cup {cval}
    /\ PopDone
    /\ UNCHANGED <<laneSwitch, head, ring, prodVars, built, emptyAtPop>>

\* mutant: curLaneSwitch is not incremented after the lanes were swapped.
PopSwitchSameLane ==
    /\ cpc = "cas" /\ laneSwitch = ccur
    /\ laneSwitch' = bump(ccur)
    /\ cpc' = "recheck"
    /\ UNCHANGED <<head, tail, ring, prodVars, ccur, ctail, cval, held, built,
                   emptyAtPop>>

PopSwitch ==
    /\ cpc = "cas"
    /\ \/ /\ laneSwitch = ccur
          /\ laneSwitch' = bump(ccur)
          /\ ccur' = bump(ccur)
          /\ cpc' = "recheck"
       \/ /\ laneSwitch # ccur
          /\ ccur' = laneSwitch
          /\ cpc' = "reload"
          /\ UNCHANGED laneSwitch
    /\ UNCHANGED <<head, tail, ring, prodVars, ctail, cval, held, built,
                   emptyAtPop>>

PopReload ==
    /\ cpc = "reload"
    /\ ccur' = laneSwitch
    /\ cpc' = "check"
    /\ UNCHANGED <<laneSwitch, head, tail, ring, prodVars, ctail, cval, held,
                   built, emptyAtPop>>

-----------------------------------------------------------------------------
PushStep == PushCheck \/ PushWrite \/ PushPublish \/ PushSwitch \/ PushReload
PopStep == PopCheck \/ PopRead \/ PopAdvance \/ PopSwitch \/ PopReload

Next == \/ ConstructorDone
        \/ \E s \in Sessions : PushCall(s)
        \/ PushStep
        \/ PopCall
        \/ PopStep

Spec == Init /\ [][Next]_vars

\* Each thread keeps running once it has entered the queue; nothing obliges
\* the worker to close a connection or the listener to accept one.
Fairness == WF_vars(PushStep) /\ WF_vars(PopStep)
FairSpec == Spec /\ Fairness

-----------------------------------------------------------------------------
TypeOK ==
    /\ laneSwitch \in 0 .. (SwitchWidth - 1)
    /\ head \in [Lanes -> Slots]
    /\ tail \in [Lanes -> Slots]
    /\ ring \in [Lanes -> [Slots -> Sessions \cup {NoSession}]]
    /\ ppc \in ProdStates
    /\ pcur \in 0 .. (SwitchWidth - 1)
    /\ phead \in Slots
    /\ pval \in Sessions \cup {NoSession}
    /\ cpc \in ConsStates
    /\ ccur \in 0 .. (SwitchWidth - 1)
    /\ ctail \in Slots
    /\ cval \in Sessions \cup {NoSession}
    /\ held \subseteq Sessions
    /\ built \in BOOLEAN
    /\ emptyAtPop \in BOOLEAN

\* The plain (non-atomic) accesses to ring_ never collide: the worker is
\* never about to write the slot the listener is about to read, although the
\* two may have read laneSwitch at different times and work on the same lane.
NoSlotRace ==
    ~ /\ ppc = "write" /\ cpc = "read"
      /\ PushLane = PopLane
      /\ phead = ctail

\* Every session is in exactly one place: in one slot of one lane, or outside
\* the queue.  No push is lost or overwritten and no pop returns a session
\* twice, for every interleaving of the lane swaps.
SessionsConserved ==
    /\ held \cup Content(0) \cup Content(1) = Sessions
    /\ \A l \in Lanes : \A i \in Occupied(l) : ring[l][i] \notin held
    /\ \A k, l \in Lanes : \A i \in Occupied(k), j \in Occupied(l) :
          ring[k][i] = ring[l][j] => k = l /\ i = j

\* When a push has swapped lanes because its lane was full, the other lane is
\* empty: that is why a push of a pooled session never returns false, on
\* which the callers that ignore its result rely.
SpareLaneEmpty ==
    ppc = "recheck" => Occupied(PushLane) = {}

\* A pop in flight that was called on a non-empty pool has not overlooked a
\* lane: after the swap there is something to take.
NoFalseEmpty ==
    cpc = "recheck" /\ ~emptyAtPop => Occupied(PopLane) # {}

\* What makes the above inductive.  The index a side has loaded is still the
\* current one (nobody else stores it), the slot it is about to access is free
\* (occupied), and a side that found its lane full (empty) knows the state of
\* the other lane.
ProducerInv ==
    /\ ppc # "idle" => pval \in held
    /\ ppc \in {"write", "publish"} =>
          phead = head[PushLane] /\ next(phead) # tail[PushLane]
    /\ ppc = "publish" => ring[PushLane][phead] = pval
    /\ ppc = "cas" => head[1 - PushLane] = tail[1 - PushLane]
    /\ ppc = "recheck" => head[PushLane] = tail[PushLane]

ConsumerInv ==
    /\ cpc \in {"read", "advance"} =>
          ctail = tail[PopLane] /\ ctail # head[PopLane]
    /\ cpc = "advance" => cval = ring[PopLane][ctail]
    /\ cpc # "idle" /\ ~emptyAtPop => \E l \in Lanes : head[l] # tail[l]
    /\ cpc = "cas" /\ ~emptyAtPop => head[1 - PopLane] # tail[1 - PopLane]
    /\ cpc = "recheck" /\ ~emptyAtPop => head[PopLane] # tail[PopLane]

IndInv == TypeOK /\ SessionsConserved /\ ProducerInv /\ ConsumerInv

\* Every push and every pop returns although the other side keeps swapping
\* the lanes under it.
CallsReturn ==
    /\ (ppc # "idle") ~> (ppc = "idle")
    /\ (cpc # "idle") ~> (cpc = "idle")

Pool == INSTANCE SessionPool WITH
    pool <- Content(0) \cup Content(1),
    held <- held,
    popping <- (cpc # "idle"),
    emptyAtPop <- emptyAtPop

\* The two-lane queue implements the session pool: pushes always succeed and
\* a pop fails only if it was called on an empty pool.
ImplementsPool == Pool!Spec
=============================================================================
