------------------------- MODULE LFSPSCQueueProofs -------------------------
(***************************************************************************)
(* Proofs about the two-lane queue, for every buffer size, every width of  *)
(* laneSwitch and every set of at most BufferSize sessions.                *)
(***************************************************************************)
EXTENDS LFSPSCQueue, FiniteSetTheorems, TLAPS

-----------------------------------------------------------------------------
(* Index arithmetic of one lane *)

\* next() stays inside the ring and wraps at BufferSize.
LEMMA NextLemma ==
  ASSUME NEW i \in Slots
  PROVE  /\ next(i) \in Slots
         /\ next(i) = IF i = BufferSize - 1 THEN 0 ELSE i + 1
         /\ next(i) # i
  BY BufferSizeAssumption DEF next, Slots

\* Incrementing laneSwitch, wrap included, flips its parity.
LEMMA BumpLemma ==
  ASSUME NEW n \in 0 .. (SwitchWidth - 1)
  PROVE  /\ bump(n) \in 0 .. (SwitchWidth - 1)
         /\ bump(n) % 2 = 1 - (n % 2)
         /\ (bump(n) + 1) % 2 = 1 - ((n + 1) % 2)
<1>1. bump(n) = IF n = SwitchWidth - 1 THEN 0 ELSE n + 1
  BY SwitchWidthAssumption DEF bump
<1>2. QED
  BY <1>1, SwitchWidthAssumption

\* Storing next(h) in head adds exactly slot h to the occupied ones.
LEMMA BetweenPush ==
  ASSUME NEW t \in Slots, NEW h \in Slots, next(h) # t
  PROVE  /\ Between(t, next(h)) = Between(t, h) \cup {h}
         /\ h \notin Between(t, h)
  BY NextLemma, BufferSizeAssumption DEF Between, Slots

\* Storing next(t) in tail removes exactly slot t from the occupied ones.
LEMMA BetweenPop ==
  ASSUME NEW t \in Slots, NEW h \in Slots, t # h
  PROVE  /\ Between(next(t), h) = Between(t, h) \ {t}
         /\ t \in Between(t, h)
         /\ h \notin Between(t, h)
  BY NextLemma, BufferSizeAssumption DEF Between, Slots

\* A lane is empty exactly when head and tail agree.
LEMMA BetweenEmpty ==
  ASSUME NEW t \in Slots, NEW h \in Slots
  PROVE  Between(t, h) = {} <=> t = h
<1>1. t = h => Between(t, h) = {}
  BY BufferSizeAssumption DEF Between, Slots
<1>2. QED
  BY <1>1, BetweenPop

\* A full lane has every slot but the one head points at.
LEMMA BetweenFull ==
  ASSUME NEW t \in Slots, NEW h \in Slots, next(h) = t
  PROVE  Between(t, h) = Slots \ {h}
  BY NextLemma, BufferSizeAssumption DEF Between, Slots

-----------------------------------------------------------------------------
\* The lanes the two threads work on are lanes.
LEMMA LaneType ==
  ASSUME TypeOK
  PROVE  PushLane \in Lanes /\ PopLane \in Lanes
  BY SwitchWidthAssumption DEF TypeOK, PushLane, PopLane, Lanes

\* The constructed queue is well typed.
LEMMA TypeInit == Init => TypeOK
<1> SUFFICES ASSUME Init PROVE TypeOK
  OBVIOUS
<1>1. 0 \in Slots
  BY BufferSizeAssumption DEF Slots
<1>2. 0 \in 0 .. (SwitchWidth - 1)
  BY SwitchWidthAssumption
<1>3. head \in [Lanes -> Slots] /\ tail \in [Lanes -> Slots]
  BY <1>1 DEF Init
<1>4. ring \in [Lanes -> [Slots -> Sessions \cup {NoSession}]]
  BY DEF Init
<1>5. QED
  BY <1>1, <1>2, <1>3, <1>4 DEF Init, TypeOK, ProdStates, ConsStates

\* A slot between tail and head holds a session.
LEMMA OccupiedHoldsSession ==
  ASSUME TypeOK, SessionsConserved, NEW l \in Lanes, NEW i \in Occupied(l)
  PROVE  i \in Slots /\ ring[l][i] \in Sessions /\ ring[l][i] \notin held
<1>1. i \in Slots
  BY DEF Occupied, Between
<1>2. ring[l][i] \in Content(0) \cup Content(1)
  BY DEF Content, Lanes
<1>3. QED
  BY <1>1, <1>2 DEF SessionsConserved

\* There are no more sessions than slots in a lane, and the one being pushed is
\* in no lane: when the producer's lane is full the other one is empty.
LEMMA FullLaneHoldsAll ==
  ASSUME TypeOK, SessionsConserved, NEW l \in Lanes,
         next(head[l]) = tail[l], NEW v \in held
  PROVE  head[1 - l] = tail[1 - l]
<1> SUFFICES ASSUME head[1 - l] # tail[1 - l] PROVE FALSE
  OBVIOUS
<1> DEFINE m == 1 - l
           x == ring[m][tail[m]]
           S == Slots \ {head[l]}
           T == (Sessions \ {v}) \ {x}
           f == [i \in S |-> ring[l][i]]
<1>1. m \in Lanes /\ m # l
  BY DEF Lanes
<1>2. /\ head[l] \in Slots /\ tail[l] \in Slots
      /\ head[m] \in Slots /\ tail[m] \in Slots
  BY <1>1 DEF TypeOK
<1>3. tail[m] \in Occupied(m)
  BY <1>2, BetweenPop DEF Occupied
<1>4. x \in Sessions /\ x \notin held
  BY <1>1, <1>3, OccupiedHoldsSession
<1>5. Occupied(l) = S
  BY <1>2, BetweenFull DEF Occupied
<1>6. f \in [S -> T]
  <2> SUFFICES ASSUME NEW i \in S PROVE ring[l][i] \in T
    OBVIOUS
  <2>1. ring[l][i] \in Sessions /\ ring[l][i] \notin held
    BY <1>5, OccupiedHoldsSession
  <2>2. ring[l][i] # x
    BY <1>1, <1>3, <1>5 DEF SessionsConserved
  <2>3. QED
    BY <2>1, <2>2
<1>7. IsFiniteSet(S) /\ Cardinality(S) = BufferSize - 1
  <2>1. IsFiniteSet(Slots) /\ Cardinality(Slots) = BufferSize
    BY FS_Interval, BufferSizeAssumption DEF Slots
  <2>2. QED
    BY <2>1, <1>2, FS_RemoveElement
<1>8. IsFiniteSet(T) /\ Cardinality(T) = Cardinality(Sessions) - 2
  <2>1. v \in Sessions
    BY DEF TypeOK
  <2>2. /\ IsFiniteSet(Sessions \ {v})
        /\ Cardinality(Sessions \ {v}) = Cardinality(Sessions) - 1
    BY <2>1, FS_RemoveElement, SessionsAssumption
  <2>3. x \in Sessions \ {v}
    BY <1>4
  <2>4. /\ IsFiniteSet(T)
        /\ Cardinality(T) = Cardinality(Sessions \ {v}) - 1
    BY <2>2, <2>3, FS_RemoveElement
  <2>5. Cardinality(Sessions) \in Nat
    BY FS_CardinalityType, SessionsAssumption
  <2>6. QED
    BY <2>2, <2>4, <2>5
<1>9. Cardinality(T) < Cardinality(S)
  <2>1. Cardinality(Sessions) \in Nat
    BY FS_CardinalityType, SessionsAssumption
  <2>2. QED
    BY <2>1, <1>7, <1>8, SessionsAssumption, BufferSizeAssumption
<1>10. \A i \in S : f[i] = ring[l][i]
  OBVIOUS
<1>11. \E i, k \in S : i # k /\ f[i] = f[k]
  <2> HIDE DEF S, T, f
  <2> QED
    BY ONLY <1>6, <1>7, <1>8, <1>9, FS_PigeonHole
<1>12. QED
  BY <1>5, <1>10, <1>11 DEF SessionsConserved

\* The failing branch of a push is unreachable: after the swap the producer's
\* lane is empty, hence not full.
LEMMA PushNeverFails ==
  ASSUME TypeOK, ProducerInv, ppc = "recheck"
  PROVE  next(head[PushLane]) # tail[PushLane]
<1>1. head[PushLane] \in Slots
  BY LaneType DEF TypeOK
<1>2. head[PushLane] = tail[PushLane]
  BY DEF ProducerInv
<1>3. QED
  BY <1>1, <1>2, NextLemma

-----------------------------------------------------------------------------
(* The inductive step, one conjunct of IndInv at a time *)

\* The constructed queue satisfies the inductive invariant.
LEMMA IndInit == Init => IndInv
<1> SUFFICES ASSUME Init PROVE IndInv
  OBVIOUS
<1>1. TypeOK
  BY TypeInit
<1>2. \A l \in Lanes : Occupied(l) = {}
  BY <1>1, BetweenEmpty DEF Occupied, Init, TypeOK
<1>3. Content(0) = {} /\ Content(1) = {}
  BY <1>2 DEF Content, Lanes
<1>4. SessionsConserved
  BY <1>2, <1>3 DEF SessionsConserved, Init
<1>5. ProducerInv /\ ConsumerInv
  BY DEF Init, ProducerInv, ConsumerInv
<1>6. QED
  BY <1>1, <1>4, <1>5 DEF IndInv

\* Every step keeps the types; a pop returns a session, not a stale slot.
LEMMA TypeStep == IndInv /\ [Next]_vars => TypeOK'
<1> SUFFICES ASSUME IndInv, [Next]_vars PROVE TypeOK'
  OBVIOUS
<1>z. 0 \in Slots /\ 0 \in 0 .. (SwitchWidth - 1)
  BY BufferSizeAssumption, SwitchWidthAssumption DEF Slots
<1>t. TypeOK /\ SessionsConserved /\ ConsumerInv
  BY DEF IndInv
<1>l. PushLane \in Lanes /\ PopLane \in Lanes
  BY <1>t, LaneType
<1> USE DEF TypeOK, ProdStates, ConsStates, prodVars, consVars
<1>1. CASE ConstructorDone
  BY <1>t, <1>1 DEF ConstructorDone
<1>2. ASSUME NEW s \in Sessions, PushCall(s) PROVE TypeOK'
  BY <1>t, <1>2 DEF PushCall
<1>3. CASE PushCheck
  BY <1>t, <1>3, <1>l, <1>z DEF PushCheck, PushDone
<1>4. CASE PushWrite
  BY <1>t, <1>4, <1>l DEF PushWrite
<1>5. CASE PushPublish
  BY <1>t, <1>5, <1>l, <1>z, NextLemma DEF PushPublish, PushDone
<1>6. CASE PushSwitch
  BY <1>t, <1>6, BumpLemma DEF PushSwitch
<1>7. CASE PushReload
  BY <1>t, <1>7 DEF PushReload
<1>8. CASE PopCall
  BY <1>t, <1>8 DEF PopCall
<1>9. CASE PopCheck
  BY <1>t, <1>9, <1>l, <1>z DEF PopCheck, PopDone
<1>10. CASE PopRead
  BY <1>t, <1>10, <1>l DEF PopRead
<1>11. CASE PopAdvance
  <2>1. ctail = tail[PopLane] /\ ctail # head[PopLane] /\ cval = ring[PopLane][ctail]
    BY <1>t, <1>11 DEF PopAdvance, ConsumerInv
  <2>2. ctail \in Occupied(PopLane)
    BY <1>t, <1>l, <2>1, BetweenPop DEF Occupied
  <2>3. cval \in Sessions
    BY <1>t, <1>l, <2>1, <2>2, OccupiedHoldsSession
  <2>4. QED
    BY <1>t, <1>11, <1>l, <1>z, <2>3, NextLemma DEF PopAdvance, PopDone
<1>12. CASE PopSwitch
  BY <1>t, <1>12, BumpLemma DEF PopSwitch
<1>13. CASE PopReload
  BY <1>t, <1>13 DEF PopReload
<1>14. CASE UNCHANGED vars
  BY <1>t, <1>14 DEF vars
<1>15. QED
  BY <1>1, <1>2, <1>3, <1>4, <1>5, <1>6, <1>7, <1>8, <1>9, <1>10, <1>11,
     <1>12, <1>13, <1>14 DEF Next, PushStep, PopStep

\* A step that leaves the lanes and the held sessions alone conserves them.
LEMMA ConservedFrame ==
  ASSUME SessionsConserved, UNCHANGED <<head, tail, ring, held>>
  PROVE  SessionsConserved'
  BY DEF SessionsConserved, Content, Occupied

\* No step loses or duplicates a session.
LEMMA ConservedStep == IndInv /\ [Next]_vars => SessionsConserved'
<1> SUFFICES ASSUME IndInv, [Next]_vars PROVE SessionsConserved'
  OBVIOUS
<1>t. TypeOK /\ SessionsConserved /\ ProducerInv /\ ConsumerInv
  BY DEF IndInv
<1>l. PushLane \in Lanes /\ PopLane \in Lanes
  BY <1>t, LaneType
<1>1. CASE UNCHANGED <<head, tail, ring, held>>
  BY <1>1, <1>t, ConservedFrame
<1>2. CASE PushCheck
  <2>1. ~(next(head[PushLane]) = tail[PushLane] /\ ppc = "recheck")
    BY <1>t, PushNeverFails
  <2>2. QED
    BY <1>1, <1>2, <2>1 DEF PushCheck
<1>3. CASE PushWrite
  <2>1. phead = head[PushLane] /\ phead \in Slots /\ phead \notin Occupied(PushLane)
    BY <1>3, <1>t, <1>l, BetweenPush DEF PushWrite, ProducerInv, Occupied, TypeOK
  <2>2. \A l \in Lanes : Occupied(l)' = Occupied(l)
    BY <1>3 DEF PushWrite, Occupied
  <2>3. \A l \in Lanes : \A i \in Occupied(l) : ring'[l][i] = ring[l][i]
    BY <1>3, <1>t, <1>l, <2>1 DEF PushWrite, TypeOK, Occupied, Between
  <2>4. Content(0)' = Content(0) /\ Content(1)' = Content(1)
    BY <2>2, <2>3 DEF Content, Lanes
  <2>5. held' = held
    BY <1>3 DEF PushWrite
  <2>6. QED
    BY <1>t, <2>2, <2>3, <2>4, <2>5 DEF SessionsConserved
<1>4. CASE PushPublish
  <2>0. PICK p \in Lanes : p = PushLane
    BY <1>l
  <2>1. /\ phead = head[p] /\ phead \in Slots /\ next(phead) # tail[p]
        /\ ring[p][phead] = pval /\ pval \in held
    BY <1>4, <1>t, <2>0 DEF PushPublish, ProducerInv, TypeOK
  <2>2. /\ Occupied(p)' = Occupied(p) \cup {phead}
        /\ phead \notin Occupied(p)
        /\ \A l \in Lanes \ {p} : Occupied(l)' = Occupied(l)
    BY <1>4, <1>t, <2>0, <2>1, BetweenPush DEF PushPublish, Occupied, TypeOK
  <2>3. ring' = ring /\ held' = held \ {pval}
    BY <1>4 DEF PushPublish
  <2>4. \A l \in Lanes : \A i \in Occupied(l)' :
           IF l = p /\ i = phead THEN ring[l][i] = pval ELSE i \in Occupied(l)
    BY <2>1, <2>2
  <2>5. \A l \in Lanes : Occupied(l) \subseteq Occupied(l)'
    BY <2>2
  <2>6. \A l \in Lanes : Content(l)' = IF l = p THEN Content(l) \cup {pval}
                                             ELSE Content(l)
    BY <2>1, <2>2, <2>3 DEF Content
  <2>7. held' \cup Content(0)' \cup Content(1)' = Sessions
    BY <1>t, <2>1, <2>3, <2>6 DEF SessionsConserved, Lanes
  <2>8. \A l \in Lanes : \A i \in Occupied(l)' : ring'[l][i] \notin held'
    BY <1>t, <2>3, <2>4 DEF SessionsConserved
  <2>9. \A k, l \in Lanes : \A i \in Occupied(k)', j \in Occupied(l)' :
          ring'[k][i] = ring'[l][j] => k = l /\ i = j
    BY <1>t, <2>1, <2>3, <2>4 DEF SessionsConserved
  <2>10. QED
    BY <2>7, <2>8, <2>9 DEF SessionsConserved
<1>5. CASE PopAdvance
  <2>0. PICK c \in Lanes : c = PopLane
    BY <1>l
  <2>1. /\ ctail = tail[c] /\ ctail # head[c] /\ ctail \in Slots
        /\ cval = ring[c][ctail]
    BY <1>5, <1>t, <2>0 DEF PopAdvance, ConsumerInv, TypeOK
  <2>2. /\ Occupied(c)' = Occupied(c) \ {ctail}
        /\ ctail \in Occupied(c)
        /\ \A l \in Lanes \ {c} : Occupied(l)' = Occupied(l)
    BY <1>5, <1>t, <2>0, <2>1, BetweenPop DEF PopAdvance, Occupied, TypeOK
  <2>3. ring' = ring /\ held' = held \cup {cval}
    BY <1>5 DEF PopAdvance
  <2>4. \A l \in Lanes : \A i \in Occupied(l)' :
           i \in Occupied(l) /\ ~(l = c /\ i = ctail)
    BY <2>2
  <2>5. \A l \in Lanes : Content(l) = IF l = c THEN Content(l)' \cup {cval}
                                            ELSE Content(l)'
    BY <2>1, <2>2, <2>3 DEF Content
  <2>6. held' \cup Content(0)' \cup Content(1)' = Sessions
    BY <1>t, <2>3, <2>5 DEF SessionsConserved, Lanes
  <2>7. \A l \in Lanes : \A i \in Occupied(l)' : ring'[l][i] \notin held'
    BY <1>t, <2>1, <2>2, <2>3, <2>4 DEF SessionsConserved
  <2>8. \A k, l \in Lanes : \A i \in Occupied(k)', j \in Occupied(l)' :
          ring'[k][i] = ring'[l][j] => k = l /\ i = j
    BY <1>t, <2>3, <2>4 DEF SessionsConserved
  <2>9. QED
    BY <2>6, <2>7, <2>8 DEF SessionsConserved
<1>6. QED
  BY <1>1, <1>2, <1>3, <1>4, <1>5
  DEF Next, PushStep, PopStep, ConstructorDone, PushCall, PushSwitch,
      PushReload, PopCall, PopCheck, PopRead, PopSwitch, PopReload, vars

\* What the producer knows survives every step: the consumer only takes
\* sessions out, moves tail away from a full lane and never stores head.
LEMMA ProducerStep == IndInv /\ [Next]_vars => ProducerInv'
<1> SUFFICES ASSUME IndInv, [Next]_vars PROVE ProducerInv'
  OBVIOUS
<1>t. TypeOK /\ SessionsConserved /\ ProducerInv /\ ConsumerInv
  BY DEF IndInv
<1>l. PushLane \in Lanes /\ PopLane \in Lanes /\ 1 - PushLane \in Lanes
  BY <1>t, LaneType DEF Lanes
<1>1. CASE ConstructorDone
  BY <1>t, <1>1 DEF ConstructorDone, ProducerInv, PushLane, prodVars
<1>2. ASSUME NEW s \in Sessions, PushCall(s) PROVE ProducerInv'
  BY <1>t, <1>2 DEF PushCall, ProducerInv
<1>3. CASE PushCheck
  <2>1. ~(next(head[PushLane]) = tail[PushLane] /\ ppc = "recheck")
    BY <1>t, PushNeverFails
  <2>2. next(head[PushLane]) = tail[PushLane]
           => head[1 - PushLane] = tail[1 - PushLane]
    BY <1>3, <1>t, <1>l, FullLaneHoldsAll DEF PushCheck, ProducerInv
  <2>3. QED
    BY <1>t, <1>3, <2>1, <2>2 DEF PushCheck, ProducerInv, PushLane
<1>4. CASE PushWrite
  BY <1>t, <1>4, <1>l DEF PushWrite, ProducerInv, PushLane, TypeOK
<1>5. CASE PushPublish
  BY <1>5 DEF PushPublish, PushDone, ProducerInv
<1>6. CASE PushSwitch
  <2>1. CASE laneSwitch = pcur
    <3>1. PushLane' = 1 - PushLane
      BY <1>t, <1>6, <2>1, BumpLemma DEF PushSwitch, PushLane, TypeOK
    <3>2. QED
      BY <1>t, <1>6, <2>1, <3>1 DEF PushSwitch, ProducerInv
  <2>2. CASE laneSwitch # pcur
    BY <1>t, <1>6, <2>2 DEF PushSwitch, ProducerInv
  <2>3. QED
    BY <2>1, <2>2
<1>7. CASE PushReload
  BY <1>t, <1>7 DEF PushReload, ProducerInv
<1>8. CASE PopAdvance
  <2>1. /\ ctail = tail[PopLane] /\ ctail # head[PopLane]
        /\ ctail \in Slots
    BY <1>8, <1>t DEF PopAdvance, ConsumerInv, TypeOK
  <2>2. /\ tail' = [tail EXCEPT ![PopLane] = next(ctail)]
        /\ head' = head /\ ring' = ring /\ held' = held \cup {cval}
        /\ UNCHANGED prodVars
    BY <1>8 DEF PopAdvance
  <2>3. PushLane' = PushLane
    BY <2>2 DEF PushLane, prodVars
  <2>4. ppc \in {"write", "publish"} => next(phead) # tail'[PushLane]
    <3> SUFFICES ASSUME ppc \in {"write", "publish"}
                 PROVE  next(phead) # tail'[PushLane]
      OBVIOUS
    <3>1. phead = head[PushLane] /\ phead \in Slots /\ next(phead) # tail[PushLane]
      BY <1>t DEF ProducerInv, TypeOK
    <3>2. CASE PushLane = PopLane
      <4>1. tail'[PushLane] = next(ctail)
        BY <1>t, <1>l, <2>2, <3>2 DEF TypeOK
      <4>2. next(phead) # next(ctail)
        BY <2>1, <3>1, <3>2, NextLemma, BufferSizeAssumption DEF Slots
      <4>3. QED
        BY <4>1, <4>2
    <3>3. CASE PushLane # PopLane
      BY <1>t, <1>l, <2>2, <3>1, <3>3 DEF TypeOK
    <3>4. QED
      BY <3>2, <3>3
  <2>5. \A l \in Lanes : head[l] = tail[l] => tail'[l] = tail[l]
    BY <1>t, <1>l, <2>1, <2>2 DEF TypeOK
  <2>6. QED
    BY <1>t, <1>l, <2>2, <2>3, <2>4, <2>5 DEF ProducerInv, prodVars
<1>9. CASE UNCHANGED <<head, tail, ring, held, prodVars>>
  BY <1>t, <1>9 DEF ProducerInv, PushLane, prodVars
<1>10. QED
  BY <1>1, <1>2, <1>3, <1>4, <1>5, <1>6, <1>7, <1>8, <1>9
  DEF Next, PushStep, PopStep, PopCall, PopCheck, PopRead, PopSwitch,
      PopReload, vars

\* What the consumer knows survives every step: the producer only fills free
\* slots, moves head away from an empty lane and never stores tail.
LEMMA ConsumerStep == IndInv /\ [Next]_vars => ConsumerInv'
<1> SUFFICES ASSUME IndInv, [Next]_vars PROVE ConsumerInv'
  OBVIOUS
<1>t. TypeOK /\ SessionsConserved /\ ProducerInv /\ ConsumerInv
  BY DEF IndInv
<1>l. PushLane \in Lanes /\ PopLane \in Lanes /\ 1 - PopLane \in Lanes
  BY <1>t, LaneType DEF Lanes
<1>1. CASE PopCall
  <2>1. \A l \in Lanes : Occupied(l) = {} <=> tail[l] = head[l]
    BY <1>t, BetweenEmpty DEF Occupied, TypeOK
  <2>2. emptyAtPop' = FALSE => \E l \in Lanes : head[l] # tail[l]
    BY <1>1, <2>1 DEF PopCall
  <2>3. cpc' = "check" /\ head' = head /\ tail' = tail
    BY <1>1 DEF PopCall
  <2>4. QED
    BY <2>2, <2>3 DEF ConsumerInv
<1>2. CASE PopCheck
  <2>1. PopLane' = PopLane \/ cpc' = "idle"
    BY <1>2 DEF PopCheck, PopDone, PopLane
  <2>2. CASE tail[PopLane] = head[PopLane] /\ cpc = "recheck"
    BY <1>2, <2>2 DEF PopCheck, PopDone, ConsumerInv
  <2>3. CASE tail[PopLane] # head[PopLane]
    BY <1>t, <1>2, <2>1, <2>3 DEF PopCheck, PopLane, ConsumerInv
  <2>4. CASE tail[PopLane] = head[PopLane] /\ cpc = "check"
    <3>1. ~emptyAtPop => head[1 - PopLane] # tail[1 - PopLane]
      BY <1>t, <1>l, <2>4 DEF ConsumerInv, Lanes
    <3>2. QED
      BY <1>t, <1>2, <2>4, <3>1 DEF PopCheck, PopLane, ConsumerInv
  <2>5. QED
    BY <1>2, <2>2, <2>3, <2>4 DEF PopCheck
<1>3. CASE PopRead
  BY <1>t, <1>3 DEF PopRead, PopLane, ConsumerInv
<1>4. CASE PopAdvance
  BY <1>4 DEF PopAdvance, PopDone, ConsumerInv
<1>5. CASE PopSwitch
  <2>1. CASE laneSwitch = ccur
    <3>1. PopLane' = 1 - PopLane
      BY <1>t, <1>5, <2>1, BumpLemma DEF PopSwitch, PopLane, TypeOK
    <3>2. QED
      BY <1>t, <1>5, <2>1, <3>1 DEF PopSwitch, ConsumerInv
  <2>2. CASE laneSwitch # ccur
    BY <1>t, <1>5, <2>2 DEF PopSwitch, ConsumerInv
  <2>3. QED
    BY <2>1, <2>2
<1>6. CASE PopReload
  BY <1>t, <1>6 DEF PopReload, ConsumerInv
<1>7. CASE PushWrite
  <2>1. phead = head[PushLane] /\ phead \in Slots
    BY <1>7, <1>t DEF PushWrite, ProducerInv, TypeOK
  <2>2. cpc = "advance" => ~(PopLane = PushLane /\ ctail = phead)
    BY <1>t, <2>1 DEF ConsumerInv
  <2>3. cpc = "advance" => ring'[PopLane][ctail] = ring[PopLane][ctail]
    BY <1>t, <1>l, <1>7, <2>1, <2>2 DEF PushWrite, TypeOK
  <2>4. QED
    BY <1>t, <1>7, <2>3 DEF PushWrite, ConsumerInv, PopLane, consVars
<1>8. CASE PushPublish
  <2>1. /\ phead = head[PushLane] /\ phead \in Slots
        /\ next(phead) # tail[PushLane]
    BY <1>8, <1>t DEF PushPublish, ProducerInv, TypeOK
  <2>2. /\ head' = [head EXCEPT ![PushLane] = next(phead)]
        /\ tail' = tail /\ ring' = ring /\ emptyAtPop' = emptyAtPop
        /\ UNCHANGED consVars
    BY <1>8 DEF PushPublish
  <2>3. \A l \in Lanes : head[l] # tail[l] => head'[l] # tail'[l]
    BY <1>t, <1>l, <2>1, <2>2 DEF TypeOK
  <2>4. PopLane' = PopLane
    BY <2>2 DEF PopLane, consVars
  <2>5. QED
    BY <1>t, <1>l, <2>2, <2>3, <2>4 DEF ConsumerInv, consVars
<1>9. CASE UNCHANGED <<head, tail, ring, emptyAtPop, consVars>>
  BY <1>t, <1>9 DEF ConsumerInv, PopLane, consVars
<1>10. QED
  BY <1>1, <1>2, <1>3, <1>4, <1>5, <1>6, <1>7, <1>8, <1>9
  DEF Next, PushStep, PopStep, ConstructorDone, PushCall, PushCheck,
      PushSwitch, PushReload, vars

-----------------------------------------------------------------------------
(* The theorems *)

\* The inductive invariant holds in every reachable state.
THEOREM Inductive == Spec => []IndInv
<1>1. Init => IndInv
  BY IndInit
<1>2. IndInv /\ [Next]_vars => IndInv'
  BY TypeStep, ConservedStep, ProducerStep, ConsumerStep DEF IndInv
<1>3. QED
  BY <1>1, <1>2, PTL DEF Spec

\* Indices stay inside the ring, laneSwitch inside size_t, and only sessions
\* leave the pool.
THEOREM TypeCorrect == Spec => []TypeOK
<1>1. IndInv => TypeOK
  BY DEF IndInv
<1>2. QED
  BY <1>1, Inductive, PTL

\* No interleaving of push and pop loses or duplicates a session.
THEOREM Conservation == Spec => []SessionsConserved
<1>1. IndInv => SessionsConserved
  BY DEF IndInv
<1>2. QED
  BY <1>1, Inductive, PTL

\* The plain accesses to a slot never race.
THEOREM RaceFreedom == Spec => []NoSlotRace
<1>1. IndInv => NoSlotRace
  BY DEF IndInv, ProducerInv, ConsumerInv, NoSlotRace
<1>2. QED
  BY <1>1, Inductive, PTL

\* A swap caused by a full lane always finds the other lane empty.
THEOREM SwapFindsRoom == Spec => []SpareLaneEmpty
<1>1. IndInv => SpareLaneEmpty
  BY LaneType, BetweenEmpty
  DEF IndInv, ProducerInv, SpareLaneEmpty, Occupied, TypeOK
<1>2. QED
  BY <1>1, Inductive, PTL

\* A swap caused by an empty lane finds a session if there was one at the call.
THEOREM SwapFindsSession == Spec => []NoFalseEmpty
<1>1. IndInv => NoFalseEmpty
  BY LaneType, BetweenEmpty
  DEF IndInv, ConsumerInv, NoFalseEmpty, Occupied, TypeOK
<1>2. QED
  BY <1>1, Inductive, PTL
-----------------------------------------------------------------------------
(* Refinement *)

\* The abstract pool is unchanged by a step that leaves the lanes alone.
LEMMA PoolFrame ==
  ASSUME UNCHANGED <<head, tail, ring>>
  PROVE  (Content(0) \cup Content(1))' = Content(0) \cup Content(1)
  BY DEF Content, Occupied

\* A pushed session joins the abstract pool at the store of head.
LEMMA PushPublishRefines ==
  ASSUME IndInv, PushPublish
  PROVE  \E s \in Sessions : Pool!Push(s)
<1>t. TypeOK /\ SessionsConserved /\ ProducerInv
  BY DEF IndInv
<1>0. PICK p \in Lanes : p = PushLane
  BY <1>t, LaneType
<1>1. /\ phead = head[p] /\ phead \in Slots /\ next(phead) # tail[p]
      /\ ring[p][phead] = pval /\ pval \in held /\ pval \in Sessions
  BY <1>0, <1>t DEF PushPublish, ProducerInv, TypeOK
<1>2. /\ Occupied(p)' = Occupied(p) \cup {phead}
      /\ \A l \in Lanes \ {p} : Occupied(l)' = Occupied(l)
  BY <1>t, <1>0, <1>1, BetweenPush DEF PushPublish, Occupied, TypeOK
<1>3. \A l \in Lanes : Content(l)' = IF l = p THEN Content(l) \cup {pval}
                                             ELSE Content(l)
  BY <1>1, <1>2 DEF Content, PushPublish
<1>4. (Content(0) \cup Content(1))' = Content(0) \cup Content(1) \cup {pval}
  BY <1>3 DEF Lanes
<1>5. cpc' = cpc /\ emptyAtPop' = emptyAtPop /\ held' = held \ {pval}
  BY DEF PushPublish, consVars
<1>6. Pool!Push(pval)
  BY <1>1, <1>4, <1>5 DEF Pool!Push
<1>7. QED
  BY <1>1, <1>6

\* A popped session leaves the abstract pool at the store of tail.
LEMMA PopAdvanceRefines ==
  ASSUME IndInv, PopAdvance
  PROVE  \E s \in Sessions : Pool!PopReturn(s)
<1>t. TypeOK /\ SessionsConserved /\ ConsumerInv
  BY DEF IndInv
<1>0. PICK c \in Lanes : c = PopLane
  BY <1>t, LaneType
<1>1. /\ ctail = tail[c] /\ ctail # head[c] /\ ctail \in Slots
      /\ cval = ring[c][ctail]
  BY <1>0, <1>t DEF PopAdvance, ConsumerInv, TypeOK
<1>2. /\ Occupied(c)' = Occupied(c) \ {ctail}
      /\ ctail \in Occupied(c)
      /\ \A l \in Lanes \ {c} : Occupied(l)' = Occupied(l)
  BY <1>t, <1>0, <1>1, BetweenPop DEF PopAdvance, Occupied, TypeOK
<1>3. cval \in Sessions
  BY <1>t, <1>1, <1>2, OccupiedHoldsSession
<1>4. \A l \in Lanes : Content(l)' = IF l = c THEN Content(l) \ {cval}
                                             ELSE Content(l)
  BY <1>t, <1>0, <1>1, <1>2 DEF Content, PopAdvance, SessionsConserved
<1>5. \A l \in Lanes : cval \in Content(l) <=> l = c
  BY <1>t, <1>1, <1>2 DEF Content, SessionsConserved
<1>6. /\ (Content(0) \cup Content(1))' = (Content(0) \cup Content(1)) \ {cval}
      /\ cval \in Content(0) \cup Content(1)
  BY <1>4, <1>5 DEF Lanes
<1>7. /\ cpc = "advance" /\ cpc' = "idle" /\ emptyAtPop' = emptyAtPop
      /\ held' = held \cup {cval}
  BY DEF PopAdvance, PopDone
<1>8. Pool!PopReturn(cval)
  BY <1>6, <1>7 DEF Pool!PopReturn
<1>9. QED
  BY <1>3, <1>8

\* A pop that gives up was called on an empty pool.
LEMMA PopCheckRefines ==
  ASSUME IndInv, PopCheck
  PROVE  Pool!PopFail \/ UNCHANGED Pool!vars
<1>t. TypeOK /\ ConsumerInv
  BY DEF IndInv
<1>1. (Content(0) \cup Content(1))' = Content(0) \cup Content(1)
  BY PoolFrame DEF PopCheck
<1>2. held' = held /\ emptyAtPop' = emptyAtPop
  BY DEF PopCheck
<1>3. CASE tail[PopLane] = head[PopLane] /\ cpc = "recheck"
  <2>1. emptyAtPop
    BY <1>t, <1>3 DEF ConsumerInv
  <2>2. cpc # "idle" /\ cpc' = "idle"
    BY <1>3 DEF PopCheck, PopDone
  <2>3. QED
    BY <1>1, <1>2, <2>1, <2>2 DEF Pool!PopFail
<1>4. CASE ~(tail[PopLane] = head[PopLane] /\ cpc = "recheck")
  <2>1. cpc # "idle" /\ cpc' # "idle"
    BY <1>4 DEF PopCheck
  <2>2. QED
    BY <1>1, <1>2, <2>1 DEF Pool!vars
<1>5. QED
  BY <1>3, <1>4

\* A pop is called on the abstract pool when laneSwitch is first loaded.
LEMMA PopCallRefines ==
  ASSUME IndInv, PopCall
  PROVE  Pool!PopCall
<1>1. (Content(0) \cup Content(1))' = Content(0) \cup Content(1)
  BY PoolFrame DEF PopCall
<1>2. (\A l \in Lanes : Occupied(l) = {}) <=> Content(0) \cup Content(1) = {}
  BY DEF Content, Lanes
<1>3. cpc = "idle" /\ cpc' = "check" /\ held' = held
  BY DEF PopCall
<1>4. emptyAtPop' = (Content(0) \cup Content(1) = {})
  BY <1>2 DEF PopCall
<1>5. QED
  BY <1>1, <1>3, <1>4 DEF Pool!PopCall

\* The two-lane queue implements the session pool: every push succeeds and a
\* pop fails only when it was called on an empty pool.
THEOREM Refinement == Spec => ImplementsPool
<1>1. Init => Pool!Init
  <2> SUFFICES ASSUME Init PROVE Pool!Init
    OBVIOUS
  <2>1. \A l \in Lanes : Occupied(l) = {}
    BY TypeInit, BetweenEmpty DEF Occupied, Init, TypeOK
  <2>2. Content(0) \cup Content(1) = {}
    BY <2>1 DEF Content, Lanes
  <2>3. QED
    BY <2>2 DEF Init, Pool!Init
<1>2. IndInv /\ [Next]_vars => [Pool!Next]_(Pool!vars)
  <2> SUFFICES ASSUME IndInv, [Next]_vars PROVE [Pool!Next]_(Pool!vars)
    OBVIOUS
  <2>1. CASE PushPublish
    BY <2>1, PushPublishRefines DEF Pool!Next
  <2>2. CASE PopAdvance
    BY <2>2, PopAdvanceRefines DEF Pool!Next
  <2>3. CASE PopCheck
    BY <2>3, PopCheckRefines DEF Pool!Next
  <2>4. CASE PopCall
    BY <2>4, PopCallRefines DEF Pool!Next
  <2>5. CASE PushWrite
    <3>1. \A l \in Lanes : Content(l)' = Content(l)
      <4>1. TypeOK /\ ProducerInv
        BY DEF IndInv
      <4>2. /\ PushLane \in Lanes /\ phead \in Slots
            /\ phead \notin Occupied(PushLane)
        BY <2>5, <4>1, LaneType, BetweenPush
        DEF PushWrite, ProducerInv, Occupied, TypeOK
      <4>3. \A l \in Lanes : Occupied(l)' = Occupied(l)
        BY <2>5 DEF PushWrite, Occupied
      <4>4. \A l \in Lanes : \A i \in Occupied(l) : ring'[l][i] = ring[l][i]
        BY <2>5, <4>1, <4>2 DEF PushWrite, TypeOK, Occupied, Between
      <4>5. QED
        BY <4>3, <4>4 DEF Content
    <3>2. (Content(0) \cup Content(1))' = Content(0) \cup Content(1)
      BY <3>1 DEF Lanes
    <3>3. QED
      BY <2>5, <3>2 DEF PushWrite, Pool!vars, consVars
  <2>6. CASE /\ UNCHANGED <<head, tail, ring, held, emptyAtPop>>
             /\ (cpc' = "idle" <=> cpc = "idle")
    BY <2>6, PoolFrame DEF Pool!vars
  <2>7. CASE PushCheck
    <3>1. ~(next(head[PushLane]) = tail[PushLane] /\ ppc = "recheck")
      BY PushNeverFails DEF IndInv
    <3>2. QED
      BY <2>6, <2>7, <3>1 DEF PushCheck, consVars
  <2>8. QED
    BY <2>1, <2>2, <2>3, <2>4, <2>5, <2>6, <2>7
    DEF Next, PushStep, PopStep, ConstructorDone, PushCall, PushSwitch,
        PushReload, PopRead, PopSwitch, PopReload, vars, consVars
<1>3. QED
  BY <1>1, <1>2, Inductive, PTL DEF Spec, ImplementsPool, Pool!Spec
=============================================================================
