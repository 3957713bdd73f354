--------------------------- MODULE MCLFSPSCQueue ---------------------------
(***************************************************************************)
(* LFSPSCQueue for TLC: as many sessions as slots of one lane, as in the   *)
(* ServerThread constructor, so that a lane can be full.                   *)
(***************************************************************************)
EXTENDS LFSPSCQueue

\* The slots whose content a later step can observe: the occupied ones and
\* the one written but not yet published.
LiveRing ==
    [l \in Lanes |-> [i \in Slots |->
        IF i \in Occupied(l) \/ (ppc = "publish" /\ l = PushLane /\ i = phead)
        THEN ring[l][i]
        ELSE NoSession]]

\* States that differ only in the stale content of free slots are the same.
LiveView == <<laneSwitch, head, tail, LiveRing, prodVars, consVars, held, built,
              emptyAtPop>>
=============================================================================
