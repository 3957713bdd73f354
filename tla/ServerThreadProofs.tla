------------------------- MODULE ServerThreadProofs -------------------------
(***************************************************************************)
(* Proofs about a worker and its listener, for every number of sessions,   *)
(* sockets and failing calls and for everything that clients may send, as  *)
(* long as no call of process reads as much as EPOLL_READ_THRESHOLD.  A    *)
(* session that has read so much is called again from the backlog, where   *)
(* it may fail while the epoll loop fails it as well.                      *)
(***************************************************************************)
EXTENDS ServerThread, FiniteSetTheorems, SequenceTheorems, WellFoundedInduction, TLAPS

\* No call has stopped to read at the threshold.
BelowThreshold == ~call.aborted

-----------------------------------------------------------------------------
(* Types *)

SessionState == [socket : Fds \cup {NoFd}, state : Reading \cup Writing,
                 req : {"READY_STATE", "PARSING_DATA"}, in : Seq(Units),
                 out : Nat, flags : SUBSET {"IN"}]
SocketState == [open : BOOLEAN, ptr : Sessions \cup {NoSession}, plan : Seq(Units),
                inq : Seq(Units), peer : {"open", "fin", "rst", "gone"},
                room : 0 .. Room, edge : BOOLEAN, asked : Nat, answered : Nat]
CallState == [pc : {"none", "recv", "parse", "send", "out", "done"},
              s : Sessions \cup {NoSession}, ev : SUBSET Events, read : Nat,
              aborted : BOOLEAN, phase : {"in", "out"}, onSent : Results, res : Results]
WorkerState == [pc : {"backlog", "wait", "events"}, pos : Nat,
                batch : SUBSET [s : Sessions, ev : SUBSET Events]]

Types ==
    /\ sess \in [Sessions -> SessionState] /\ sock \in [Fds -> SocketState]
    /\ call \in CallState /\ worker \in WorkerState
    /\ pool \in [Sessions -> Nat] /\ backlog \in Seq(Sessions)
    /\ listener \in [s : Sessions \cup {NoSession}, fd : Fds \cup {NoFd}]
    /\ lost \subseteq Sessions /\ accepts \in Nat

-----------------------------------------------------------------------------
(* The inductive invariant *)

\* Session s is registered: its socket points back to it.
Registered(s) == sess[s].socket \in Fds /\ sock[sess[s].socket].ptr = s

\* A socket points to the session that uses it; the listener's socket is open
\* and points to none yet.
SocketInv ==
    /\ \A f \in Fds :
          /\ sock[f].ptr # NoSession => sess[sock[f].ptr].socket = f
          /\ sock[f].edge => sock[f].ptr # NoSession
          /\ sock[f].open <=> sock[f].peer # "gone"
          /\ ~sock[f].open => sock[f].ptr = NoSession
    /\ listener.s = NoSession <=> listener = Accepting
    /\ listener.fd \in Fds => /\ sock[listener.fd].open
                              /\ sock[listener.fd].ptr = NoSession
                              /\ sess[listener.s].socket = listener.fd
    /\ listener.s # NoSession => sess[listener.s].socket = listener.fd

\* A session is in the pool, with the listener, lost or registered.
PlaceInv ==
    \A s \in Sessions :
        /\ pool[s] = IF listener.s = s \/ s \in lost \/ Registered(s) THEN 0 ELSE 1
        /\ ~(listener.s = s /\ s \in lost)
        /\ Registered(s) => listener.s # s /\ s \notin lost

InBatch(s) == \E x \in worker.batch : x.s = s
InBacklog(s) == \E i \in 1 .. Len(backlog) : backlog[i] = s

\* The worker works on registered sessions, on each in one place.
WorkInv ==
    /\ call.pc = "none" <=> call.s = NoSession
    /\ call.pc = "none" => call = NotCalled
    /\ \A s \in Sessions : call.s = s \/ InBatch(s) \/ InBacklog(s) => Registered(s)
    /\ \A x \in worker.batch : /\ x.s # call.s /\ ~InBacklog(x.s) /\ x.ev # {}
                               /\ \A y \in worker.batch : x.s = y.s => x = y
    /\ \A i, j \in 1 .. Len(backlog) : backlog[i] = backlog[j] => i = j
    /\ worker.pc # "events" => worker.batch = {}
    /\ worker.pc = "wait" => backlog = <<>> /\ call.pc = "none"
    /\ worker.pos = 1
    /\ worker.pc = "backlog" /\ call.pc # "none" =>
          backlog # <<>> /\ call.s = backlog[1] /\ call.ev = {"IN"}
    /\ worker.pc = "events" => ~InBacklog(call.s)

\* Input, or room to write, has been noticed or will be announced by an edge.
SeenIn(f) == sock[f].inq # <<>> \/ sock[f].peer = "rst" => sock[f].edge
SeenOut(f) == sock[f].room > 0 => sock[f].edge

\* What a call of process on session x with socket f knows.
CallAt(c, x, f) ==
    /\ ~c.aborted /\ c.ev # {}
    /\ c.phase = "out" => "OUT" \in c.ev
    /\ c.phase = "in" => c.onSent = "SUCCESS"
    /\ c.pc \in {"recv", "parse"} => /\ "IN" \in c.ev /\ c.phase = "in" /\ c.res = "SUCCESS"
                                     /\ x.state \in Reading
    /\ c.pc = "parse" => SeenIn(f)
    /\ c.pc = "send" => /\ x.state \in Writing
                        /\ c.phase = "in" => "IN" \in c.ev
                        /\ c.onSent = "POSTPONED" \/ SeenIn(f)
                        /\ c.onSent # "FAILURE"
    /\ c.pc = "out" => /\ c.phase = "in"
                       /\ c.res = IF "IN" \in c.ev THEN "SUCCESS" ELSE "FAILURE"
                       /\ x.state # "WRITING_WITH_PENDING_READ" => SeenIn(f)
                       /\ "OUT" \notin c.ev /\ x.state \in Writing => SeenOut(f)
    /\ c.pc = "done" =>
          /\ c.res = "FAILURE" => sock[f].peer # "open"
          /\ c.res = "SUCCESS" => /\ x.state \in Reading => SeenIn(f)
                                  /\ x.state \in Writing => SeenOut(f)
          /\ c.res = "POSTPONED" => /\ x.flags = {"IN"} /\ x.state \in Reading
                                    /\ c.phase = "out"

\* An event that is not in the mask has not happened, or will be announced.
BatchInv ==
    \A x \in worker.batch : /\ "IN" \notin x.ev => SeenIn(sess[x.s].socket)
                            /\ "OUT" \notin x.ev => SeenOut(sess[x.s].socket)

\* A postponed session is to read.
BacklogInv ==
    \A i \in 1 .. Len(backlog) : backlog[i] # call.s =>
        sess[backlog[i]].flags = {"IN"} /\ sess[backlog[i]].state \in Reading

\* Nothing is to be done for the other sessions before the next edge.
QuietInv ==
    \A s \in Sessions :
        Registered(s) /\ call.s # s /\ ~InBatch(s) /\ ~InBacklog(s) =>
            /\ sess[s].state \in Reading => SeenIn(sess[s].socket)
            /\ sess[s].state \in Writing => SeenOut(sess[s].socket)

CallInv == call.pc # "none" => CallAt(call, sess[call.s], sess[call.s].socket)

ServerInv == /\ Types /\ SocketInv /\ PlaceInv /\ WorkInv
             /\ CallInv /\ BatchInv /\ BacklogInv /\ QuietInv /\ WritingHasReply

-----------------------------------------------------------------------------
(* What a step of one session leaves alone *)

\* Sockets and their sessions stay paired.
Paired ==
    /\ \A s \in Sessions : sess'[s].socket = sess[s].socket
    /\ \A f \in Fds : sock'[f].ptr = sock[f].ptr

\* As long as they do, the same sessions are registered.
LEMMA SameRegistered ==
    ASSUME Paired, NEW s \in Sessions
    PROVE  Registered(s)' = Registered(s)
BY DEF Paired, Registered

\* The socket of a registered session is no other session's.
LEMMA OwnSocket ==
    ASSUME NEW s \in Sessions, NEW u \in Sessions, Registered(s), Registered(u),
           sess[s].socket = sess[u].socket
    PROVE  s = u
BY DEF Registered

\* The socket of a registered session.
LEMMA ItsSocket ==
    ASSUME Types, NEW s \in Sessions, Registered(s)
    PROVE  /\ sess[s].socket \in Fds /\ sock[sess[s].socket] \in SocketState
           /\ sock[sess[s].socket].ptr # NoSession
BY SessionAssumption DEF Registered, Types

\* A client acts on socket f: what the worker knew of it still holds, because
\* news sets the edge.
LEMMA ClientFrame ==
    ASSUME ServerInv, NEW f \in Fds, NEW y \in SocketState,
           sock' = [sock EXCEPT ![f] = y],
           y.ptr = sock[f].ptr, y.open = sock[f].open, y.open <=> y.peer # "gone",
           y.edge => y.ptr # NoSession, sock[f].peer # "open" => y.peer # "open",
           y.ptr # NoSession => /\ SeenIn(f) => (y.inq # <<>> \/ y.peer = "rst" => y.edge)
                                /\ SeenOut(f) => (y.room > 0 => y.edge),
           UNCHANGED <<sess, call, workerVars, listenerVars>>
    PROVE  ServerInv'
<1> USE DEF ServerInv
<1>1. /\ UNCHANGED <<sess, call, pool, backlog, worker, listener, lost, accepts>>
      /\ sock \in [Fds -> SocketState] /\ sess \in [Sessions -> SessionState]
    BY DEF workerVars, listenerVars, Types
<1>2. sock'[f] = y /\ \A g \in Fds : g # f => sock'[g] = sock[g]
    BY <1>1
<1>3. Paired
    BY <1>1, <1>2 DEF Paired
<1>4. \A s \in Sessions : Registered(s)' = Registered(s)
    BY <1>3, SameRegistered
<1>5. ASSUME NEW s \in Sessions, Registered(s)
      PROVE  /\ SeenIn(sess[s].socket) => SeenIn(sess[s].socket)'
             /\ SeenOut(sess[s].socket) => SeenOut(sess[s].socket)'
             /\ sock[sess[s].socket].peer # "open" => sock'[sess[s].socket].peer # "open"
  <2>1. sess'[s].socket = sess[s].socket
      BY <1>1
  <2>2. CASE sess[s].socket = f
      BY <2>1, <2>2, <1>2, <1>5, ItsSocket DEF SeenIn, SeenOut
  <2>3. CASE sess[s].socket # f
      BY <2>1, <2>3, <1>2, <1>5, ItsSocket DEF SeenIn, SeenOut
  <2> QED
      BY <2>2, <2>3
<1>6. Types'
    BY <1>1 DEF Types
<1>7. SocketInv'
    BY <1>1, <1>2 DEF SocketInv, Types
<1>8. PlaceInv'
    BY <1>1, <1>4 DEF PlaceInv
<1>9. WorkInv'
    BY <1>1, <1>4 DEF WorkInv, InBatch, InBacklog
<1>10. CallInv'
  <2> SUFFICES ASSUME call.pc # "none"
               PROVE  CallAt(call, sess[call.s], sess[call.s].socket)'
      BY <1>1 DEF CallInv
  <2>1. call.s \in Sessions /\ Registered(call.s)
      BY DEF WorkInv, Types, CallState
  <2>2. CallAt(call, sess[call.s], sess[call.s].socket)
      BY DEF CallInv
  <2> QED
      BY <2>1, <2>2, <1>1, <1>5 DEF CallAt
<1>11. BatchInv'
  <2> SUFFICES ASSUME NEW x \in worker.batch
               PROVE  /\ "IN" \notin x.ev => SeenIn(sess[x.s].socket)'
                      /\ "OUT" \notin x.ev => SeenOut(sess[x.s].socket)'
      BY <1>1 DEF BatchInv
  <2>1. x.s \in Sessions /\ Registered(x.s)
      BY DEF WorkInv, InBatch, Types, WorkerState
  <2> QED
      BY <2>1, <1>5 DEF BatchInv
<1>12. BacklogInv'
    BY <1>1 DEF BacklogInv
<1>13. QuietInv'
    BY <1>1, <1>4, <1>5 DEF QuietInv, InBatch, InBacklog
<1>14. WritingHasReply'
    BY <1>1 DEF WritingHasReply
<1> QED
    BY <1>6, <1>7, <1>8, <1>9, <1>10, <1>11, <1>12, <1>13, <1>14

\* A step of process changes its session, its socket and the call; the other
\* sessions do not notice.
LEMMA CallFrame ==
    ASSUME ServerInv, NEW s \in Sessions, s = call.s, NEW f \in Fds, f = sess[s].socket,
           NEW x \in SessionState, sess' = [sess EXCEPT ![s] = x], x.socket = f,
           NEW y \in SocketState, sock' = [sock EXCEPT ![f] = y],
           y.ptr = sock[f].ptr, y.open = sock[f].open, y.edge = sock[f].edge,
           y.peer = sock[f].peer,
           NEW c \in CallState, call' = c, c.s = s, c.pc # "none", c.ev = call.ev,
           CallAt(c, x, f)', x.state \in Writing => x.out > 0 \/ c.pc = "send",
           UNCHANGED <<workerVars, listenerVars>>
    PROVE  ServerInv'
<1> USE DEF ServerInv
<1>1. /\ UNCHANGED <<pool, backlog, worker, listener, lost, accepts>>
      /\ sock \in [Fds -> SocketState] /\ sess \in [Sessions -> SessionState]
      /\ s # NoSession /\ call.pc # "none" /\ Registered(s)
    BY SessionAssumption DEF workerVars, listenerVars, Types, WorkInv
<1>2. sock'[f] = y /\ \A g \in Fds : g # f => sock'[g] = sock[g]
    BY <1>1
<1>3. sess'[s] = x /\ \A u \in Sessions : u # s => sess'[u] = sess[u]
    BY <1>1
<1>4. Paired
    BY <1>1, <1>2, <1>3 DEF Paired
<1>5. \A u \in Sessions : Registered(u)' = Registered(u)
    BY <1>4, SameRegistered
<1>6. ASSUME NEW u \in Sessions, Registered(u), u # s
      PROVE  /\ SeenIn(sess[u].socket)' = SeenIn(sess[u].socket)
             /\ SeenOut(sess[u].socket)' = SeenOut(sess[u].socket)
  <2>1. sess[u].socket # f
      BY <1>1, <1>6, OwnSocket
  <2>2. sess'[u].socket = sess[u].socket /\ sess[u].socket \in Fds
      BY <1>3, <1>6 DEF Registered
  <2> QED
      BY <2>1, <2>2, <1>2 DEF SeenIn, SeenOut
<1>7. Types'
    BY <1>1 DEF Types
<1>8. SocketInv'
  <2>1. ASSUME NEW g \in Fds
        PROVE  /\ sock'[g].ptr = sock[g].ptr /\ sock'[g].edge = sock[g].edge
               /\ sock'[g].open = sock[g].open /\ sock'[g].peer = sock[g].peer
      BY <1>2
  <2>2. \A g \in Fds : sock[g].ptr # NoSession => sock[g].ptr \in Sessions
      BY <1>1 DEF SocketState
  <2>3. listener.s # NoSession => listener.s \in Sessions
      BY DEF Types
  <2>4. listener.fd \in Fds => listener.s # NoSession
      BY SessionAssumption DEF SocketInv, Accepting
  <2> QED
      BY <2>1, <2>2, <2>3, <2>4, <1>1, <1>4 DEF SocketInv, Paired
<1>9. PlaceInv'
    BY <1>1, <1>5 DEF PlaceInv
<1>10. WorkInv'
    BY <1>1, <1>5 DEF WorkInv, InBatch, InBacklog
<1>11. CallInv'
    BY <1>3 DEF CallInv
<1>12. BatchInv'
  <2> SUFFICES ASSUME NEW b \in worker.batch
               PROVE  /\ "IN" \notin b.ev => SeenIn(sess[b.s].socket)'
                      /\ "OUT" \notin b.ev => SeenOut(sess[b.s].socket)'
      BY <1>1 DEF BatchInv
  <2>1. b.s \in Sessions /\ Registered(b.s) /\ b.s # s
      BY DEF WorkInv, InBatch, Types, WorkerState
  <2> QED
      BY <2>1, <1>6 DEF BatchInv
<1>13. BacklogInv'
  <2> SUFFICES ASSUME NEW i \in 1 .. Len(backlog), backlog[i] # s
               PROVE  sess'[backlog[i]].flags = {"IN"} /\ sess'[backlog[i]].state \in Reading
      BY <1>1 DEF BacklogInv
  <2>1. backlog[i] \in Sessions
      BY DEF Types
  <2> QED
      BY <2>1, <1>3 DEF BacklogInv
<1>14. QuietInv'
  <2> SUFFICES ASSUME NEW u \in Sessions, Registered(u), s # u, ~InBatch(u), ~InBacklog(u)
               PROVE  /\ sess'[u].state \in Reading => SeenIn(sess[u].socket)'
                      /\ sess'[u].state \in Writing => SeenOut(sess[u].socket)'
      BY <1>1, <1>5 DEF QuietInv, InBatch, InBacklog
  <2> QED
      BY <1>3, <1>6 DEF QuietInv
<1>15. WritingHasReply'
    BY <1>3, <1>1 DEF WritingHasReply
<1> QED
    BY <1>7, <1>8, <1>9, <1>10, <1>11, <1>12, <1>13, <1>14, <1>15

\* The session, the socket and the call that a step of process starts from.
LEMMA CallFacts ==
    ASSUME ServerInv, call.pc # "none"
    PROVE  /\ call \in CallState /\ call.s \in Sessions /\ call.s # NoSession
           /\ Registered(call.s) /\ Fd = sess[call.s].socket /\ Fd \in Fds
           /\ sess[call.s] \in SessionState /\ sock[Fd] \in SocketState
           /\ sess \in [Sessions -> SessionState] /\ sock \in [Fds -> SocketState]
           /\ Peer = sock[Fd].peer /\ Unread = sock[Fd].inq
           /\ CallAt(call, sess[call.s], Fd)
           /\ sess[call.s].state \in Writing => sess[call.s].out > 0 \/ call.pc = "send"
<1>1. call \in CallState /\ call.s \in Sessions /\ call.s # NoSession
    BY SessionAssumption DEF ServerInv, WorkInv, Types, CallState
<1>2. Registered(call.s)
    BY <1>1 DEF ServerInv, WorkInv
<1> QED
    BY <1>1, <1>2
    DEF ServerInv, CallInv, WritingHasReply, Registered, Types, Fd, Peer, Unread

\* A step of process without a call of recv or send.
LEMMA SessionFrame ==
    ASSUME ServerInv, call.pc # "none", UNCHANGED <<sock, workerVars, listenerVars>>,
           NEW x \in SessionState, sess' = [sess EXCEPT ![call.s] = x],
           x.socket = sess[call.s].socket,
           NEW c \in CallState, call' = c, c.s = call.s, c.pc # "none", c.ev = call.ev,
           CallAt(c, x, Fd), x.state \in Writing => x.out > 0 \/ c.pc = "send"
    PROVE  ServerInv'
<1>1. PICK s \in Sessions, f \in Fds : s = call.s /\ f = sess[s].socket /\ f = Fd
    BY CallFacts
<1>2. PICK y \in SocketState : y = sock[f] /\ sock' = [sock EXCEPT ![f] = y]
    BY <1>1, CallFacts
<1>3. CallAt(c, x, f)'
    BY <1>1 DEF CallAt, SeenIn, SeenOut
<1> QED
    BY <1>1, <1>2, <1>3, CallFrame

\* A step that changes nothing but the call.
LEMMA CallOnly ==
    ASSUME ServerInv, call.pc # "none", UNCHANGED <<sess, sock, workerVars, listenerVars>>,
           NEW c \in CallState, call' = c, c.s = call.s, c.pc # "none", c.ev = call.ev,
           CallAt(c, sess[call.s], Fd),
           sess[call.s].state \in Writing => sess[call.s].out > 0 \/ c.pc = "send"
    PROVE  ServerInv'
<1>1. PICK x \in SessionState : x = sess[call.s] /\ sess' = [sess EXCEPT ![call.s] = x]
    BY CallFacts
<1> QED
    BY <1>1, SessionFrame

-----------------------------------------------------------------------------
(* The steps of process *)

\* recv fails: the connection is not open any more.
LEMMA RecvFailsStep ==
    ASSUME ServerInv, RecvFails, UNCHANGED <<workerVars, listenerVars>>
    PROVE  ServerInv'
<1>1. /\ call.pc = "recv" /\ UNCHANGED <<sess, sock>> /\ sock[Fd].peer # "open"
      /\ call' = [call EXCEPT !.pc = "done", !.res = "FAILURE"]
    BY CallFacts DEF RecvFails, At, Return, Failing
<1>2. PICK c : c = [call EXCEPT !.pc = "done", !.res = "FAILURE"]
    OBVIOUS
<1>3. /\ c \in CallState /\ c.s = call.s /\ c.pc = "done" /\ c.res = "FAILURE"
      /\ c.ev = call.ev /\ c.phase = call.phase /\ c.onSent = call.onSent
      /\ c.aborted = call.aborted
    BY <1>1, <1>2, CallFacts DEF CallState, Results
<1>4. CallAt(c, sess[call.s], Fd)
    BY <1>1, <1>3, CallFacts DEF CallAt
<1> QED
    BY <1>1, <1>2, <1>3, <1>4, CallFacts, CallOnly

\* recv would block: there is nothing to read.
LEMMA RecvEndStep ==
    ASSUME ServerInv, RecvEnd, UNCHANGED <<workerVars, listenerVars>>
    PROVE  ServerInv'
<1>1. /\ call.pc = "recv" /\ UNCHANGED <<sess, sock>>
      /\ sock[Fd].inq = <<>> /\ sock[Fd].peer # "rst"
      /\ call' = [call EXCEPT !.pc = "parse"]
    BY CallFacts DEF RecvEnd, At, Failing
<1>2. PICK c : c = [call EXCEPT !.pc = "parse"]
    OBVIOUS
<1>3. /\ c \in CallState /\ c.s = call.s /\ c.pc = "parse" /\ c.res = call.res
      /\ c.ev = call.ev /\ c.phase = call.phase /\ c.onSent = call.onSent
      /\ c.aborted = call.aborted
    BY <1>1, <1>2, CallFacts DEF CallState
<1>4. CallAt(c, sess[call.s], Fd)
    BY <1>1, <1>3, CallFacts DEF CallAt, SeenIn
<1> QED
    BY <1>1, <1>2, <1>3, <1>4, CallFacts, CallOnly

\* send fails: the connection was reset.
LEMMA SendFailsStep ==
    ASSUME ServerInv, SendFails, UNCHANGED <<workerVars, listenerVars>>
    PROVE  ServerInv'
<1>1. /\ call.pc = "send" /\ UNCHANGED <<sess, sock>> /\ sock[Fd].peer # "open"
      /\ sess[call.s].out > 0
      /\ call' = [call EXCEPT !.pc = "done", !.res = "FAILURE"]
    BY CallFacts DEF SendFails, At, Return
<1>2. PICK c : c = [call EXCEPT !.pc = "done", !.res = "FAILURE"]
    OBVIOUS
<1>3. /\ c \in CallState /\ c.s = call.s /\ c.pc = "done" /\ c.res = "FAILURE"
      /\ c.ev = call.ev /\ c.phase = call.phase /\ c.onSent = call.onSent
      /\ c.aborted = call.aborted
    BY <1>1, <1>2, CallFacts DEF CallState, Results
<1>4. CallAt(c, sess[call.s], Fd)
    BY <1>1, <1>3, CallFacts DEF CallAt
<1> QED
    BY <1>1, <1>2, <1>3, <1>4, CallFacts, CallOnly

\* The send buffer is full: there is no room.
LEMMA SendBlocksStep ==
    ASSUME ServerInv, SendBlocks, UNCHANGED <<workerVars, listenerVars>>
    PROVE  ServerInv'
<1>1. /\ call.pc = "send" /\ UNCHANGED <<sess, sock>>
      /\ sess[call.s].out > 0 /\ sock[Fd].room = 0
      /\ call' = [call EXCEPT !.pc = IF call.phase = "in" THEN "out" ELSE "done",
                              !.res = "SUCCESS"]
    BY CallFacts DEF SendBlocks, At, Leave
<1>2. PICK c : c = [call EXCEPT !.pc = IF call.phase = "in" THEN "out" ELSE "done",
                                !.res = "SUCCESS"]
    OBVIOUS
<1>3. /\ c \in CallState /\ c.s = call.s /\ c.res = "SUCCESS"
      /\ c.pc = IF call.phase = "in" THEN "out" ELSE "done"
      /\ c.ev = call.ev /\ c.phase = call.phase /\ c.onSent = call.onSent
      /\ c.aborted = call.aborted
    BY <1>1, <1>2, CallFacts DEF CallState, Results
<1>4. CallAt(c, sess[call.s], Fd)
  <2>1. SeenOut(Fd)
      BY <1>1 DEF SeenOut
  <2>2. CASE call.phase = "in"
      BY <2>1, <2>2, <1>1, <1>3, CallFacts DEF CallAt
  <2>3. CASE call.phase = "out"
      BY <2>1, <2>3, <1>1, <1>3, CallFacts DEF CallAt, Reading, Writing
  <2> QED
      BY <2>2, <2>3, <1>1, CallFacts DEF CallState
<1>5. c.pc # "none"
    BY <1>3
<1> QED
    BY <1>1, <1>2, <1>3, <1>4, <1>5, CallFacts, CallOnly

\* process is not called for EPOLLOUT and has done its part for EPOLLIN.
LEMMA NoEpollOutStep ==
    ASSUME ServerInv, NoEpollOut, UNCHANGED <<workerVars, listenerVars>>
    PROVE  ServerInv'
<1>1. /\ call.pc = "out" /\ UNCHANGED <<sess, sock>> /\ call.ev = {"IN"} /\ call.res = "SUCCESS"
  <2>1. /\ call.pc = "out" /\ UNCHANGED <<sess, sock>> /\ "OUT" \notin call.ev
        /\ call.ev \subseteq Events
      BY CallFacts DEF NoEpollOut, At, CallState
  <2>2. call.ev # {} /\ call.res = IF "IN" \in call.ev THEN "SUCCESS" ELSE "FAILURE"
      BY <2>1, CallFacts DEF CallAt
  <2> QED
      BY <2>1, <2>2 DEF Events
<1>2. PICK c : c = [call EXCEPT !.pc = "done", !.res = "SUCCESS"] /\ call' = c
    BY <1>1 DEF NoEpollOut, Return
<1>3. /\ c \in CallState /\ c.s = call.s /\ c.pc = "done" /\ c.res = "SUCCESS"
      /\ c.ev = call.ev /\ c.phase = call.phase /\ c.onSent = call.onSent
      /\ c.aborted = call.aborted
    BY <1>1, <1>2, CallFacts DEF CallState, Results
<1>4. CallAt(c, sess[call.s], Fd)
    BY <1>1, <1>3, CallFacts DEF CallAt, Reading, Writing
<1> QED
    BY <1>1, <1>2, <1>3, <1>4, CallFacts, CallOnly

\* EPOLLOUT for a session that reads: nothing to write.
LEMMA NothingToWriteStep ==
    ASSUME ServerInv, NothingToWrite, UNCHANGED <<workerVars, listenerVars>>
    PROVE  ServerInv'
<1>1. /\ call.pc = "out" /\ sock' = sock /\ sess[call.s].state \in Reading
      /\ call.res # "POSTPONED"
    BY CallFacts DEF NothingToWrite, At, CallAt
<1>2. /\ sess' = [sess EXCEPT ![call.s].state = "READING_REQUEST"]
      /\ call' = [call EXCEPT !.pc = "done", !.res = "SUCCESS"]
    BY <1>1 DEF NothingToWrite, Return
<1>3. PICK x : x = [sess[call.s] EXCEPT !.state = "READING_REQUEST"]
    OBVIOUS
<1>4. /\ x \in SessionState /\ x.socket = sess[call.s].socket
      /\ x.state = "READING_REQUEST" /\ sess' = [sess EXCEPT ![call.s] = x]
    BY <1>1, <1>2, <1>3, CallFacts DEF SessionState, Reading
<1>5. PICK c : c = [call EXCEPT !.pc = "done", !.res = "SUCCESS"]
    OBVIOUS
<1>6. /\ c \in CallState /\ c.s = call.s /\ c.pc = "done" /\ c.res = "SUCCESS"
      /\ c.ev = call.ev /\ c.phase = call.phase /\ c.onSent = call.onSent
      /\ c.aborted = call.aborted
    BY <1>1, <1>5, CallFacts DEF CallState, Results
<1>7. CallAt(c, x, Fd)
    BY <1>1, <1>4, <1>6, CallFacts DEF CallAt, Reading, Writing
<1>8. x.state \notin Writing
    BY <1>4 DEF Writing
<1> QED
    BY <1>1, <1>2, <1>4, <1>5, <1>6, <1>7, <1>8, SessionFrame

\* The buffer holds no complete request.
LEMMA ParseNothingStep ==
    ASSUME ServerInv, ParseNothing, UNCHANGED <<workerVars, listenerVars>>
    PROVE  ServerInv'
<1>1. call.pc = "parse" /\ sock' = sock
    BY DEF ParseNothing, At
<1>2. PICK r \in {"READY_STATE", "PARSING_DATA"} :
          /\ sess' = [sess EXCEPT ![call.s].state = "READING_REQUEST", ![call.s].req = r]
          /\ call' = [call EXCEPT !.pc = "out", !.res = "SUCCESS"]
    BY <1>1, CallFacts DEF ParseNothing, SessionState
<1>3. PICK x : x = [sess[call.s] EXCEPT !.state = "READING_REQUEST", !.req = r]
    OBVIOUS
<1>4. /\ x \in SessionState /\ x.socket = sess[call.s].socket
      /\ x.state = "READING_REQUEST" /\ sess' = [sess EXCEPT ![call.s] = x]
    BY <1>1, <1>2, <1>3, CallFacts DEF SessionState, Reading
<1>5. PICK c : c = [call EXCEPT !.pc = "out", !.res = "SUCCESS"]
    OBVIOUS
<1>6. /\ c \in CallState /\ c.s = call.s /\ c.pc = "out" /\ c.res = "SUCCESS"
      /\ c.ev = call.ev /\ c.phase = call.phase /\ c.onSent = call.onSent
      /\ c.aborted = call.aborted
    BY <1>1, <1>5, CallFacts DEF CallState, Results
<1>7. x.state \notin Writing
    BY <1>4 DEF Writing
<1>8. CallAt(c, x, Fd)
    BY <1>1, <1>4, <1>6, <1>7, CallFacts DEF CallAt
<1> QED
    BY <1>1, <1>2, <1>4, <1>5, <1>6, <1>7, <1>8, SessionFrame

\* A set of numbers up to n has a greatest.
LEMMA GreatestNumber ==
    ASSUME NEW n \in Nat, NEW T, T \subseteq 0 .. n, T # {}
    PROVE  \E m \in T : \A k \in T : m >= k
<1> DEFINE less == {p \in Nat \X Nat : p[1] < p[2]}
           rest == {n - i : i \in T}
<1>1. IsWellFoundedOn(less, Nat)
    BY NatLessThanWellFounded DEF OpToRel
<1>2. rest \subseteq Nat /\ rest # {}
  <2>1. \A i \in T : n - i \in Nat
      OBVIOUS
  <2> QED
      BY <2>1
<1> HIDE DEF less, rest
<1>3. PICK x \in rest : \A y \in rest : ~(<<y, x>> \in less)
    BY <1>1, <1>2, WFMin
<1>4. \A y \in rest : ~(y < x)
    BY <1>2, <1>3 DEF less
<1>5. PICK m \in T : x = n - m
    BY <1>3 DEF rest
<1>6. ASSUME NEW k \in T PROVE m >= k
  <2>1. n - k \in rest
      BY DEF rest
  <2> QED
      BY <2>1, <1>4, <1>5
<1> QED
    BY <1>6

\* The number of units up to the last complete request.
LEMMA CompleteLemma ==
    ASSUME NEW buf \in Seq(Units)
    PROVE  Complete(buf) \in 0 .. Len(buf) /\ Replies(buf) \in Nat
<1> DEFINE ends == {0} \cup {i \in DOMAIN buf : buf[i] \in Ends}
<1>1. PICK n \in Nat : n = Len(buf) /\ DOMAIN buf = 1 .. n
    OBVIOUS
<1>2. ends \subseteq 0 .. n
    BY <1>1
<1>3. \E m \in ends : \A k \in ends : m >= k
    BY <1>1, <1>2, GreatestNumber
<1>4. Max(ends) \in ends
    BY <1>3 DEF Max
<1>5. Max(ends) \in 0 .. n
    BY <1>2, <1>4
<1>6. Complete(buf) \in 0 .. n
    BY <1>5 DEF Complete
<1>7. IsFiniteSet({i \in 1 .. Complete(buf) : buf[i] = "ask"})
  <2>1. PICK k \in Int : k = Complete(buf)
      BY <1>6
  <2>2. IsFiniteSet(1 .. k)
      BY FS_Interval
  <2>3. {i \in 1 .. k : buf[i] = "ask"} \subseteq 1 .. k
      OBVIOUS
  <2> QED
      BY <2>1, <2>2, <2>3, FS_Subset
<1> QED
    BY <1>1, <1>6, <1>7, FS_CardinalityType DEF Replies

\* All complete requests are processed; what was not read will be announced.
LEMMA ParseRequestsStep ==
    ASSUME ServerInv, ParseRequests, UNCHANGED <<workerVars, listenerVars>>
    PROVE  ServerInv'
<1>1. /\ call.pc = "parse" /\ sock' = sock /\ call.aborted = FALSE
    BY CallFacts DEF ParseRequests, At, CallAt, CallState
<1>2. PICK buf \in Seq(Units) : buf = sess[call.s].in
    BY <1>1, CallFacts DEF SessionState
<1>3. PICK out \in Nat : out = sess[call.s].out + Replies(buf)
    BY <1>1, <1>2, CallFacts, CompleteLemma DEF SessionState
<1>4. PICK rest \in Seq(Units) : rest = SubSeq(buf, Complete(buf) + 1, Len(buf))
  <2>1. PICK k \in Nat, n \in Nat : k = Complete(buf) /\ n = Len(buf)
      BY CompleteLemma
  <2>2. \A i \in k + 1 .. n : buf[i] \in Units
      BY <2>1
  <2>3. SubSeq(buf, k + 1, n) \in Seq(Units)
      BY <2>2, SubSeqProperties
  <2> QED
      BY <2>1, <2>3
<1>5. PICK st \in {"READING_REQUEST", "WRITING_REPLY"} :
          st = AfterRequests(out) /\ st = IF out = 0 THEN "READING_REQUEST" ELSE "WRITING_REPLY"
    BY <1>1 DEF AfterRequests
<1>6. PICK x : x = [sess[call.s] EXCEPT !.in = rest, !.req = "READY_STATE", !.out = out,
                                        !.state = st]
    OBVIOUS
<1>7. /\ x \in SessionState /\ x.socket = sess[call.s].socket
      /\ x.state = st /\ x.out = out
    BY <1>1, <1>5, <1>6, CallFacts DEF SessionState, Reading, Writing
<1>8. sess' = [sess EXCEPT ![call.s] = x]
    BY <1>1, <1>2, <1>3, <1>4, <1>5, <1>6 DEF ParseRequests
<1>9. PICK p \in {"out", "send"} : p = IF out = 0 THEN "out" ELSE "send"
    OBVIOUS
<1>10. PICK c : c = [call EXCEPT !.pc = p, !.res = "SUCCESS", !.onSent = "SUCCESS"] /\ call' = c
    BY <1>1, <1>2, <1>3, <1>9 DEF ParseRequests
<1>11. /\ c \in CallState /\ c.s = call.s /\ c.pc = p /\ c.res = "SUCCESS"
       /\ c.ev = call.ev /\ c.phase = call.phase /\ c.onSent = "SUCCESS"
       /\ c.aborted = call.aborted
    BY <1>1, <1>10, CallFacts DEF CallState, Results
<1>12. SeenIn(Fd) /\ "IN" \in call.ev /\ call.phase = "in" /\ call.ev # {}
    BY <1>1, CallFacts DEF CallAt
<1>13. CallAt(c, x, Fd)
    BY <1>1, <1>5, <1>7, <1>9, <1>11, <1>12 DEF CallAt, Reading, Writing
<1>14. x.state \in Writing => x.out > 0 \/ c.pc = "send"
    BY <1>5, <1>7, <1>9, <1>11 DEF Writing
<1>15. c.pc # "none"
    BY <1>9, <1>11
<1> QED
    BY <1>1, <1>7, <1>8, <1>10, <1>11, <1>13, <1>14, <1>15, SessionFrame

\* The whole reply is sent.  A session that is postponed is to read next.
LEMMA AllSentStep ==
    ASSUME ServerInv, AllSent, UNCHANGED <<workerVars, listenerVars>>
    PROVE  ServerInv'
<1>1. call.pc = "send" /\ sock' = sock
    BY DEF AllSent, At
<1>2. /\ call.onSent \in {"SUCCESS", "POSTPONED"} /\ call.phase \in {"in", "out"}
      /\ call.phase = "in" => call.onSent = "SUCCESS"
    BY <1>1, CallFacts DEF CallAt, CallState, Results
<1>3. PICK fl \in SUBSET {"IN"} :
          fl = Postpone(call.onSent) /\ (call.onSent = "POSTPONED" => fl = {"IN"})
    BY <1>2 DEF Postpone
<1>4. PICK x : x = [sess[call.s] EXCEPT !.state = "READING_REQUEST", !.flags = fl]
    OBVIOUS
<1>5. /\ x \in SessionState /\ x.socket = sess[call.s].socket
      /\ x.state = "READING_REQUEST" /\ x.flags = fl
    BY <1>1, <1>4, CallFacts DEF SessionState, Reading
<1>6. sess' = [sess EXCEPT ![call.s] = x]
    BY <1>1, <1>3, <1>4, CallFacts DEF AllSent, SessionState
<1>7. PICK c : /\ c = [call EXCEPT !.pc = IF call.phase = "in" THEN "out" ELSE "done",
                                   !.res = call.onSent]
               /\ call' = c
    BY DEF AllSent, Leave
<1>8. /\ c \in CallState /\ c.s = call.s /\ c.res = call.onSent
      /\ c.pc = IF call.phase = "in" THEN "out" ELSE "done"
      /\ c.ev = call.ev /\ c.phase = call.phase /\ c.onSent = call.onSent
      /\ c.aborted = call.aborted
    BY <1>1, <1>7, CallFacts DEF CallState
<1>9. x.state \in Reading /\ x.state \notin Writing
    BY <1>5 DEF Reading, Writing
<1>10. /\ ~call.aborted /\ call.ev # {}
       /\ call.phase = "out" => "OUT" \in call.ev
       /\ call.phase = "in" => "IN" \in call.ev
       /\ call.onSent = "POSTPONED" \/ SeenIn(Fd)
    BY <1>1, CallFacts DEF CallAt
<1>11. CallAt(c, x, Fd)
  <2>1. CASE call.phase = "in"
      BY <2>1, <1>2, <1>8, <1>9, <1>10 DEF CallAt
  <2>2. CASE call.phase = "out"
      BY <2>2, <1>2, <1>3, <1>5, <1>8, <1>9, <1>10 DEF CallAt
  <2> QED
      BY <2>1, <2>2, <1>2
<1>12. c.pc # "none"
    BY <1>8
<1> QED
    BY <1>1, <1>5, <1>6, <1>7, <1>8, <1>9, <1>11, <1>12, SessionFrame

\* EPOLLOUT for a session that writes: it has a reply, so that the result of
\* the send that process did not make is not taken for an error.
LEMMA WriteReplyStep ==
    ASSUME ServerInv, WriteReply, UNCHANGED <<workerVars, listenerVars>>
    PROVE  ServerInv'
<1>1. /\ call.pc = "out" /\ sock' = sock /\ "OUT" \in call.ev
      /\ sess[call.s].state \in Writing /\ sess[call.s].out > 0
      /\ sess[call.s].out # 0
    BY CallFacts DEF WriteReply, At
<1>2. PICK x : x = [sess[call.s] EXCEPT !.state = "WRITING_REPLY"]
    OBVIOUS
<1>3. /\ x \in SessionState /\ x.socket = sess[call.s].socket
      /\ x.state = "WRITING_REPLY" /\ x.out = sess[call.s].out
    BY <1>1, <1>2, CallFacts DEF SessionState, Writing
<1>4. sess' = [sess EXCEPT ![call.s] = x]
    BY <1>1, <1>2, CallFacts DEF WriteReply, SessionState
<1>5. PICK on \in {"SUCCESS", "POSTPONED"} :
          on = IF sess[call.s].state = "WRITING_REPLY" THEN "SUCCESS" ELSE "POSTPONED"
    OBVIOUS
<1>6. PICK c : /\ c = [call EXCEPT !.phase = "out", !.res = "FAILURE", !.onSent = on,
                                   !.pc = "send"]
               /\ call' = c
    BY <1>1, <1>5 DEF WriteReply
<1>7. /\ c \in CallState /\ c.s = call.s /\ c.pc = "send"
      /\ c.ev = call.ev /\ c.phase = "out" /\ c.onSent = on
      /\ c.aborted = call.aborted
    BY <1>1, <1>5, <1>6, CallFacts DEF CallState, Results
<1>8. /\ ~call.aborted /\ call.ev # {}
      /\ sess[call.s].state # "WRITING_WITH_PENDING_READ" => SeenIn(Fd)
    BY <1>1, CallFacts DEF CallAt
<1>9. CallAt(c, x, Fd)
    BY <1>1, <1>3, <1>5, <1>7, <1>8 DEF CallAt, Writing
<1>10. x.state \in Writing => x.out > 0 \/ c.pc = "send"
    BY <1>7
<1> QED
    BY <1>1, <1>3, <1>4, <1>6, <1>7, <1>9, <1>10, SessionFrame

\* What send takes is at most the reply and at most the room.
LEMMA SendableLemma ==
    ASSUME NEW a \in Nat, NEW b \in Nat
    PROVE  Min({a, b}) \in Nat /\ Min({a, b}) <= a /\ Min({a, b}) <= b
<1>1. Min({a, b}) = IF a <= b THEN a ELSE b
    BY DEF Min
<1> QED
    BY <1>1

\* send takes as much of the reply as there is room for.
LEMMA SendSomeStep ==
    ASSUME ServerInv, SendSome, UNCHANGED <<workerVars, listenerVars>>
    PROVE  ServerInv'
<1>1. call.pc = "send" /\ call' = call
    BY DEF SendSome, At
<1>2. PICK s \in Sessions, f \in Fds : /\ s = call.s /\ f = sess[s].socket /\ f = Fd
                                       /\ sess[s] \in SessionState /\ sock[f] \in SocketState
    BY <1>1, CallFacts
<1>3. PICK n \in Nat : n = Sendable /\ n <= sess[s].out /\ n <= sock[f].room
  <2>1. sess[s].out \in Nat /\ sock[f].room \in Nat
      BY <1>2, SessionAssumption DEF SessionState, SocketState
  <2> QED
      BY <2>1, <1>2, SendableLemma DEF Sendable
<1>4. PICK x : x = [sess[s] EXCEPT !.out = @ - n]
    OBVIOUS
<1>5. /\ x \in SessionState /\ x.socket = f /\ x.state = sess[s].state
  <2>1. sess[s].out - n \in Nat
      BY <1>2, <1>3 DEF SessionState
  <2> QED
      BY <2>1, <1>2, <1>4 DEF SessionState
<1>6. sess' = [sess EXCEPT ![s] = x]
    BY <1>1, <1>2, <1>3, <1>4, CallFacts DEF SendSome
<1>7. PICK y : y = [sock[f] EXCEPT !.room = @ - n, !.answered = @ + n]
    OBVIOUS
<1>8. /\ y \in SocketState /\ y.ptr = sock[f].ptr /\ y.open = sock[f].open
      /\ y.edge = sock[f].edge /\ y.peer = sock[f].peer /\ y.inq = sock[f].inq
  <2>1. sock[f].room - n \in 0 .. Room /\ sock[f].answered + n \in Nat
    <3>1. sock[f].room \in 0 .. Room /\ sock[f].answered \in Nat
        BY <1>2 DEF SocketState
    <3> QED
        BY <3>1, <1>3, SessionAssumption
  <2> QED
      BY <2>1, <1>2, <1>7 DEF SocketState
<1>9. sock' = [sock EXCEPT ![f] = y]
    BY <1>1, <1>2, <1>3, <1>7, CallFacts DEF SendSome
<1>10. CallAt(call, sess[s], f)
    BY <1>1, <1>2, CallFacts
<1>11. sock'[f] = y
    BY <1>1, <1>9, CallFacts
<1>12. SeenIn(f) => SeenIn(f)'
    BY <1>8, <1>11 DEF SeenIn
<1>13. PICK c : c = call
    OBVIOUS
<1>14. CallAt(c, x, f)'
    BY <1>1, <1>5, <1>10, <1>12, <1>13 DEF CallAt
<1>15. c \in CallState /\ c.s = s /\ c.pc = "send" /\ c.ev = call.ev
    BY <1>1, <1>2, <1>13, CallFacts
<1> QED
    BY <1>1, <1>2, <1>5, <1>6, <1>8, <1>9, <1>13, <1>14, <1>15, CallFrame

\* recv returns data; below the threshold, process goes on to read.
LEMMA RecvDataStep ==
    ASSUME ServerInv, BelowThreshold', RecvData, UNCHANGED <<workerVars, listenerVars>>
    PROVE  ServerInv'
<1>1. call.pc = "recv"
    BY DEF RecvData, At
<1>2. PICK s \in Sessions, f \in Fds : /\ s = call.s /\ f = sess[s].socket /\ f = Fd
                                       /\ sess[s] \in SessionState /\ sock[f] \in SocketState
                                       /\ Unread = sock[f].inq /\ Unread # <<>>
    BY <1>1, CallFacts DEF RecvData
<1>3. PICK u \in Units, rest \in Seq(Units) : u = Head(Unread) /\ rest = Tail(sock[f].inq)
  <2>1. sock[f].inq \in Seq(Units)
      BY <1>2 DEF SocketState
  <2> QED
      BY <2>1, <1>2, HeadTailProperties
<1>4. PICK x : x = [sess[s] EXCEPT !.in = Append(@, u)]
    OBVIOUS
<1>5. /\ x \in SessionState /\ x.socket = f /\ x.state = sess[s].state
  <2>1. Append(sess[s].in, u) \in Seq(Units)
      BY <1>2 DEF SessionState
  <2> QED
      BY <2>1, <1>2, <1>4 DEF SessionState
<1>6. sess' = [sess EXCEPT ![s] = x]
    BY <1>1, <1>2, <1>3, <1>4, CallFacts DEF RecvData
<1>7. PICK y : y = [sock[f] EXCEPT !.inq = rest]
    OBVIOUS
<1>8. /\ y \in SocketState /\ y.ptr = sock[f].ptr /\ y.open = sock[f].open
      /\ y.edge = sock[f].edge /\ y.peer = sock[f].peer
    BY <1>2, <1>3, <1>7 DEF SocketState
<1>9. sock' = [sock EXCEPT ![f] = y]
    BY <1>1, <1>2, <1>3, <1>7, CallFacts DEF RecvData
<1>10. PICK c : c = [call EXCEPT !.read = @ + 1, !.aborted = FALSE, !.pc = "recv"] /\ call' = c
  <2>1. PICK stop \in BOOLEAN :
            call' = [call EXCEPT !.read = @ + 1, !.aborted = stop,
                                 !.pc = IF stop THEN "parse" ELSE "recv"]
      BY DEF RecvData
  <2>2. call'.aborted = stop
      BY <2>1, <1>1, CallFacts DEF CallState
  <2>3. stop = FALSE
      BY <2>2 DEF BelowThreshold
  <2> QED
      BY <2>1, <2>3
<1>11. /\ c \in CallState /\ c.s = s /\ c.pc = "recv" /\ c.res = call.res
       /\ c.ev = call.ev /\ c.phase = call.phase /\ c.onSent = call.onSent
       /\ c.aborted = FALSE
  <2>1. call \in CallState /\ call.read + 1 \in Nat
      BY <1>1, CallFacts DEF CallState
  <2> QED
      BY <2>1, <1>2, <1>10 DEF CallState
<1>12. CallAt(call, sess[s], f)
    BY <1>1, <1>2, CallFacts
<1>13. CallAt(c, x, f)'
    BY <1>1, <1>5, <1>11, <1>12 DEF CallAt
<1>14. x.state \notin Writing
    BY <1>1, <1>5, <1>12 DEF CallAt, Reading, Writing
<1> QED
    BY <1>2, <1>5, <1>6, <1>8, <1>9, <1>10, <1>11, <1>13, <1>14, CallFrame

-----------------------------------------------------------------------------
(* The worker's loop *)

\* process is called, from the backlog or for an event.
LEMMA ProcessCalled ==
    ASSUME ServerInv, call = NotCalled, NEW s \in Sessions, NEW ev \in SUBSET Events,
           Registered(s), process(s, ev), ev # {},
           UNCHANGED <<sock, pool, backlog, listenerVars>>,
           NEW w \in WorkerState, worker' = w, w.pc = worker.pc, w.pos = worker.pos,
           \A x \in w.batch : x \in worker.batch /\ x.s # s,
           \A x \in worker.batch : x.s # s => x \in w.batch,
           "IN" \notin ev => SeenIn(sess[s].socket),
           "OUT" \notin ev /\ sess[s].state \in Writing => SeenOut(sess[s].socket),
           worker.pc \in {"backlog", "events"},
           worker.pc = "backlog" => backlog # <<>> /\ s = backlog[1] /\ ev = {"IN"},
           worker.pc = "events" => ~InBacklog(s)
    PROVE  ServerInv'
<1> USE DEF ServerInv
<1>1. /\ UNCHANGED <<sock, pool, backlog, listener, lost, accepts>>
      /\ sess \in [Sessions -> SessionState] /\ sess[s] \in SessionState
      /\ s # NoSession /\ call.s = NoSession /\ call.pc = "none"
    BY SessionAssumption DEF listenerVars, Types, NotCalled
<1>2. PICK st \in Reading \cup Writing :
          /\ st = IF "IN" \in ev THEN AfterEvent(sess[s].state) ELSE sess[s].state
          /\ st \in Writing => sess[s].state \in Writing
          /\ "IN" \in ev /\ sess[s].state \notin Reading => st = "WRITING_WITH_PENDING_READ"
          /\ sess[s].state \in Reading => st = sess[s].state
    BY <1>1 DEF SessionState, AfterEvent, Reading, Writing
<1>3. PICK x : x = [sess[s] EXCEPT !.flags = {}, !.state = st]
    OBVIOUS
<1>4. /\ x \in SessionState /\ x.socket = sess[s].socket /\ x.state = st
      /\ x.out = sess[s].out
    BY <1>1, <1>3 DEF SessionState
<1>5. sess' = [sess EXCEPT ![s] = x]
    BY <1>1, <1>2, <1>3 DEF process
<1>6. PICK p \in {"recv", "out"} :
          p = IF "IN" \in ev /\ sess[s].state \in Reading THEN "recv" ELSE "out"
    OBVIOUS
<1>7. PICK r \in {"SUCCESS", "FAILURE"} : r = IF "IN" \in ev THEN "SUCCESS" ELSE "FAILURE"
    OBVIOUS
<1>8. PICK c : c = [NotCalled EXCEPT !.s = s, !.ev = ev, !.pc = p, !.res = r] /\ call' = c
    BY <1>6, <1>7 DEF process
<1>9. /\ c \in CallState /\ c.s = s /\ c.ev = ev /\ c.pc = p /\ c.res = r
      /\ c.aborted = FALSE /\ c.phase = "in" /\ c.onSent = "SUCCESS" /\ c.pc # "none"
    BY <1>6, <1>7, <1>8 DEF NotCalled, CallState, Results
<1>10. sess'[s] = x /\ \A u \in Sessions : u # s => sess'[u] = sess[u]
    BY <1>1, <1>5
<1>11. Paired
    BY <1>1, <1>4, <1>10 DEF Paired
<1>12. \A u \in Sessions : Registered(u)' = Registered(u)
    BY <1>11, SameRegistered
<1>13. \A u \in Sessions : /\ SeenIn(sess[u].socket)' = SeenIn(sess[u].socket)
                           /\ SeenOut(sess[u].socket)' = SeenOut(sess[u].socket)
    BY <1>1, <1>11 DEF Paired, SeenIn, SeenOut
<1>14. Types'
    BY <1>1, <1>4, <1>5, <1>8, <1>9 DEF Types
<1>15. SocketInv'
  <2>1. \A g \in Fds : sock[g].ptr # NoSession => sock[g].ptr \in Sessions
      BY DEF Types, SocketState
  <2>2. listener.s # NoSession => listener.s \in Sessions
      BY DEF Types
  <2>3. listener.fd \in Fds => listener.s # NoSession
      BY SessionAssumption DEF SocketInv, Accepting
  <2> QED
      BY <2>1, <2>2, <2>3, <1>1, <1>11 DEF SocketInv, Paired
<1>16. PlaceInv'
    BY <1>1, <1>12 DEF PlaceInv
<1>17. WorkInv'
  <2>1. \A u \in Sessions : /\ InBatch(u)' => InBatch(u)
                            /\ InBacklog(u)' = InBacklog(u)
      BY <1>1 DEF InBatch, InBacklog
  <2>2. \A u \in Sessions : call'.s = u \/ InBatch(u)' \/ InBacklog(u)' => Registered(u)'
      BY <2>1, <1>8, <1>9, <1>12 DEF WorkInv
  <2>3. \A b \in w.batch : b \in worker.batch /\ b.s # s /\ b.s \in Sessions
      BY DEF WorkerState
  <2>4. \A b \in w.batch : /\ b.s # c.s /\ ~InBacklog(b.s)' /\ b.ev # {}
                           /\ \A y \in w.batch : b.s = y.s => b = y
      BY <2>1, <2>3, <1>9 DEF WorkInv
  <2>5. w.pc # "events" => w.batch = {}
      BY <2>3 DEF WorkInv
  <2>6. worker.pc = "events" => ~InBacklog(c.s)'
      BY <2>1, <1>9
  <2> QED
      BY <2>2, <2>4, <2>5, <2>6, <1>1, <1>8, <1>9 DEF WorkInv
<1>18. CallInv'
  <2> DEFINE f == sess[s].socket
  <2>1. CASE p = "recv"
      BY <2>1, <1>2, <1>4, <1>6, <1>7, <1>8, <1>9, <1>10 DEF CallInv, CallAt
  <2>2. CASE p = "out"
    <3>1. st # "WRITING_WITH_PENDING_READ" => SeenIn(f)
        BY <2>2, <1>2, <1>6
    <3>2. "OUT" \notin ev /\ st \in Writing => SeenOut(f)
        BY <1>2
    <3>3. CallAt(c, x, f)'
      <4>1. SeenIn(f)' = SeenIn(f) /\ SeenOut(f)' = SeenOut(f)
          BY <1>1, <1>13, <1>11 DEF SeenIn, SeenOut, Paired
      <4> QED
          BY <4>1, <3>1, <3>2, <2>2, <1>4, <1>7, <1>9 DEF CallAt
    <3> QED
        BY <3>3, <1>4, <1>8, <1>9, <1>10 DEF CallInv
  <2> QED
      BY <2>1, <2>2, <1>6
<1>19. BatchInv'
  <2> SUFFICES ASSUME NEW b \in w.batch
               PROVE  /\ "IN" \notin b.ev => SeenIn(sess[b.s].socket)'
                      /\ "OUT" \notin b.ev => SeenOut(sess[b.s].socket)'
      BY DEF BatchInv
  <2>1. b \in worker.batch /\ b.s \in Sessions
      BY DEF WorkerState
  <2> QED
      BY <2>1, <1>13 DEF BatchInv
<1>20. BacklogInv'
  <2> SUFFICES ASSUME NEW i \in 1 .. Len(backlog), backlog[i] # s
               PROVE  sess'[backlog[i]].flags = {"IN"} /\ sess'[backlog[i]].state \in Reading
      BY <1>1, <1>8, <1>9 DEF BacklogInv
  <2>1. backlog[i] \in Sessions /\ backlog[i] # NoSession
      BY SessionAssumption DEF Types
  <2> QED
      BY <2>1, <1>1, <1>10 DEF BacklogInv
<1>21. QuietInv'
  <2> SUFFICES ASSUME NEW u \in Sessions, Registered(u), s # u, ~InBatch(u)', ~InBacklog(u)
               PROVE  /\ sess'[u].state \in Reading => SeenIn(sess[u].socket)'
                      /\ sess'[u].state \in Writing => SeenOut(sess[u].socket)'
      BY <1>1, <1>8, <1>9, <1>12 DEF QuietInv, InBacklog
  <2>1. ~InBatch(u) /\ call.s # u
      BY <1>1, SessionAssumption DEF InBatch
  <2> QED
      BY <2>1, <1>10, <1>13 DEF QuietInv
<1>22. WritingHasReply'
  <2>1. \A u \in Sessions : sess[u].state \in Writing => sess[u].out > 0
      BY <1>1, SessionAssumption DEF WritingHasReply
  <2> QED
      BY <2>1, <1>2, <1>4, <1>10 DEF WritingHasReply
<1> QED
    BY <1>14, <1>15, <1>16, <1>17, <1>18, <1>19, <1>20, <1>21, <1>22

\* The first session of the backlog is called: it is to read.
LEMMA BacklogNextStep ==
    ASSUME ServerInv, BacklogNext
    PROVE  ServerInv'
<1>1. /\ worker.pc = "backlog" /\ call = NotCalled /\ worker.pos = 1
      /\ UNCHANGED <<sock, pool, backlog, worker, listenerVars>>
    BY DEF BacklogNext, Idle, ServerInv, WorkInv, workerVars
<1>2. PICK s \in Sessions : s = backlog[1] /\ backlog # <<>> /\ 1 \in 1 .. Len(backlog)
                            /\ process(s, sess[s].flags)
    BY <1>1 DEF BacklogNext, ServerInv, Types
<1>3. call.s # s
    BY <1>1, SessionAssumption DEF NotCalled
<1>4. sess[s].flags = {"IN"} /\ sess[s].state \in Reading /\ Registered(s)
    BY <1>2, <1>3 DEF ServerInv, BacklogInv, WorkInv, InBacklog
<1>5. PICK ev \in SUBSET Events : ev = {"IN"}
    BY DEF Events
<1>6. PICK w \in WorkerState : w = worker /\ w.batch = {}
    BY <1>1 DEF ServerInv, WorkInv, Types
<1>7. sess[s].state \notin Writing
    BY <1>4 DEF Reading, Writing
<1>8. \A x \in worker.batch : x.s # s => x \in w.batch
    BY <1>6
<1>9. \A x \in w.batch : x \in worker.batch /\ x.s # s
    BY <1>6
<1>10. process(s, ev) /\ ev # {} /\ "IN" \in ev
    BY <1>2, <1>4, <1>5
<1> QED
    BY <1>1, <1>2, <1>4, <1>5, <1>6, <1>7, <1>8, <1>9, <1>10, ProcessCalled

\* An event of the batch is handled.
LEMMA HandleEventStep ==
    ASSUME ServerInv, HandleEvent
    PROVE  ServerInv'
<1>1. /\ worker.pc = "events" /\ call = NotCalled
      /\ UNCHANGED <<sock, pool, backlog, listenerVars>>
    BY DEF HandleEvent, Idle
<1>2. PICK e \in worker.batch : /\ process(e.s, e.ev)
                                /\ worker' = [worker EXCEPT !.batch = @ \ {e}]
    BY DEF HandleEvent
<1>3. PICK s \in Sessions, ev \in SUBSET Events : s = e.s /\ ev = e.ev
    BY DEF ServerInv, Types, WorkerState
<1>4. /\ Registered(s) /\ ~InBacklog(s) /\ ev # {}
      /\ \A y \in worker.batch : y.s = s => y = e
    BY <1>2, <1>3 DEF ServerInv, WorkInv, InBatch
<1>5. /\ "IN" \notin ev => SeenIn(sess[s].socket)
      /\ "OUT" \notin ev => SeenOut(sess[s].socket)
    BY <1>2, <1>3 DEF ServerInv, BatchInv
<1>6. PICK w : w = [worker EXCEPT !.batch = @ \ {e}]
    OBVIOUS
<1>7. /\ w \in WorkerState /\ w.pc = worker.pc /\ w.pos = worker.pos
      /\ w.batch = worker.batch \ {e}
    BY <1>6 DEF ServerInv, Types, WorkerState
<1>8. \A x \in w.batch : x \in worker.batch /\ x.s # s
    BY <1>4, <1>7
<1>9. \A x \in worker.batch : x.s # s => x \in w.batch
    BY <1>3, <1>7
<1>10. process(s, ev) /\ worker' = w
    BY <1>2, <1>3, <1>6
<1> QED
    BY <1>1, <1>4, <1>5, <1>7, <1>8, <1>9, <1>10, ProcessCalled

\* The worker goes to its next loop; there is nothing left in this one.
LEMMA NextLoop ==
    ASSUME ServerInv, call = NotCalled, worker.batch = {},
           UNCHANGED <<sess, sock, call, pool, backlog, listenerVars>>,
           NEW w \in WorkerState, worker' = w, w.batch = {}, w.pos = 1,
           w.pc = "wait" => backlog = <<>>
    PROVE  ServerInv'
<1> USE DEF ServerInv
<1>1. UNCHANGED <<sess, sock, call, pool, backlog, listener, lost, accepts>>
    BY DEF listenerVars
<1>2. Types' /\ SocketInv' /\ PlaceInv'
    BY <1>1 DEF Types, SocketInv, PlaceInv, Registered
<1>3. /\ \A s \in Sessions : Registered(s)' = Registered(s) /\ InBatch(s)' = InBatch(s)
      /\ \A s : InBacklog(s)' = InBacklog(s)
    BY <1>1 DEF Registered, InBatch, InBacklog
<1>4. call.pc = "none" /\ call.s = NoSession /\ ~InBacklog(NoSession)
    BY SessionAssumption DEF NotCalled, InBacklog, Types
<1>5. WorkInv'
    BY <1>1, <1>3, <1>4 DEF WorkInv
<1>6. CallInv' /\ BatchInv' /\ BacklogInv' /\ WritingHasReply'
    BY <1>1, <1>4 DEF CallInv, BatchInv, BacklogInv, WritingHasReply
<1>7. QuietInv'
    BY <1>1, <1>3 DEF QuietInv, SeenIn, SeenOut
<1> QED
    BY <1>2, <1>5, <1>6, <1>7

\* The backlog is empty, because below the threshold no session stays in it.
LEMMA BacklogEndStep ==
    ASSUME ServerInv, BacklogEnd
    PROVE  ServerInv'
<1>1. /\ worker.pc = "backlog" /\ call = NotCalled /\ worker.pos = 1 /\ worker.batch = {}
      /\ ~(1 <= Len(backlog)) /\ backlog \in Seq(Sessions)
      /\ UNCHANGED <<sess, sock, call, pool, backlog, listenerVars>>
    BY DEF BacklogEnd, Idle, ServerInv, WorkInv, Types
<1>2. backlog = <<>>
    BY <1>1, EmptySeq
<1>3. PICK w : w = [worker EXCEPT !.pc = "wait"] /\ worker' = w
    BY DEF BacklogEnd, Goto
<1>4. w \in WorkerState /\ w.batch = worker.batch /\ w.pos = worker.pos
    BY <1>3 DEF ServerInv, Types, WorkerState
<1> QED
    BY <1>1, <1>2, <1>3, <1>4, NextLoop

\* All events of the batch are handled.
LEMMA EventsEndStep ==
    ASSUME ServerInv, EventsEnd
    PROVE  ServerInv'
<1>1. /\ worker.pc = "events" /\ call = NotCalled /\ worker.pos = 1 /\ worker.batch = {}
      /\ UNCHANGED <<sess, sock, call, pool, backlog, listenerVars>>
    BY DEF EventsEnd, Idle, ServerInv, WorkInv
<1>2. PICK w : w = [worker EXCEPT !.pc = "backlog"] /\ worker' = w
    BY DEF EventsEnd, Goto
<1>3. w \in WorkerState /\ w.batch = worker.batch /\ w.pos = worker.pos /\ w.pc = "backlog"
    BY <1>2 DEF ServerInv, Types, WorkerState
<1> QED
    BY <1>1, <1>2, <1>3, NextLoop

\* epoll_wait reports every socket that was woken with all that holds of it.
LEMMA EpollWaitStep ==
    ASSUME ServerInv, EpollWait
    PROVE  ServerInv'
<1> USE DEF ServerInv
<1>1. /\ worker.pc = "wait" /\ backlog = <<>> /\ call.pc = "none" /\ call = NotCalled
      /\ worker.batch = {} /\ call.s = NoSession
      /\ UNCHANGED <<sess, call, pool, backlog, listener, lost, accepts>>
      /\ sock \in [Fds -> SocketState] /\ sess \in [Sessions -> SessionState]
    BY DEF EpollWait, WorkInv, Types, listenerVars
<1>2. ASSUME NEW f \in Fds
      PROVE  /\ sock'[f] \in SocketState /\ sock'[f].edge = FALSE
             /\ sock'[f].open = sock[f].open /\ sock'[f].ptr = sock[f].ptr
             /\ sock'[f].inq = sock[f].inq /\ sock'[f].peer = sock[f].peer
             /\ sock'[f].room = sock[f].room
  <2>1. PICK y : y = [sock[f] EXCEPT !.edge = FALSE] /\ sock'[f] = y
      BY DEF EpollWait
  <2>2. PICK z \in SocketState : z = sock[f]
      BY <1>1
  <2>3. /\ y \in SocketState /\ y.edge = FALSE /\ y.open = z.open /\ y.ptr = z.ptr
        /\ y.inq = z.inq /\ y.peer = z.peer /\ y.room = z.room
      BY <2>1, <2>2 DEF SocketState
  <2> QED
      BY <2>1, <2>2, <2>3
<1>3. sock' \in [Fds -> SocketState]
  <2>1. sock' = [f \in Fds |-> sock'[f]]
      BY DEF EpollWait
  <2> QED
      BY <2>1, <1>2
<1>4. PICK batch : batch = {[s |-> sock[f].ptr, ev |-> Mask(f)] : f \in Woken}
    OBVIOUS
<1>5. PICK w : w = [pc |-> "events", pos |-> 1, batch |-> batch] /\ worker' = w
    BY <1>4 DEF EpollWait
<1>6. ASSUME NEW f \in Woken
      PROVE  /\ f \in Fds /\ sock[f].ptr \in Sessions /\ sess[sock[f].ptr].socket = f
             /\ Registered(sock[f].ptr) /\ Mask(f) # {} /\ Mask(f) \in SUBSET Events
  <2>1. f \in Fds /\ sock[f].edge /\ Mask(f) # {} /\ Mask(f) \in SUBSET Events
      BY DEF Woken, Mask
  <2>2. sock[f].ptr # NoSession /\ sock[f].ptr \in Sessions
      BY <2>1, <1>1 DEF SocketInv, SocketState
  <2> QED
      BY <2>1, <2>2 DEF SocketInv, Registered
<1>7. batch \subseteq [s : Sessions, ev : SUBSET Events]
    BY <1>4, <1>6
<1>8. w \in WorkerState /\ w.pc = "events" /\ w.pos = 1 /\ w.batch = batch
    BY <1>5, <1>7 DEF WorkerState
<1>9. Paired
    BY <1>1, <1>2 DEF Paired
<1>10. \A u \in Sessions : Registered(u)' = Registered(u)
    BY <1>9, SameRegistered
<1>11. \A x \in batch : \E f \in Woken : x.s = sock[f].ptr /\ x.ev = Mask(f)
    BY <1>4
<1>12. Types'
    BY <1>1, <1>3, <1>5, <1>8 DEF Types
<1>13. SocketInv'
  <2>1. \A f \in Fds : /\ sock[f].ptr # NoSession => sess[sock[f].ptr].socket = f
                       /\ sock[f].open <=> sock[f].peer # "gone"
                       /\ ~sock[f].open => sock[f].ptr = NoSession
      BY DEF SocketInv
  <2>2. \A f \in Fds : /\ sock'[f].ptr # NoSession => sess[sock'[f].ptr].socket = f
                       /\ sock'[f].edge => sock'[f].ptr # NoSession
                       /\ sock'[f].open <=> sock'[f].peer # "gone"
                       /\ ~sock'[f].open => sock'[f].ptr = NoSession
      BY <2>1, <1>2
  <2>3. listener.fd \in Fds => /\ sock'[listener.fd].open
                               /\ sock'[listener.fd].ptr = NoSession
      BY <1>2 DEF SocketInv
  <2> QED
      BY <2>2, <2>3, <1>1 DEF SocketInv
<1>14. PlaceInv'
    BY <1>1, <1>10 DEF PlaceInv
<1>15. WorkInv'
  <2>1. \A x \in batch : /\ x.s \in Sessions /\ Registered(x.s)
                         /\ x.s # NoSession /\ x.ev # {}
      BY <1>6, <1>11, SessionAssumption
  <2>2. ASSUME NEW x \in batch, NEW y \in batch, x.s = y.s PROVE x = y
    <3>1. PICK f \in Woken, g \in Woken : /\ x.s = sock[f].ptr /\ y.s = sock[g].ptr
                                          /\ x.ev = Mask(f) /\ y.ev = Mask(g)
        BY <1>11
    <3>2. f = g
        BY <3>1, <2>2, <1>6
    <3>3. x \in [s : Sessions, ev : SUBSET Events] /\ y \in [s : Sessions, ev : SUBSET Events]
        BY <1>7
    <3> QED
        BY <3>1, <3>2, <3>3, <2>2
  <2>3. \A u : ~InBacklog(u)'
      BY <1>1 DEF InBacklog
  <2>4. \A u \in Sessions : InBatch(u)' => Registered(u)'
      BY <2>1, <1>5, <1>8, <1>10 DEF InBatch
  <2> QED
      BY <2>1, <2>2, <2>3, <2>4, <1>1, <1>5, <1>8, SessionAssumption DEF WorkInv
<1>16. CallInv' /\ BacklogInv' /\ WritingHasReply'
    BY <1>1 DEF CallInv, BacklogInv, WritingHasReply
<1>17. BatchInv'
  <2> SUFFICES ASSUME NEW x \in batch
               PROVE  /\ "IN" \notin x.ev => SeenIn(sess[x.s].socket)'
                      /\ "OUT" \notin x.ev => SeenOut(sess[x.s].socket)'
      BY <1>5, <1>8 DEF BatchInv
  <2>1. PICK f \in Woken : x.s = sock[f].ptr /\ x.ev = Mask(f)
      BY <1>11
  <2>2. f \in Fds /\ sess[x.s].socket = f /\ sess'[x.s].socket = f
      BY <2>1, <1>1, <1>6
  <2>3. "IN" \notin Mask(f) => sock[f].inq = <<>> /\ sock[f].peer = "open"
      BY DEF Mask, Events
  <2>4. "OUT" \notin Mask(f) => ~(sock[f].room > 0)
      BY DEF Mask, Events
  <2> QED
      BY <2>1, <2>2, <2>3, <2>4, <1>2 DEF SeenIn, SeenOut
<1>18. QuietInv'
  <2> SUFFICES ASSUME NEW u \in Sessions, Registered(u), ~InBatch(u)'
               PROVE  /\ sess[u].state \in Reading => SeenIn(sess[u].socket)'
                      /\ sess[u].state \in Writing => SeenOut(sess[u].socket)'
      BY <1>1, <1>10 DEF QuietInv
  <2>1. PICK f \in Fds : /\ f = sess[u].socket /\ f = sess'[u].socket
                         /\ sock[f].ptr = u /\ sock[f].open
      BY <1>1, SessionAssumption DEF Registered, SocketInv
  <2>2. f \notin Woken
    <3> SUFFICES ASSUME f \in Woken PROVE FALSE
        OBVIOUS
    <3>1. [s |-> u, ev |-> Mask(f)] \in batch
        BY <2>1, <1>4
    <3> QED
        BY <3>1, <1>5, <1>8 DEF InBatch
  <2>3. CASE ~sock[f].edge
    <3>1. call.s # u /\ ~InBatch(u) /\ ~InBacklog(u)
        BY <1>1, SessionAssumption DEF InBatch, InBacklog
    <3>2. /\ sess[u].state \in Reading => SeenIn(f)
          /\ sess[u].state \in Writing => SeenOut(f)
        BY <3>1, <2>1 DEF QuietInv
    <3> QED
        BY <3>2, <2>1, <2>3, <1>2 DEF SeenIn, SeenOut
  <2>4. CASE Mask(f) = {}
    <3>1. sock[f].inq = <<>> /\ sock[f].peer = "open" /\ ~(sock[f].room > 0)
        BY <2>4 DEF Mask, Events
    <3> QED
        BY <3>1, <2>1, <1>2 DEF SeenIn, SeenOut
  <2> QED
      BY <2>1, <2>2, <2>3, <2>4 DEF Woken
<1> QED
    BY <1>12, <1>13, <1>14, <1>15, <1>16, <1>17, <1>18

\* The backlog without its first session.
LEMMA BacklogRest ==
    ASSUME NEW b \in Seq(Sessions), b # <<>>
    PROVE  /\ RemoveAt(b, 1) \in Seq(Sessions) /\ Len(RemoveAt(b, 1)) = Len(b) - 1
           /\ \A i \in 1 .. Len(b) - 1 : RemoveAt(b, 1)[i] = b[i + 1]
<1>1. PICK n \in Nat : n = Len(b) /\ n > 0
    BY EmptySeq
<1>2. SubSeq(b, 1, 0) = <<>>
    OBVIOUS
<1>3. \A i \in 2 .. n : b[i] \in Sessions
    BY <1>1
<1>4. PICK r \in Seq(Sessions) : /\ r = SubSeq(b, 2, n) /\ Len(r) = n - 1
                                 /\ \A i \in 1 .. n - 1 : r[i] = b[i + 1]
  <2>1. PICK r \in Seq(Sessions) : r = SubSeq(b, 2, n)
    <3>1. 2 \in Int /\ n \in Int
        OBVIOUS
    <3>2. SubSeq(b, 2, n) \in Seq(Sessions)
        BY <3>1, <1>3, SubSeqProperties
    <3> QED
        BY <3>2
  <2>2. Len(r) = n - 1 /\ \A i \in 1 .. n - 1 : r[i] = b[i + 1]
      BY <2>1, <1>1
  <2> QED
      BY <2>1, <2>2
<1>5. RemoveAt(b, 1) = <<>> \o r
    BY <1>1, <1>2, <1>4 DEF RemoveAt
<1>6. <<>> \o r = r
    OBVIOUS
<1> QED
    BY <1>1, <1>4, <1>5, <1>6

\* What the call that has ended leaves in the backlog: not its session.
LEMMA BacklogWithout ==
    ASSUME ServerInv, call.pc # "none",
           backlog' = IF worker.pc = "backlog" THEN RemoveAt(backlog, 1) ELSE backlog
    PROVE  /\ backlog' \in Seq(Sessions)
           /\ \A i \in 1 .. Len(backlog') :
                 /\ backlog'[i] # call.s
                 /\ \E j \in 1 .. Len(backlog) : backlog'[i] = backlog[j]
           /\ \A i, j \in 1 .. Len(backlog') : backlog'[i] = backlog'[j] => i = j
           /\ \A s : InBacklog(s) /\ s # call.s => InBacklog(s)'
           /\ worker.pc = "wait" => backlog' = <<>>
<1> USE DEF ServerInv
<1>1. PICK b \in Seq(Sessions), n \in Nat :
          /\ b = backlog /\ n = Len(b)
          /\ \A i, j \in 1 .. n : b[i] = b[j] => i = j
    BY DEF Types, WorkInv
<1>2. CASE worker.pc = "backlog"
  <2>1. b # <<>> /\ call.s = b[1] /\ n > 0
      BY <1>1, <1>2 DEF WorkInv
  <2>2. PICK r \in Seq(Sessions) : /\ r = backlog' /\ Len(r) = n - 1
                                   /\ \A i \in 1 .. n - 1 : r[i] = b[i + 1]
      BY <2>1, <1>1, <1>2, BacklogRest
  <2>3. \A i \in 1 .. n - 1 : i + 1 \in 1 .. n /\ i + 1 # 1
      BY <2>1
  <2>4. \A i \in 1 .. n - 1 : r[i] # b[1] /\ \E j \in 1 .. n : r[i] = b[j]
      BY <2>1, <2>2, <2>3, <1>1
  <2>5. \A i, j \in 1 .. n - 1 : r[i] = r[j] => i = j
      BY <2>2, <2>3, <1>1
  <2>6. ASSUME NEW i \in 1 .. n, b[i] # b[1] PROVE \E j \in 1 .. n - 1 : r[j] = b[i]
    <3>1. i - 1 \in 1 .. n - 1 /\ (i - 1) + 1 = i
        BY <2>6
    <3> QED
        BY <3>1, <2>2
  <2>7. ASSUME NEW s, InBacklog(s), s # b[1] PROVE InBacklog(s)'
    <3>1. PICK i \in 1 .. n : b[i] = s
        BY <2>7, <1>1 DEF InBacklog
    <3>2. PICK j \in 1 .. n - 1 : r[j] = s
        BY <3>1, <2>6, <2>7
    <3> QED
        BY <3>2, <2>2 DEF InBacklog
  <2> QED
      BY <2>1, <2>2, <2>4, <2>5, <2>7, <1>1, <1>2
<1>3. CASE worker.pc = "events"
    BY <1>1, <1>3 DEF WorkInv, InBacklog
<1>4. worker.pc # "wait"
    BY DEF WorkInv
<1> QED
    BY <1>2, <1>3, <1>4 DEF Types, WorkerState

\* A session before its first connection.
LEMMA NewSessionType == NewSession \in SessionState /\ NewSession.flags = {}
<1>1. /\ NoFd \in Fds \cup {NoFd} /\ "READY_STATE" \in Reading \cup Writing
      /\ "READY_STATE" \in {"READY_STATE", "PARSING_DATA"}
      /\ <<>> \in Seq(Units) /\ 0 \in Nat /\ {} \in SUBSET {"IN"}
    BY DEF Reading
<1>2. NewSession \in SessionState
    BY <1>1 DEF NewSession, SessionState
<1>3. NewSession.flags = {}
    BY DEF NewSession
<1> QED
    BY <1>2, <1>3

\* A socket that is closed belongs to no session.
LEMMA ClosedSocketType ==
    /\ ClosedSocket \in SocketState /\ ClosedSocket.ptr = NoSession
    /\ ~ClosedSocket.edge /\ ~ClosedSocket.open /\ ClosedSocket.peer = "gone"
<1>1. <<>> \in Seq(Units) /\ 0 \in 0 .. Room
    BY SessionAssumption
<1> QED
    BY <1>1 DEF ClosedSocket, SocketState

\* Between two calls of process.
LEMMA NotCalledType == NotCalled \in CallState
BY DEF NotCalled, CallState, Results

\* process has failed: the session goes back to the pool and its socket is closed.
LEMMA DispatchFailure ==
    ASSUME ServerInv, Dispatch, call.res = "FAILURE"
    PROVE  ServerInv'
<1> USE DEF ServerInv
<1>1. /\ call.pc = "done" /\ call' = NotCalled /\ worker' = worker
      /\ UNCHANGED <<listener, lost, accepts>>
      /\ backlog' = IF worker.pc = "backlog" THEN RemoveAt(backlog, 1) ELSE backlog
    BY DEF Dispatch, At, listenerVars, BacklogAfter, WorkInv
<1>2. PICK s \in Sessions, f \in Fds :
          /\ s = call.s /\ f = sess[s].socket /\ Registered(s) /\ s # NoSession
          /\ sess[s] \in SessionState /\ sess \in [Sessions -> SessionState]
          /\ sock \in [Fds -> SocketState] /\ sock[f].ptr = s
    BY <1>1, CallFacts DEF Registered
<1>3. /\ sock' = [g \in Fds |-> IF g = f THEN ClosedSocket ELSE sock[g]]
      /\ sess' = [sess EXCEPT ![s] = reset(sess[s])]
      /\ pool' = [pool EXCEPT ![s] = @ + 1]
    BY <1>2 DEF Dispatch, CloseAndReset
<1>4. PICK x : /\ x = reset(sess[s]) /\ x \in SessionState /\ x.socket = f
               /\ x.state = "READING_REQUEST" /\ x.flags = {}
  <2>1. <<>> \in Seq(Units) /\ "READING_REQUEST" \in Reading /\ "READY_STATE" \in Reading
      BY DEF Reading
  <2>2. PICK z \in SessionState : z = NewSession /\ z.flags = {}
      BY NewSessionType
  <2>3. PICK x : x = [z EXCEPT !.socket = f, !.state = "READING_REQUEST"]
      OBVIOUS
  <2>4. /\ x \in SessionState /\ x.socket = f /\ x.state = "READING_REQUEST"
        /\ x.flags = {}
      BY <2>1, <2>2, <2>3 DEF SessionState
  <2>5. x = reset(sess[s])
      BY <2>2, <2>3, <1>2 DEF reset
  <2> QED
      BY <2>4, <2>5
<1>5. sess'[s] = x /\ \A u \in Sessions : u # s => sess'[u] = sess[u]
    BY <1>2, <1>3, <1>4
<1>6. sock'[f] = ClosedSocket /\ \A g \in Fds : g # f => sock'[g] = sock[g]
    BY <1>3
<1>7. /\ ClosedSocket \in SocketState /\ ClosedSocket.ptr = NoSession
      /\ ~ClosedSocket.open /\ ~ClosedSocket.edge /\ ClosedSocket.peer = "gone"
    BY ClosedSocketType
<1>8. ~Registered(s)'
    BY <1>2, <1>4, <1>5, <1>6, <1>7 DEF Registered
<1>9. ASSUME NEW u \in Sessions, u # s
      PROVE  /\ Registered(u)' = Registered(u)
             /\ Registered(u) => /\ SeenIn(sess[u].socket)' = SeenIn(sess[u].socket)
                                 /\ SeenOut(sess[u].socket)' = SeenOut(sess[u].socket)
  <2>1. sess'[u] = sess[u]
      BY <1>5, <1>9
  <2>2. CASE sess[u].socket = f
      BY <2>1, <2>2, <1>2, <1>6, <1>7, <1>9, SessionAssumption DEF Registered
  <2>3. CASE sess[u].socket # f
      BY <2>1, <2>3, <1>6 DEF Registered, SeenIn, SeenOut
  <2> QED
      BY <2>2, <2>3
<1>10. /\ backlog' \in Seq(Sessions)
       /\ \A i \in 1 .. Len(backlog') :
             backlog'[i] # s /\ \E j \in 1 .. Len(backlog) : backlog'[i] = backlog[j]
       /\ \A i, j \in 1 .. Len(backlog') : backlog'[i] = backlog'[j] => i = j
       /\ \A u : InBacklog(u) /\ u # s => InBacklog(u)'
       /\ worker.pc = "wait" => backlog' = <<>>
    BY <1>1, <1>2, BacklogWithout
<1>11. \A u : InBacklog(u)' => InBacklog(u) /\ u # s
    BY <1>10 DEF InBacklog
<1>12. Types'
    BY <1>1, <1>2, <1>3, <1>4, <1>7, <1>10, NotCalledType DEF Types
<1>13. listener.s # s /\ s \notin lost /\ listener.fd # f
    BY <1>2 DEF PlaceInv, SocketInv
<1>14. SocketInv'
  <2>1. ASSUME NEW g \in Fds
        PROVE  /\ sock'[g].ptr # NoSession => sess'[sock'[g].ptr].socket = g
               /\ sock'[g].edge => sock'[g].ptr # NoSession
               /\ sock'[g].open <=> sock'[g].peer # "gone"
               /\ ~sock'[g].open => sock'[g].ptr = NoSession
    <3>1. CASE g = f
        BY <3>1, <1>6, <1>7
    <3>2. CASE g # f
      <4>1. sock'[g] = sock[g]
          BY <3>2, <1>6
      <4>2. sock[g].ptr # NoSession => sock[g].ptr \in Sessions /\ sock[g].ptr # s
          BY <3>2, <1>2 DEF SocketInv, SocketState
      <4> QED
          BY <4>1, <4>2, <1>5 DEF SocketInv
    <3> QED
        BY <3>1, <3>2
  <2>2. listener.s # NoSession => listener.s \in Sessions /\ sess'[listener.s] = sess[listener.s]
      BY <1>5, <1>13 DEF Types
  <2>3. listener.fd \in Fds => listener.s # NoSession /\ sock'[listener.fd] = sock[listener.fd]
      BY <1>6, <1>13, SessionAssumption DEF SocketInv, Accepting
  <2> QED
      BY <2>1, <2>2, <2>3, <1>1 DEF SocketInv
<1>15. PlaceInv'
  <2>1. pool \in [Sessions -> Nat] /\ pool[s] = 0
      BY <1>2 DEF Types, PlaceInv
  <2>2. pool'[s] = 1 /\ \A u \in Sessions : u # s => pool'[u] = pool[u]
      BY <2>1, <1>3
  <2> QED
      BY <2>2, <1>1, <1>8, <1>9, <1>13 DEF PlaceInv
<1>16. call'.pc = "none" /\ call'.s = NoSession
    BY <1>1 DEF NotCalled
<1>17. WorkInv'
  <2>1. \A b \in worker.batch : b.s \in Sessions /\ b.s # s /\ ~InBacklog(b.s)
      BY <1>2 DEF WorkInv, Types, WorkerState
  <2>2. \A u \in Sessions : InBatch(u)' \/ InBacklog(u)' => Registered(u)'
      BY <2>1, <1>1, <1>9, <1>11 DEF WorkInv, InBatch
  <2>3. \A b \in worker.batch : b.s # NoSession /\ ~InBacklog(b.s)'
      BY <2>1, <1>11, SessionAssumption
  <2>4. ~InBacklog(NoSession)'
      BY <1>10, SessionAssumption DEF InBacklog
  <2> QED
      BY <2>2, <2>3, <2>4, <1>1, <1>10, <1>16, SessionAssumption DEF WorkInv
<1>18. CallInv'
    BY <1>16 DEF CallInv
<1>19. BatchInv'
  <2> SUFFICES ASSUME NEW b \in worker.batch
               PROVE  /\ "IN" \notin b.ev => SeenIn(sess[b.s].socket)'
                      /\ "OUT" \notin b.ev => SeenOut(sess[b.s].socket)'
      BY <1>1 DEF BatchInv
  <2>1. b.s \in Sessions /\ Registered(b.s) /\ b.s # s
      BY <1>2 DEF WorkInv, InBatch, Types, WorkerState
  <2> QED
      BY <2>1, <1>9 DEF BatchInv
<1>20. BacklogInv'
  <2> SUFFICES ASSUME NEW i \in 1 .. Len(backlog')
               PROVE  /\ sess'[backlog'[i]].flags = {"IN"}
                      /\ sess'[backlog'[i]].state \in Reading
      BY DEF BacklogInv
  <2>1. PICK j \in 1 .. Len(backlog) : backlog'[i] = backlog[j] /\ backlog[j] # s
      BY <1>10
  <2>2. backlog[j] \in Sessions
      BY DEF Types
  <2> QED
      BY <2>1, <2>2, <1>2, <1>5 DEF BacklogInv
<1>21. QuietInv'
  <2> SUFFICES ASSUME NEW u \in Sessions, u # s, Registered(u), ~InBatch(u), ~InBacklog(u)
               PROVE  /\ sess'[u].state \in Reading => SeenIn(sess[u].socket)'
                      /\ sess'[u].state \in Writing => SeenOut(sess[u].socket)'
      BY <1>1, <1>8, <1>9, <1>10 DEF QuietInv, InBatch
  <2> QED
      BY <1>2, <1>5, <1>9 DEF QuietInv
<1>22. WritingHasReply'
  <2>1. x.state \notin Writing
      BY <1>4 DEF Writing
  <2> QED
      BY <2>1, <1>2, <1>5 DEF WritingHasReply
<1> QED
    BY <1>12, <1>14, <1>15, <1>17, <1>18, <1>19, <1>20, <1>21, <1>22

\* process has returned and its session goes on: it is quiet, or in the backlog.
LEMMA DispatchOther ==
    ASSUME ServerInv, Dispatch, call.res # "FAILURE"
    PROVE  ServerInv'
<1> USE DEF ServerInv
<1>1. /\ call.pc = "done" /\ call' = NotCalled /\ UNCHANGED <<sess, sock, pool>>
      /\ UNCHANGED <<listener, lost, accepts>> /\ call.res \in {"SUCCESS", "POSTPONED"}
    BY DEF Dispatch, At, listenerVars, Types, CallState, Results
<1>2. PICK s \in Sessions : /\ s = call.s /\ Registered(s) /\ s # NoSession
                            /\ CallAt(call, sess[s], sess[s].socket)
                            /\ sess[s].state \in Writing => sess[s].out > 0
    BY <1>1, CallFacts
<1>3. call.res = "POSTPONED" => worker.pc = "events"
  <2> SUFFICES ASSUME call.res = "POSTPONED" PROVE worker.pc = "events"
      OBVIOUS
  <2>1. "OUT" \in call.ev
      BY <1>1, <1>2 DEF CallAt
  <2>2. worker.pc # "backlog" /\ worker.pc # "wait"
      BY <2>1, <1>1 DEF WorkInv
  <2> QED
      BY <2>2 DEF Types, WorkerState
<1>4. /\ worker' = worker
      /\ backlog' = IF call.res = "POSTPONED" THEN Append(backlog, s)
                    ELSE IF worker.pc = "backlog" THEN RemoveAt(backlog, 1) ELSE backlog
    BY <1>1, <1>2, <1>3 DEF Dispatch, BacklogAfter, WorkInv
<1>5. call'.pc = "none" /\ call'.s = NoSession
    BY <1>1 DEF NotCalled
<1>6. /\ \A u \in Sessions : Registered(u)' = Registered(u) /\ InBatch(u)' = InBatch(u)
      /\ \A g : SeenIn(g)' = SeenIn(g) /\ SeenOut(g)' = SeenOut(g)
    BY <1>1, <1>4 DEF Registered, InBatch, SeenIn, SeenOut
<1>7. ASSUME backlog' \in Seq(Sessions),
             \A i, j \in 1 .. Len(backlog') : backlog'[i] = backlog'[j] => i = j,
             \A i \in 1 .. Len(backlog') :
                /\ sess[backlog'[i]].flags = {"IN"} /\ sess[backlog'[i]].state \in Reading
                /\ InBacklog(backlog'[i]) \/ backlog'[i] = s,
             \A u \in Sessions : InBacklog(u) /\ u # s => InBacklog(u)',
             InBacklog(s)' \/ /\ sess[s].state \in Reading => SeenIn(sess[s].socket)
                              /\ sess[s].state \in Writing => SeenOut(sess[s].socket),
             worker.pc = "wait" => backlog' = <<>>
      PROVE  ServerInv'
  <2>1. Types' /\ SocketInv' /\ PlaceInv'
      BY <1>1, <1>4, <1>6, <1>7, NotCalledType DEF Types, SocketInv, PlaceInv
  <2>2. \A u : InBacklog(u)' => u \in Sessions /\ (InBacklog(u) \/ u = s)
      BY <1>7 DEF InBacklog
  <2>3. WorkInv'
    <3>1. \A b \in worker.batch : b.s \in Sessions /\ b.s # s /\ ~InBacklog(b.s)
        BY <1>2 DEF WorkInv, Types, WorkerState
    <3>2. \A u \in Sessions : InBatch(u)' \/ InBacklog(u)' => Registered(u)'
        BY <2>2, <1>2, <1>6 DEF WorkInv
    <3>3. \A b \in worker.batch : b.s # NoSession /\ ~InBacklog(b.s)'
        BY <3>1, <2>2, SessionAssumption
    <3>4. ~InBacklog(NoSession)'
        BY <2>2, SessionAssumption
    <3> QED
        BY <3>2, <3>3, <3>4, <1>1, <1>4, <1>5, <1>7, SessionAssumption DEF WorkInv
  <2>4. CallInv' /\ BatchInv' /\ BacklogInv'
      BY <1>1, <1>4, <1>5, <1>6, <1>7 DEF CallInv, BatchInv, BacklogInv
  <2>5. QuietInv'
    <3> SUFFICES ASSUME NEW u \in Sessions, Registered(u), ~InBatch(u), ~InBacklog(u)'
                 PROVE  /\ sess[u].state \in Reading => SeenIn(sess[u].socket)
                        /\ sess[u].state \in Writing => SeenOut(sess[u].socket)
        BY <1>1, <1>6 DEF QuietInv
    <3>1. CASE u = s
        BY <3>1, <1>7
    <3>2. CASE u # s
        BY <3>2, <1>2, <1>7 DEF QuietInv
    <3> QED
        BY <3>1, <3>2
  <2>6. WritingHasReply'
      BY <1>1, <1>2 DEF WritingHasReply
  <2> QED
      BY <2>1, <2>3, <2>4, <2>5, <2>6
<1>8. ASSUME NEW u \in Sessions, InBacklog(u), u # s
      PROVE  sess[u].flags = {"IN"} /\ sess[u].state \in Reading
    BY <1>2, <1>8 DEF BacklogInv, InBacklog
<1>9. CASE call.res = "POSTPONED"
  <2>1. PICK b \in Seq(Sessions), n \in Nat : b = backlog /\ n = Len(b)
      BY DEF Types
  <2>2. PICK r \in Seq(Sessions) :
            /\ r = backlog' /\ Len(r) = n + 1 /\ r[n + 1] = s
            /\ \A i \in 1 .. n : r[i] = b[i] /\ i # n + 1
            /\ \A i \in 1 .. n + 1 : i # n + 1 => i \in 1 .. n
    <3>1. PICK r : r = Append(b, s)
        OBVIOUS
    <3>2. /\ r \in Seq(Sessions) /\ Len(r) = n + 1 /\ r[n + 1] = s
          /\ \A i \in 1 .. n : r[i] = b[i]
        BY <3>1, <2>1
    <3>3. backlog' = r
        BY <3>1, <2>1, <1>4, <1>9
    <3> QED
        BY <3>2, <3>3
  <2>3. \A i \in 1 .. n : b[i] # s /\ b[i] \in Sessions
      BY <2>1, <1>2, <1>3, <1>9 DEF WorkInv, InBacklog
  <2>4. \A i, j \in 1 .. n : b[i] = b[j] => i = j
      BY <2>1 DEF WorkInv
  <2>5. \A i, j \in 1 .. n + 1 : r[i] = r[j] => i = j
      BY <2>2, <2>3, <2>4
  <2>6. sess[s].flags = {"IN"} /\ sess[s].state \in Reading
      BY <1>1, <1>2, <1>9 DEF CallAt
  <2>7. \A i \in 1 .. n : InBacklog(b[i])
      BY <2>1 DEF InBacklog
  <2>8. \A i \in 1 .. n + 1 : /\ sess[r[i]].flags = {"IN"} /\ sess[r[i]].state \in Reading
                              /\ InBacklog(r[i]) \/ r[i] = s
      BY <2>2, <2>3, <2>6, <2>7, <1>8
  <2>9. \A u \in Sessions : InBacklog(u) \/ u = s => InBacklog(u)'
    <3>1. n + 1 \in 1 .. n + 1 /\ \A i \in 1 .. n : i \in 1 .. n + 1
        OBVIOUS
    <3> QED
        BY <3>1, <2>1, <2>2 DEF InBacklog
  <2> QED
      BY <2>2, <2>5, <2>8, <2>9, <1>3, <1>7, <1>9
<1>10. CASE call.res = "SUCCESS"
  <2>1. /\ backlog' \in Seq(Sessions)
        /\ \A i \in 1 .. Len(backlog') :
              backlog'[i] # s /\ \E j \in 1 .. Len(backlog) : backlog'[i] = backlog[j]
        /\ \A i, j \in 1 .. Len(backlog') : backlog'[i] = backlog'[j] => i = j
        /\ \A u : InBacklog(u) /\ u # s => InBacklog(u)'
        /\ worker.pc = "wait" => backlog' = <<>>
      BY <1>1, <1>2, <1>4, <1>10, BacklogWithout
  <2>2. ASSUME NEW i \in 1 .. Len(backlog')
        PROVE  /\ sess[backlog'[i]].flags = {"IN"} /\ sess[backlog'[i]].state \in Reading
               /\ InBacklog(backlog'[i])
    <3>1. backlog'[i] \in Sessions /\ InBacklog(backlog'[i]) /\ backlog'[i] # s
        BY <2>1 DEF InBacklog
    <3> QED
        BY <3>1, <1>8
  <2>3. /\ sess[s].state \in Reading => SeenIn(sess[s].socket)
        /\ sess[s].state \in Writing => SeenOut(sess[s].socket)
      BY <1>1, <1>2, <1>10 DEF CallAt
  <2> QED
      BY <2>1, <2>2, <2>3, <1>7
<1> QED
    BY <1>1, <1>9, <1>10

-----------------------------------------------------------------------------
(* The listener and the clients *)

\* The listener takes a session from the pool for a connection: the session and
\* the socket are known to nobody else.
LEMMA addSessionStep ==
    ASSUME ServerInv, addSession
    PROVE  ServerInv'
<1> USE DEF ServerInv
<1>1. /\ listener = Accepting /\ listener.s = NoSession /\ accepts' = accepts + 1
      /\ UNCHANGED <<call, backlog, worker, lost>>
      /\ sock \in [Fds -> SocketState] /\ sess \in [Sessions -> SessionState]
      /\ pool \in [Sessions -> Nat] /\ accepts \in Nat
    BY DEF addSession, Accepting, Types
<1>2. PICK f \in Accepted, s \in {x \in Sessions : pool[x] > 0} :
          /\ pool' = [pool EXCEPT ![s] = @ - 1]
          /\ sess' = [sess EXCEPT ![s].socket = f, ![s].req = "READY_STATE"]
          /\ IF f = NoFd THEN UNCHANGED sock
             ELSE \E stream \in Streams[f] : sock' = [sock EXCEPT ![f] = AcceptedSocket(stream)]
          /\ listener' = [s |-> s, fd |-> f]
    BY DEF addSession
<1>3. /\ f \in Fds \cup {NoFd} /\ (f \in Fds => ~sock[f].open /\ sock[f].ptr = NoSession)
      /\ f = NoFd <=> f \notin Fds
    BY SessionAssumption DEF Accepted, SocketInv
<1>4. /\ s \in Sessions /\ s # NoSession /\ s \notin lost /\ ~Registered(s)
      /\ pool[s] = 1
    BY SessionAssumption DEF PlaceInv
<1>5. PICK x : x = [sess[s] EXCEPT !.socket = f, !.req = "READY_STATE"]
    OBVIOUS
<1>6. /\ x \in SessionState /\ x.socket = f /\ x.state = sess[s].state
      /\ x.flags = sess[s].flags /\ x.out = sess[s].out
    BY <1>1, <1>3, <1>4, <1>5 DEF SessionState
<1>7. sess' = [sess EXCEPT ![s] = x]
    BY <1>1, <1>2, <1>4, <1>5
<1>8. sess'[s] = x /\ \A u \in Sessions : u # s => sess'[u] = sess[u]
    BY <1>1, <1>4, <1>7
<1>9. /\ sock' \in [Fds -> SocketState]
      /\ \A g \in Fds : g # f => sock'[g] = sock[g]
      /\ f \in Fds => /\ sock'[f].open /\ sock'[f].peer = "open" /\ ~sock'[f].edge
                      /\ sock'[f].ptr = NoSession
  <2>1. CASE f \notin Fds
      BY <2>1, <1>1, <1>2, <1>3
  <2>2. CASE f \in Fds
    <3>1. PICK stream \in Streams[f] : sock' = [sock EXCEPT ![f] = AcceptedSocket(stream)]
        BY <2>2, <1>2, <1>3
    <3>2. stream \in Seq(Units)
        BY <2>2, SessionAssumption
    <3>3. PICK z \in SocketState : z = ClosedSocket /\ z.ptr = NoSession /\ ~z.edge
        BY ClosedSocketType
    <3>4. PICK y : y = [z EXCEPT !.open = TRUE, !.plan = stream, !.peer = "open", !.room = Room]
        OBVIOUS
    <3>5. /\ y \in SocketState /\ y.ptr = NoSession /\ y.open = TRUE /\ y.peer = "open"
          /\ ~y.edge
      <4>1. Room \in 0 .. Room
          BY SessionAssumption
      <4> QED
          BY <4>1, <3>2, <3>3, <3>4 DEF SocketState
    <3>6. sock' = [sock EXCEPT ![f] = y]
        BY <3>1, <3>3, <3>4 DEF AcceptedSocket
    <3> QED
        BY <3>5, <3>6, <2>2, <1>1
  <2> QED
      BY <2>1, <2>2
<1>10. \A g \in Fds : sock'[g].ptr = sock[g].ptr
    BY <1>3, <1>9
<1>11. ASSUME NEW u \in Sessions
       PROVE  /\ Registered(u)' = Registered(u)
              /\ Registered(u) => /\ u # s /\ sess'[u] = sess[u]
                                  /\ SeenIn(sess[u].socket)' = SeenIn(sess[u].socket)
                                  /\ SeenOut(sess[u].socket)' = SeenOut(sess[u].socket)
  <2>1. CASE u = s
    <3>1. ~Registered(s)'
        BY <1>3, <1>4, <1>6, <1>8, <1>9 DEF Registered
    <3>2. ~Registered(u)' /\ ~Registered(u)
        BY <3>1, <2>1, <1>4
    <3>3. Registered(u)' \in BOOLEAN /\ Registered(u) \in BOOLEAN
        BY DEF Registered
    <3> QED
        BY <3>2, <3>3
  <2>2. CASE u # s
    <3>1. sess'[u] = sess[u]
        BY <2>2, <1>8
    <3>2. Registered(u) => sess[u].socket # f /\ sess[u].socket \in Fds
        BY <1>3, SessionAssumption DEF Registered
    <3> QED
        BY <3>1, <3>2, <2>2, <1>9, <1>10 DEF Registered, SeenIn, SeenOut
  <2> QED
      BY <2>1, <2>2
<1>12. PICK l : /\ l = [s |-> s, fd |-> f] /\ listener' = l /\ l.s = s /\ l.fd = f
                /\ l \in [s : Sessions \cup {NoSession}, fd : Fds \cup {NoFd}]
    BY <1>2, <1>3, <1>4
<1>13. Types'
  <2>1. pool' \in [Sessions -> Nat]
      BY <1>1, <1>2, <1>4
  <2>2. sess' \in [Sessions -> SessionState]
      BY <1>1, <1>6, <1>7
  <2>3. accepts' \in Nat
      BY <1>1
  <2> QED
      BY <2>1, <2>2, <2>3, <1>1, <1>9, <1>12 DEF Types
<1>14. SocketInv'
  <2>1. ASSUME NEW g \in Fds
        PROVE  /\ sock'[g].ptr # NoSession => sess'[sock'[g].ptr].socket = g
               /\ sock'[g].edge => sock'[g].ptr # NoSession
               /\ sock'[g].open <=> sock'[g].peer # "gone"
               /\ ~sock'[g].open => sock'[g].ptr = NoSession
    <3>1. CASE g = f
        BY <3>1, <1>9
    <3>2. CASE g # f
      <4>1. sock'[g] = sock[g]
          BY <3>2, <1>9
      <4>2. sock[g].ptr # NoSession => sock[g].ptr \in Sessions /\ sock[g].ptr # s
          BY <1>1, <1>4 DEF SocketInv, SocketState, Registered
      <4> QED
          BY <4>1, <4>2, <1>8 DEF SocketInv
    <3> QED
        BY <3>1, <3>2
  <2>2. l # Accepting
      BY <1>4, <1>12 DEF Accepting
  <2> QED
      BY <2>1, <2>2, <1>4, <1>6, <1>8, <1>9, <1>12 DEF SocketInv
<1>15. PlaceInv'
  <2>1. pool'[s] = 0 /\ \A u \in Sessions : u # s => pool'[u] = pool[u]
      BY <1>1, <1>2, <1>4
  <2>2. \A u \in Sessions : listener.s # u
      BY <1>1, SessionAssumption
  <2> QED
      BY <2>1, <2>2, <1>1, <1>4, <1>11, <1>12 DEF PlaceInv
<1>16. /\ \A u : InBatch(u)' = InBatch(u) /\ InBacklog(u)' = InBacklog(u)
    BY <1>1 DEF InBatch, InBacklog
<1>17. WorkInv'
    BY <1>1, <1>11, <1>16 DEF WorkInv
<1>18. CallInv'
  <2> SUFFICES ASSUME call.pc # "none"
               PROVE  CallAt(call, sess[call.s], sess[call.s].socket)'
      BY <1>1 DEF CallInv
  <2>1. call.s \in Sessions /\ Registered(call.s) /\ CallAt(call, sess[call.s], sess[call.s].socket)
      BY CallFacts
  <2>2. sock'[sess[call.s].socket] = sock[sess[call.s].socket]
      BY <2>1, <1>3, <1>9, SessionAssumption DEF Registered
  <2> QED
      BY <2>1, <2>2, <1>1, <1>11 DEF CallAt
<1>19. BatchInv'
  <2> SUFFICES ASSUME NEW b \in worker.batch
               PROVE  /\ "IN" \notin b.ev => SeenIn(sess[b.s].socket)'
                      /\ "OUT" \notin b.ev => SeenOut(sess[b.s].socket)'
      BY <1>1 DEF BatchInv
  <2>1. b.s \in Sessions /\ Registered(b.s)
      BY DEF WorkInv, InBatch, Types, WorkerState
  <2> QED
      BY <2>1, <1>11 DEF BatchInv
<1>20. \A u \in Sessions : /\ sess'[u].state = sess[u].state /\ sess'[u].flags = sess[u].flags
                           /\ sess'[u].out = sess[u].out
    BY <1>6, <1>8
<1>21. BacklogInv'
  <2>1. \A i \in 1 .. Len(backlog) : backlog[i] \in Sessions
      BY DEF Types
  <2> QED
      BY <2>1, <1>1, <1>20 DEF BacklogInv
<1>22. QuietInv'
    BY <1>1, <1>11, <1>16, <1>20 DEF QuietInv
<1>23. WritingHasReply'
    BY <1>1, <1>20 DEF WritingHasReply
<1> QED
    BY <1>13, <1>14, <1>15, <1>17, <1>18, <1>19, <1>21, <1>22, <1>23

\* The listener registers the socket: its state is announced by an edge.
LEMMA RegisterStep ==
    ASSUME ServerInv, Register
    PROVE  ServerInv'
<1> USE DEF ServerInv
<1>1. /\ UNCHANGED <<sess, call, pool, backlog, worker, lost, accepts>>
      /\ listener' = Accepting /\ Accepting.s = NoSession /\ Accepting.fd = NoFd
      /\ sock \in [Fds -> SocketState] /\ sess \in [Sessions -> SessionState]
    BY DEF Register, workerVars, Accepting, Types
<1>2. PICK s \in Sessions, f \in Fds :
          /\ s = listener.s /\ f = listener.fd /\ s # NoSession
          /\ sock[f].open /\ sock[f].ptr = NoSession /\ sess[s].socket = f
          /\ ~Registered(s) /\ s \notin lost /\ pool[s] = 0
  <2>1. listener.fd \in Fds /\ listener.s # NoSession /\ listener.s \in Sessions
      BY SessionAssumption DEF Register, SocketInv, Types, Accepting
  <2> QED
      BY <2>1 DEF SocketInv, PlaceInv
<1>3. PICK y : y = Wake([sock[f] EXCEPT !.ptr = s]) /\ sock' = [sock EXCEPT ![f] = y]
    BY <1>2 DEF Register
<1>4. /\ y \in SocketState /\ y.ptr = s /\ y.open = sock[f].open /\ y.edge = TRUE
      /\ y.peer = sock[f].peer
  <2>1. PICK z : z = [sock[f] EXCEPT !.ptr = s]
      OBVIOUS
  <2>2. /\ z \in SocketState /\ z.ptr = s /\ z.open = sock[f].open /\ z.peer = sock[f].peer
      BY <2>1, <1>1 DEF SocketState
  <2>3. y = [z EXCEPT !.edge = TRUE]
      BY <2>1, <2>2, <1>2, <1>3 DEF Wake
  <2> QED
      BY <2>2, <2>3 DEF SocketState
<1>5. sock'[f] = y /\ \A g \in Fds : g # f => sock'[g] = sock[g]
    BY <1>1, <1>3
<1>6. Registered(s)' /\ SeenIn(sess[s].socket)' /\ SeenOut(sess[s].socket)'
    BY <1>1, <1>2, <1>4, <1>5 DEF Registered, SeenIn, SeenOut
<1>7. ASSUME NEW u \in Sessions, u # s
      PROVE  /\ Registered(u)' = Registered(u)
             /\ Registered(u) => /\ SeenIn(sess[u].socket)' = SeenIn(sess[u].socket)
                                 /\ SeenOut(sess[u].socket)' = SeenOut(sess[u].socket)
  <2>1. CASE sess[u].socket = f
      BY <2>1, <1>1, <1>2, <1>4, <1>5, <1>7, SessionAssumption DEF Registered
  <2>2. CASE sess[u].socket # f
      BY <2>2, <1>1, <1>5 DEF Registered, SeenIn, SeenOut
  <2> QED
      BY <2>1, <2>2
<1>8. Types'
  <2>1. listener' \in [s : Sessions \cup {NoSession}, fd : Fds \cup {NoFd}]
      BY <1>1 DEF Accepting
  <2> QED
      BY <2>1, <1>1, <1>3, <1>4 DEF Types
<1>9. SocketInv'
  <2>1. ASSUME NEW g \in Fds
        PROVE  /\ sock'[g].ptr # NoSession => sess[sock'[g].ptr].socket = g
               /\ sock'[g].edge => sock'[g].ptr # NoSession
               /\ sock'[g].open <=> sock'[g].peer # "gone"
               /\ ~sock'[g].open => sock'[g].ptr = NoSession
    <3>1. CASE g = f
        BY <3>1, <1>2, <1>4, <1>5 DEF SocketInv
    <3>2. CASE g # f
        BY <3>2, <1>5 DEF SocketInv
    <3> QED
        BY <3>1, <3>2
  <2> QED
      BY <2>1, <1>1, SessionAssumption DEF SocketInv
<1>10. PlaceInv'
    BY <1>1, <1>2, <1>6, <1>7, SessionAssumption DEF PlaceInv
<1>11. \A u : InBatch(u)' = InBatch(u) /\ InBacklog(u)' = InBacklog(u)
    BY <1>1 DEF InBatch, InBacklog
<1>12. WorkInv'
    BY <1>1, <1>6, <1>7, <1>11 DEF WorkInv
<1>13. CallInv'
  <2> SUFFICES ASSUME call.pc # "none"
               PROVE  CallAt(call, sess[call.s], sess[call.s].socket)'
      BY <1>1 DEF CallInv
  <2>1. call.s \in Sessions /\ Registered(call.s) /\ CallAt(call, sess[call.s], sess[call.s].socket)
      BY CallFacts
  <2>2. sock'[sess[call.s].socket] = sock[sess[call.s].socket]
      BY <2>1, <1>2, <1>5, SessionAssumption DEF Registered
  <2> QED
      BY <2>1, <2>2, <1>1 DEF CallAt, SeenIn, SeenOut
<1>14. BatchInv'
  <2> SUFFICES ASSUME NEW b \in worker.batch
               PROVE  /\ "IN" \notin b.ev => SeenIn(sess[b.s].socket)'
                      /\ "OUT" \notin b.ev => SeenOut(sess[b.s].socket)'
      BY <1>1 DEF BatchInv
  <2>1. b.s \in Sessions /\ Registered(b.s) /\ b.s # s
      BY <1>2 DEF WorkInv, InBatch, Types, WorkerState
  <2> QED
      BY <2>1, <1>7 DEF BatchInv
<1>15. BacklogInv' /\ WritingHasReply'
    BY <1>1 DEF BacklogInv, WritingHasReply
<1>16. QuietInv'
  <2> SUFFICES ASSUME NEW u \in Sessions, Registered(u)', call.s # u, ~InBatch(u), ~InBacklog(u)
               PROVE  /\ sess[u].state \in Reading => SeenIn(sess[u].socket)'
                      /\ sess[u].state \in Writing => SeenOut(sess[u].socket)'
      BY <1>1, <1>11 DEF QuietInv
  <2>1. CASE u = s
      BY <2>1, <1>6
  <2>2. CASE u # s
      BY <2>2, <1>7 DEF QuietInv
  <2> QED
      BY <2>1, <2>2
<1> QED
    BY <1>8, <1>9, <1>10, <1>12, <1>13, <1>14, <1>15, <1>16

\* epoll_ctl fails: the session is lost, and the socket closed was nobody's.
LEMMA RegisterFailsStep ==
    ASSUME ServerInv, RegisterFails
    PROVE  ServerInv'
<1> USE DEF ServerInv
<1>1. /\ UNCHANGED <<sess, call, pool, backlog, worker, accepts>>
      /\ listener' = Accepting /\ Accepting.s = NoSession /\ Accepting.fd = NoFd
      /\ sock \in [Fds -> SocketState] /\ sess \in [Sessions -> SessionState]
    BY DEF RegisterFails, workerVars, Accepting, Types
<1>2. PICK s \in Sessions, f \in Fds \cup {NoFd} :
          /\ s = listener.s /\ f = listener.fd /\ s # NoSession
          /\ f \in Fds => sock[f].ptr = NoSession
          /\ ~Registered(s) /\ s \notin lost /\ pool[s] = 0 /\ lost' = lost \cup {s}
  <2>1. listener.fd \in Fds \cup {NoFd} /\ listener.s # NoSession /\ listener.s \in Sessions
      BY DEF RegisterFails, Types
  <2>2. lost' = lost \cup {listener.s}
      BY DEF RegisterFails
  <2> QED
      BY <2>1, <2>2 DEF SocketInv, PlaceInv
<1>3. sock' = [g \in Fds |-> IF g = f THEN ClosedSocket ELSE sock[g]]
    BY <1>2 DEF RegisterFails
<1>4. ASSUME NEW g \in Fds
      PROVE  IF g = f THEN sock'[g] = ClosedSocket ELSE sock'[g] = sock[g]
    BY <1>3
<1>5. \A g \in Fds : /\ sock'[g] \in SocketState /\ sock'[g].ptr = sock[g].ptr
                     /\ sock'[g].ptr # NoSession => sock'[g] = sock[g]
    BY <1>1, <1>2, <1>4, ClosedSocketType
<1>6. ASSUME NEW u \in Sessions
      PROVE  /\ Registered(u)' = Registered(u)
             /\ Registered(u) => /\ sock'[sess[u].socket] = sock[sess[u].socket]
                                 /\ SeenIn(sess[u].socket)' = SeenIn(sess[u].socket)
                                 /\ SeenOut(sess[u].socket)' = SeenOut(sess[u].socket)
  <2>1. Registered(u)' = Registered(u)
      BY <1>1, <1>5 DEF Registered
  <2>2. Registered(u) => sock'[sess[u].socket] = sock[sess[u].socket]
      BY <1>5, SessionAssumption DEF Registered
  <2> QED
      BY <2>1, <2>2, <1>1 DEF SeenIn, SeenOut
<1>7. Types'
  <2>1. listener' \in [s : Sessions \cup {NoSession}, fd : Fds \cup {NoFd}]
      BY <1>1 DEF Accepting
  <2>2. sock' \in [Fds -> SocketState]
      BY <1>3, <1>5
  <2>3. lost' \subseteq Sessions
      BY <1>2 DEF Types
  <2> QED
      BY <2>1, <2>2, <2>3, <1>1 DEF Types
<1>8. SocketInv'
  <2>1. ASSUME NEW g \in Fds
        PROVE  /\ sock'[g].ptr # NoSession => sess[sock'[g].ptr].socket = g
               /\ sock'[g].edge => sock'[g].ptr # NoSession
               /\ sock'[g].open <=> sock'[g].peer # "gone"
               /\ ~sock'[g].open => sock'[g].ptr = NoSession
    <3>1. CASE g = f
        BY <3>1, <1>4, ClosedSocketType
    <3>2. CASE g # f
        BY <3>2, <1>4 DEF SocketInv
    <3> QED
        BY <3>1, <3>2
  <2> QED
      BY <2>1, <1>1, SessionAssumption DEF SocketInv
<1>9. PlaceInv'
  <2>1. \A u \in Sessions : u \in lost' <=> u \in lost \/ listener.s = u
      BY <1>2
  <2>2. \A u \in Sessions : listener'.s # u
      BY <1>1, SessionAssumption
  <2> QED
      BY <2>1, <2>2, <1>1, <1>6 DEF PlaceInv
<1>10. \A u : InBatch(u)' = InBatch(u) /\ InBacklog(u)' = InBacklog(u)
    BY <1>1 DEF InBatch, InBacklog
<1>11. WorkInv'
    BY <1>1, <1>6, <1>10 DEF WorkInv
<1>12. CallInv'
  <2> SUFFICES ASSUME call.pc # "none"
               PROVE  CallAt(call, sess[call.s], sess[call.s].socket)'
      BY <1>1 DEF CallInv
  <2>1. call.s \in Sessions /\ Registered(call.s) /\ CallAt(call, sess[call.s], sess[call.s].socket)
      BY CallFacts
  <2> QED
      BY <2>1, <1>1, <1>6 DEF CallAt, SeenIn, SeenOut
<1>13. BatchInv'
  <2> SUFFICES ASSUME NEW b \in worker.batch
               PROVE  /\ "IN" \notin b.ev => SeenIn(sess[b.s].socket)'
                      /\ "OUT" \notin b.ev => SeenOut(sess[b.s].socket)'
      BY <1>1 DEF BatchInv
  <2>1. b.s \in Sessions /\ Registered(b.s)
      BY DEF WorkInv, InBatch, Types, WorkerState
  <2> QED
      BY <2>1, <1>6 DEF BatchInv
<1>14. BacklogInv' /\ WritingHasReply'
    BY <1>1 DEF BacklogInv, WritingHasReply
<1>15. QuietInv'
    BY <1>1, <1>6, <1>10 DEF QuietInv
<1> QED
    BY <1>7, <1>8, <1>9, <1>11, <1>12, <1>13, <1>14, <1>15

\* A change of a registered socket wakes epoll.
LEMMA WakeType ==
    ASSUME NEW z \in SocketState
    PROVE  /\ Wake(z) \in SocketState
           /\ Wake(z).ptr = z.ptr /\ Wake(z).open = z.open /\ Wake(z).peer = z.peer
           /\ Wake(z).edge <=> z.ptr # NoSession
<1>1. PICK b \in BOOLEAN : b = (z.ptr # NoSession)
    OBVIOUS
<1>2. PICK y : y = [z EXCEPT !.edge = b]
    OBVIOUS
<1>3. /\ y \in SocketState /\ y.ptr = z.ptr /\ y.open = z.open /\ y.peer = z.peer
      /\ y.edge = b
    BY <1>2 DEF SocketState
<1>4. Wake(z) = y
    BY <1>1, <1>2 DEF Wake
<1> QED
    BY <1>1, <1>3, <1>4

\* A client sends, reads its replies, or leaves.
LEMMA ClientStep ==
    ASSUME ServerInv, NEW f \in Fds, Client(f)
    PROVE  ServerInv'
<1>1. /\ UNCHANGED <<workerVars, listenerVars>>
      /\ sock[f] \in SocketState
      /\ sock[f].edge => sock[f].ptr # NoSession
      /\ sock[f].open <=> sock[f].peer # "gone"
    BY DEF Client, ServerInv, Types, SocketInv
<1>2. CASE ClientSend(f)
  <2>1. sock[f].peer = "open" /\ sock[f].plan # <<>> /\ UNCHANGED <<sess, call>>
      BY <1>2 DEF ClientSend
  <2>2. PICK z : z = Arrive(sock[f])
      OBVIOUS
  <2>3. /\ z \in SocketState /\ z.ptr = sock[f].ptr /\ z.open = sock[f].open
        /\ z.peer = sock[f].peer
    <3>1. sock[f].plan \in Seq(Units) /\ sock[f].inq \in Seq(Units) /\ sock[f].asked \in Nat
        BY <1>1 DEF SocketState
    <3>2. PICK u \in Units, p \in Seq(Units) :
              u = Head(sock[f].plan) /\ p = Tail(sock[f].plan)
      <4>1. Head(sock[f].plan) \in Units /\ Tail(sock[f].plan) \in Seq(Units)
          BY <2>1, <3>1
      <4> QED
          BY <4>1
    <3>3. PICK q \in Seq(Units), n \in Nat :
              /\ q = Append(sock[f].inq, u)
              /\ n = IF u = "ask" THEN sock[f].asked + 1 ELSE sock[f].asked
      <4>1. Append(sock[f].inq, u) \in Seq(Units)
          BY <3>1
      <4>2. (IF u = "ask" THEN sock[f].asked + 1 ELSE sock[f].asked) \in Nat
          BY <3>1
      <4> QED
          BY <4>1, <4>2
    <3>4. z = [sock[f] EXCEPT !.plan = p, !.inq = q, !.asked = n]
        BY <2>2, <3>2, <3>3 DEF Arrive
    <3> QED
        BY <3>4, <1>1 DEF SocketState
  <2>4. sock' = [sock EXCEPT ![f] = Wake(z)]
      BY <2>2, <1>2 DEF ClientSend
  <2> QED
      BY <2>1, <2>3, <2>4, <1>1, WakeType, ClientFrame
<1>3. CASE ClientRead(f)
  <2>1. UNCHANGED <<sess, call>> /\ sock[f].room \in 0 .. Room /\ Room \in 0 .. Room
      BY <1>1, <1>3, SessionAssumption DEF ClientRead, SocketState
  <2>2. PICK z : z = [sock[f] EXCEPT !.room = Room]
      OBVIOUS
  <2>3. /\ z \in SocketState /\ z.ptr = sock[f].ptr /\ z.open = sock[f].open
        /\ z.peer = sock[f].peer /\ z.edge = sock[f].edge /\ z.inq = sock[f].inq
      BY <2>1, <2>2, <1>1 DEF SocketState
  <2>4. CASE sock[f].room = 0
    <3>1. sock' = [sock EXCEPT ![f] = Wake(z)]
        BY <2>2, <2>4, <1>3 DEF ClientRead
    <3> QED
        BY <3>1, <2>1, <2>3, <1>1, WakeType, ClientFrame
  <2>5. CASE sock[f].room # 0
    <3>1. sock' = [sock EXCEPT ![f] = z]
        BY <2>2, <2>5, <1>3 DEF ClientRead
    <3>2. sock[f].room > 0
        BY <2>1, <2>5, SessionAssumption
    <3>3. /\ SeenIn(f) => (z.inq # <<>> \/ z.peer = "rst" => z.edge)
          /\ SeenOut(f) => (z.room > 0 => z.edge)
        BY <3>2, <2>3 DEF SeenIn, SeenOut
    <3> QED
        BY <3>1, <3>3, <2>1, <2>3, <1>1, ClientFrame
  <2> QED
      BY <2>4, <2>5
<1>4. ASSUME NEW how \in Closings, ClientClose(f, how)
      PROVE  ServerInv'
  <2>1. UNCHANGED <<sess, call>> /\ sock[f].peer = "open" /\ how \in {"fin", "rst"}
      BY <1>4, ServerThreadAssumption DEF ClientClose
  <2>2. PICK z : z = [sock[f] EXCEPT !.peer = how, !.plan = <<>>]
      OBVIOUS
  <2>3. /\ z \in SocketState /\ z.ptr = sock[f].ptr /\ z.open = sock[f].open
        /\ z.peer = how
    <3>1. <<>> \in Seq(Units) /\ how \in {"open", "fin", "rst", "gone"}
        BY <2>1
    <3> QED
        BY <3>1, <2>2, <1>1 DEF SocketState
  <2>4. sock' = [sock EXCEPT ![f] = Wake(z)]
      BY <2>2, <1>4 DEF ClientClose
  <2> QED
      BY <2>1, <2>3, <2>4, <1>1, WakeType, ClientFrame
<1> QED
    BY <1>2, <1>3, <1>4 DEF Client

-----------------------------------------------------------------------------
(* The inductive invariant holds *)

\* The threads start with every session in the pool.
LEMMA ServerInit == Init => ServerInv
<1> SUFFICES ASSUME Init
             PROVE  ServerInv
    OBVIOUS
<1>1. /\ sess = [s \in Sessions |-> NewSession] /\ sock = [f \in Fds |-> ClosedSocket]
      /\ call = NotCalled /\ pool = [s \in Sessions |-> 1] /\ backlog = <<>>
      /\ worker = [pc |-> "backlog", pos |-> 1, batch |-> {}]
      /\ listener = Accepting /\ lost = {} /\ accepts = 0
    BY DEF Init
<1>2. /\ worker.pc = "backlog" /\ worker.pos = 1 /\ worker.batch = {}
      /\ worker \in WorkerState
    BY <1>1 DEF WorkerState
<1>3. /\ listener.s = NoSession /\ listener.fd = NoFd
      /\ listener \in [s : Sessions \cup {NoSession}, fd : Fds \cup {NoFd}]
    BY <1>1 DEF Accepting
<1>4. call.pc = "none" /\ call.s = NoSession
    BY <1>1 DEF NotCalled
<1>5. \A s \in Sessions : ~Registered(s) /\ s # NoSession
    BY <1>1, ClosedSocketType, SessionAssumption DEF Registered
<1>6. \A s : ~InBatch(s) /\ ~InBacklog(s)
    BY <1>1, <1>2 DEF InBatch, InBacklog
<1>7. Types
    BY <1>1, <1>2, <1>3, NewSessionType, ClosedSocketType, NotCalledType DEF Types
<1>8. SocketInv
    BY <1>1, <1>3, ClosedSocketType, SessionAssumption DEF SocketInv
<1>9. PlaceInv
    BY <1>1, <1>3, <1>5 DEF PlaceInv
<1>10. WorkInv
    BY <1>1, <1>2, <1>4, <1>5, <1>6 DEF WorkInv
<1>11. CallInv /\ BatchInv /\ BacklogInv /\ QuietInv
    BY <1>1, <1>2, <1>4, <1>5 DEF CallInv, BatchInv, BacklogInv, QuietInv
<1>12. WritingHasReply
  <2>1. NewSession.state = "READY_STATE"
      BY DEF NewSession
  <2> QED
      BY <2>1, <1>1 DEF WritingHasReply, Writing
<1> QED
    BY <1>7, <1>8, <1>9, <1>10, <1>11, <1>12 DEF ServerInv

\* Nothing of what ServerInv says changes when no variable does.
LEMMA ServerStutter == ServerInv /\ UNCHANGED vars => ServerInv'
<1> SUFFICES ASSUME ServerInv, UNCHANGED vars
             PROVE  ServerInv'
    OBVIOUS
<1>1. UNCHANGED <<sess, sock, call, pool, backlog, worker, listener, lost, accepts>>
    BY DEF vars
<1>2. Types' /\ SocketInv' /\ PlaceInv'
    BY <1>1 DEF ServerInv, Types, SocketInv, PlaceInv, Registered
<1>3. WorkInv'
    BY <1>1 DEF ServerInv, WorkInv, InBatch, InBacklog, Registered
<1>4. CallInv'
    BY <1>1 DEF ServerInv, CallInv, CallAt, SeenIn, SeenOut
<1>5. BatchInv' /\ BacklogInv' /\ WritingHasReply'
    BY <1>1 DEF ServerInv, BatchInv, BacklogInv, WritingHasReply, SeenIn, SeenOut
<1>6. QuietInv'
    BY <1>1 DEF ServerInv, QuietInv, SeenIn, SeenOut, Registered, InBatch, InBacklog
<1> QED
    BY <1>2, <1>3, <1>4, <1>5, <1>6 DEF ServerInv

\* One step of process.
LEMMA ProcessKeeps ==
    ASSUME ServerInv, Process, BelowThreshold'
    PROVE  ServerInv'
<1>1. ProcessStep /\ UNCHANGED <<workerVars, listenerVars>>
    BY DEF Process
<1>2. CASE RecvData \/ RecvEnd \/ RecvFails
    BY <1>1, <1>2, RecvDataStep, RecvEndStep, RecvFailsStep
<1>3. CASE ParseNothing \/ ParseRequests
    BY <1>1, <1>3, ParseNothingStep, ParseRequestsStep
<1>4. CASE SendSome \/ SendBlocks \/ SendFails \/ AllSent
    BY <1>1, <1>4, SendSomeStep, SendBlocksStep, SendFailsStep, AllSentStep
<1>5. CASE WriteReply \/ NothingToWrite \/ NoEpollOut
    BY <1>1, <1>5, WriteReplyStep, NothingToWriteStep, NoEpollOutStep
<1> QED
    BY <1>1, <1>2, <1>3, <1>4, <1>5 DEF ProcessStep

\* Every step of the worker, the listener and the clients.
LEMMA ServerStep ==
    ASSUME ServerInv, BelowThreshold', [Next]_vars
    PROVE  ServerInv'
<1>1. CASE UNCHANGED vars
    BY <1>1, ServerStutter
<1>2. CASE Worker
  <2>1. CASE BacklogNext
      BY <2>1, BacklogNextStep
  <2>2. CASE BacklogEnd
      BY <2>2, BacklogEndStep
  <2>3. CASE EpollWait
      BY <2>3, EpollWaitStep
  <2>4. CASE HandleEvent
      BY <2>4, HandleEventStep
  <2>5. CASE EventsEnd
      BY <2>5, EventsEndStep
  <2>6. CASE Process
      BY <2>6, ProcessKeeps
  <2>7. CASE Dispatch
      BY <2>7, DispatchFailure, DispatchOther
  <2> QED
      BY <2>1, <2>2, <2>3, <2>4, <2>5, <2>6, <2>7, <1>2 DEF Worker
<1>3. CASE Listener
  <2>1. CASE addSession
      BY <2>1, addSessionStep
  <2>2. CASE Refuse
      BY <2>2, ServerStutter DEF Refuse
  <2>3. CASE Register
      BY <2>3, RegisterStep
  <2>4. CASE RegisterFails
      BY <2>4, RegisterFailsStep
  <2> QED
      BY <2>1, <2>2, <2>3, <2>4, <1>3 DEF Listener
<1>4. CASE EpollTimeout
    BY <1>4, ServerStutter DEF EpollTimeout
<1>5. CASE \E f \in Fds : Client(f)
    BY <1>5, ClientStep
<1> QED
    BY <1>1, <1>2, <1>3, <1>4, <1>5 DEF Next

\* ServerInv is invariant as long as no call reads up to the threshold: sessions
\* and sockets stay paired through every order of accepts, events, partial reads
\* and writes, disconnections and failing calls.
THEOREM ServerInductive == Spec /\ []BelowThreshold => []ServerInv
<1>1. ServerInv /\ BelowThreshold' /\ [Next]_vars => ServerInv'
    BY ServerStep
<1> QED
    BY <1>1, ServerInit, PTL DEF Spec

-----------------------------------------------------------------------------
(* What follows from it *)

\* Every variable stays in its type, and no call overfills a send buffer.
THEOREM ServerTypeCorrect == Spec /\ []BelowThreshold => []TypeOK
<1>1. ServerInv => TypeOK
  <2> SUFFICES ASSUME Types
               PROVE  TypeOK
      BY DEF ServerInv
  <2>1. \A f \in Fds : sock[f] \in SocketState
      BY DEF Types
  <2>2. \A f \in Fds : /\ sock[f].room \in 0 .. Room
                       /\ sock[f].inq \in Seq(Units)
                       /\ sock[f].peer \in {"open", "fin", "rst", "gone"}
                       /\ sock[f].ptr \in Sessions \cup {NoSession}
      BY <2>1 DEF SocketState
  <2>3. call.res \in Results /\ listener.s \in Sessions \cup {NoSession}
      BY DEF Types, CallState
  <2> QED
      BY <2>2, <2>3 DEF Types, SessionState, TypeOK
<1> QED
    BY <1>1, ServerInductive, PTL

\* A session is in one place only: it is never used by two connections, never
\* returned to the pool twice, and lost only by a failing call of the listener.
THEOREM SessionsInOnePlace == Spec /\ []BelowThreshold => []OnePlace
<1>1. ServerInv => OnePlace
  <2> SUFFICES ASSUME ServerInv, NEW s \in Sessions
               PROVE  Places(s) = 1
      BY DEF OnePlace
  <2>1. s # NoSession /\ pool[s] = (IF listener.s = s \/ s \in lost \/ Registered(s) THEN 0 ELSE 1)
        /\ ~(listener.s = s /\ s \in lost) /\ (Registered(s) => listener.s # s /\ s \notin lost)
      BY SessionAssumption DEF ServerInv, PlaceInv
  <2>2. \A f \in Fds : sock[f].ptr = s => sess[s].socket = f
      BY <2>1 DEF ServerInv, SocketInv
  <2>3. CASE Registered(s)
    <3>1. {f \in Fds : sock[f].ptr = s} = {sess[s].socket}
        BY <2>2, <2>3 DEF Registered
    <3>2. Cardinality({f \in Fds : sock[f].ptr = s}) = 1
        BY <3>1, FS_Singleton
    <3> QED
        BY <3>2, <2>1, <2>3 DEF Places
  <2>4. CASE ~Registered(s)
    <3>1. {f \in Fds : sock[f].ptr = s} = {}
        BY <2>2, <2>4 DEF Registered
    <3>2. Cardinality({f \in Fds : sock[f].ptr = s}) = 0
        BY <3>1, FS_EmptySet
    <3> QED
        BY <3>2, <2>1, <2>4 DEF Places
  <2> QED
      BY <2>3, <2>4
<1> QED
    BY <1>1, ServerInductive, PTL

\* Edge-triggered registration loses no event: a session that reads and has
\* unread input, or writes and has room, has an edge or is about to be called.
THEOREM WakeupsNotMissed == Spec /\ []BelowThreshold => []NoMissedWakeup
<1>1. ServerInv => NoMissedWakeup
  <2> SUFFICES ASSUME ServerInv
               PROVE  NoMissedWakeup
      OBVIOUS
  <2> SUFFICES ASSUME NEW f \in Fds, NEW s \in Sessions, s = sock[f].ptr, ~sock[f].edge
               PROVE  /\ sess[s].state \in Reading /\ (sock[f].inq # <<>> \/ sock[f].peer = "rst")
                             => Pending(s, "IN")
                      /\ sess[s].state \in Writing /\ sock[f].room > 0 => Pending(s, "OUT")
    <3>1. \A g \in Fds : sock[g].ptr # NoSession => sock[g].ptr \in Sessions
      <4>1. \A g \in Fds : sock[g] \in SocketState
          BY DEF ServerInv, Types
      <4> QED
          BY <4>1 DEF SocketState
    <3> QED
        BY <3>1 DEF NoMissedWakeup
  <2>1. sess[s].socket = f /\ Registered(s)
      BY SessionAssumption DEF ServerInv, SocketInv, Registered
  <2>2. /\ SeenIn(f) => ~(sock[f].inq # <<>> \/ sock[f].peer = "rst")
        /\ SeenOut(f) => ~(sock[f].room > 0)
      BY DEF SeenIn, SeenOut
  <2>3. CASE call.s = s
      BY <2>3 DEF Pending
  <2>4. CASE InBatch(s) /\ call.s # s
    <3>1. PICK x \in worker.batch : x.s = s
        BY <2>4 DEF InBatch
    <3>2. /\ "IN" \notin x.ev => SeenIn(f)
          /\ "OUT" \notin x.ev => SeenOut(f)
        BY <3>1, <2>1 DEF ServerInv, BatchInv
    <3> QED
        BY <3>1, <3>2, <2>2 DEF Pending
  <2>5. CASE InBacklog(s) /\ call.s # s
    <3>1. PICK i \in 1 .. Len(backlog) : backlog[i] = s
        BY <2>5 DEF InBacklog
    <3>2. sess[s].flags = {"IN"} /\ sess[s].state \in Reading
        BY <3>1, <2>5 DEF ServerInv, BacklogInv
    <3>3. i \in DOMAIN backlog
        BY <3>1 DEF ServerInv, Types
    <3>4. Pending(s, "IN")
        BY <3>1, <3>2, <3>3 DEF Pending
    <3> QED
        BY <3>2, <3>4 DEF Reading, Writing
  <2>6. CASE ~InBatch(s) /\ ~InBacklog(s) /\ call.s # s
      BY <2>1, <2>2, <2>6 DEF ServerInv, QuietInv
  <2> QED
      BY <2>3, <2>4, <2>5, <2>6
<1> QED
    BY <1>1, ServerInductive, PTL

\* A session waits for EPOLLOUT only with a reply to send, so that EPOLLOUT does
\* not fail a connection that has nothing to write.
THEOREM RepliesToWrite == Spec /\ []BelowThreshold => []WritingHasReply
<1>1. ServerInv => WritingHasReply
    BY DEF ServerInv
<1> QED
    BY <1>1, ServerInductive, PTL


\* The worker closes a connection only after its client has left.
THEOREM ConnectionsKept == Spec /\ []BelowThreshold => ClosedByClientOnly
<1>1. ASSUME ServerInv, ServerInv', Next
      PROVE  \A f \in Fds : sock[f].ptr # NoSession /\ sock'[f].ptr = NoSession
                                => sock[f].peer # "open"
  <2> SUFFICES ASSUME NEW f \in Fds, sock[f].ptr # NoSession, sock'[f].ptr = NoSession
               PROVE  sock[f].peer # "open"
      OBVIOUS
  <2>1. sock \in [Fds -> SocketState]
      BY <1>1 DEF ServerInv, Types
  <2>2. CASE UNCHANGED sock
      BY <2>2
  <2>3. CASE Process
    <3>1. call.pc # "none"
        BY <2>3 DEF Process, ProcessStep, At, RecvData, RecvEnd, RecvFails, ParseNothing,
                    ParseRequests, SendSome, SendBlocks, SendFails, AllSent, WriteReply,
                    NothingToWrite, NoEpollOut
    <3>2. Fd \in Fds
        BY <3>1, <1>1, CallFacts
    <3>3. CASE RecvData
        BY <3>2, <3>3, <2>1 DEF RecvData, SocketState
    <3>4. CASE SendSome
        BY <3>2, <3>4, <2>1 DEF SendSome, SocketState
    <3>5. CASE UNCHANGED sock
        BY <3>5
    <3> QED
        BY <3>3, <3>4, <3>5, <2>3
        DEF Process, ProcessStep, RecvEnd, RecvFails, ParseNothing, ParseRequests,
            SendBlocks, SendFails, AllSent, WriteReply, NothingToWrite, NoEpollOut
  <2>4. CASE Dispatch
    <3>1. call.pc = "done"
        BY <2>4 DEF Dispatch, At
    <3>2. /\ call.s \in Sessions /\ CallAt(call, sess[call.s], Fd) /\ Fd = sess[call.s].socket
        BY <3>1, <1>1, CallFacts
    <3>3. CASE call.res = "FAILURE"
      <4>1. sock' = [g \in Fds |-> IF g = Fd THEN ClosedSocket ELSE sock[g]]
          BY <3>2, <3>3, <2>4 DEF Dispatch, CloseAndReset
      <4>2. f = Fd
          BY <4>1
      <4> QED
          BY <4>2, <3>1, <3>2, <3>3 DEF CallAt
    <3>4. CASE call.res # "FAILURE"
        BY <3>4, <2>4 DEF Dispatch
    <3> QED
        BY <3>3, <3>4
  <2>5. CASE EpollWait
    <3>1. sock'[f] = [sock[f] EXCEPT !.edge = FALSE]
        BY <2>5 DEF EpollWait
    <3> QED
        BY <3>1, <2>1 DEF SocketState
  <2>6. CASE addSession
    <3>1. PICK g \in Accepted : IF g = NoFd THEN UNCHANGED sock
                               ELSE \E y : sock' = [sock EXCEPT ![g] = y]
        BY <2>6 DEF addSession
    <3>2. sock[f].open
        BY <1>1 DEF ServerInv, SocketInv
    <3> QED
        BY <3>1, <3>2, <2>1 DEF Accepted
  <2>7. CASE Register
    <3>1. sock' = [sock EXCEPT ![listener.fd] = Wake([sock[listener.fd] EXCEPT !.ptr = listener.s])]
        BY <2>7 DEF Register
    <3>2. listener.fd \in Fds /\ sock[listener.fd].ptr = NoSession
        BY <2>7, <1>1 DEF Register, ServerInv, SocketInv
    <3> QED
        BY <3>1, <3>2, <2>1
  <2>8. CASE RegisterFails
    <3>1. sock' = [g \in Fds |-> IF g = listener.fd THEN ClosedSocket ELSE sock[g]]
        BY <2>8 DEF RegisterFails
    <3>2. listener.fd \in Fds => sock[listener.fd].ptr = NoSession
        BY <1>1 DEF ServerInv, SocketInv
    <3> QED
        BY <3>1, <3>2
  <2>9. ASSUME NEW g \in Fds, Client(g)
        PROVE  sock[f].peer # "open"
    <3>1. PICK y : sock' = [sock EXCEPT ![g] = y]
        BY <2>9 DEF Client, ClientSend, ClientRead, ClientClose
    <3>2. sock'[g].ptr = sock[g].ptr
      <4>1. sock[g] \in SocketState
          BY <2>1
      <4>2. CASE ClientSend(g)
        <5>1. Arrive(sock[g]).ptr = sock[g].ptr
            BY <4>1 DEF Arrive, SocketState
        <5>2. Wake(Arrive(sock[g])).ptr = Arrive(sock[g]).ptr
            BY <4>1 DEF Wake, Arrive, SocketState
        <5>3. sock'[g] = Wake(Arrive(sock[g]))
            BY <4>2, <2>1 DEF ClientSend
        <5> QED
            BY <5>1, <5>2, <5>3
      <4>3. CASE ClientRead(g)
          BY <4>1, <4>3, <2>1 DEF ClientRead, Wake, SocketState
      <4>4. ASSUME NEW how \in Closings, ClientClose(g, how)
            PROVE  sock'[g].ptr = sock[g].ptr
          BY <4>1, <4>4, <2>1 DEF ClientClose, Wake, SocketState
      <4> QED
          BY <4>2, <4>3, <4>4, <2>9 DEF Client
    <3> QED
        BY <3>1, <3>2, <2>1
  <2> QED
      BY <2>2, <2>3, <2>4, <2>5, <2>6, <2>7, <2>8, <2>9, <1>1
      DEF Next, Worker, Listener, BacklogNext, BacklogEnd, HandleEvent, EventsEnd,
          EpollTimeout, Refuse, vars
<1>2. ServerInv /\ ServerInv' /\ [Next]_vars =>
          [\A f \in Fds : sock[f].ptr # NoSession /\ sock'[f].ptr = NoSession
                              => sock[f].peer # "open"]_vars
    BY <1>1
<1> QED
    BY <1>2, ServerInductive, PTL DEF Spec, ClosedByClientOnly

-----------------------------------------------------------------------------
(* When the threshold is out of reach *)

\* No client sends as much as the threshold over one connection.
ShortStreams == \A f \in Fds : \A stream \in Streams[f] : Len(stream) < Threshold

\* What the active call has read from socket f.
Taken(f) == IF call.pc # "none" /\ sess[call.s].socket = f THEN call.read ELSE 0

\* What a client has still to send, what has arrived and what has been read.
ReadInv ==
    /\ BelowThreshold
    /\ \A f \in Fds : Len(sock[f].plan) + Len(sock[f].inq) + Taken(f) < Threshold

\* These are numbers.
LEMMA ReadNumbers ==
    ASSUME ServerInv, NEW f \in Fds
    PROVE  Len(sock[f].plan) \in Nat /\ Len(sock[f].inq) \in Nat /\ Taken(f) \in Nat
<1>1. sock[f] \in SocketState /\ call \in CallState
    BY DEF ServerInv, Types
<1>2. sock[f].plan \in Seq(Units) /\ sock[f].inq \in Seq(Units) /\ call.read \in Nat
    BY <1>1 DEF SocketState, CallState
<1> QED
    BY <1>2 DEF Taken

\* A step that sends nothing and reads nothing.
LEMMA ReadFrame ==
    ASSUME ServerInv, ReadInv, ~call'.aborted,
           \A f \in Fds : \/ sock'[f].plan = sock[f].plan /\ sock'[f].inq = sock[f].inq
                          \/ sock'[f] = ClosedSocket,
           \A f \in Fds : Taken(f)' = Taken(f) \/ Taken(f)' = 0
    PROVE  ReadInv'
<1> SUFFICES ASSUME NEW f \in Fds
             PROVE  Len(sock'[f].plan) + Len(sock'[f].inq) + Taken(f)' < Threshold
    BY DEF ReadInv, BelowThreshold
<1>1. PICK p \in Nat, q \in Nat, r \in Nat :
          p = Len(sock[f].plan) /\ q = Len(sock[f].inq) /\ r = Taken(f)
    BY ReadNumbers
<1>2. p + q + r < Threshold /\ Threshold \in Nat
    BY <1>1, SessionAssumption DEF ReadInv
<1>3. ClosedSocket.plan = <<>> /\ ClosedSocket.inq = <<>>
    BY DEF ClosedSocket
<1>4. \/ Len(sock'[f].plan) = p /\ Len(sock'[f].inq) = q
      \/ Len(sock'[f].plan) = 0 /\ Len(sock'[f].inq) = 0
    BY <1>1, <1>3
<1>5. PICK r2 \in Nat : r2 = Taken(f)' /\ r2 <= r
    BY <1>1
<1>6. p + q + r2 < Threshold /\ 0 + 0 + r2 < Threshold
    BY <1>2, <1>5
<1> QED
    BY <1>4, <1>5, <1>6

\* A step of process reads from its own socket only.
LEMMA ReadProcess ==
    ASSUME ServerInv, ReadInv, Process
    PROVE  ReadInv'
<1>1. call.pc # "none"
    BY DEF Process, ProcessStep, At, RecvData, RecvEnd, RecvFails, ParseNothing,
           ParseRequests, SendSome, SendBlocks, SendFails, AllSent, WriteReply,
           NothingToWrite, NoEpollOut
<1>2. /\ call \in CallState /\ call.s \in Sessions /\ Fd = sess[call.s].socket /\ Fd \in Fds
      /\ sess \in [Sessions -> SessionState] /\ sock \in [Fds -> SocketState]
      /\ Unread = sock[Fd].inq /\ ~call.aborted
    BY <1>1, CallFacts DEF ReadInv, BelowThreshold
<1>3. CASE RecvData
  <2>1. PICK p \in Nat, q \in Nat, r \in Nat :
            p = Len(sock[Fd].plan) /\ q = Len(sock[Fd].inq) /\ r = Taken(Fd)
      BY <1>2, ReadNumbers
  <2>2. p + q + r < Threshold /\ Threshold \in Nat /\ r = call.read
      BY <2>1, <1>1, <1>2, SessionAssumption DEF ReadInv, Taken
  <2>3. sock[Fd].inq \in Seq(Units) /\ sock[Fd].inq # <<>>
      BY <1>2, <1>3 DEF RecvData, SocketState
  <2>4. Len(Tail(sock[Fd].inq)) = q - 1 /\ q > 0
      BY <2>1, <2>3
  <2>5. /\ sock'[Fd].plan = sock[Fd].plan /\ sock'[Fd].inq = Tail(sock[Fd].inq)
        /\ \A g \in Fds : g # Fd => sock'[g] = sock[g]
      BY <1>2, <1>3 DEF RecvData, SocketState
  <2>6. sess'[call.s].socket = Fd
      BY <1>2, <1>3 DEF RecvData, SessionState
  <2>7. ~(call.read + 1 >= Threshold)
      BY <2>2, <2>4
  <2>8. call'.read = r + 1 /\ ~call'.aborted /\ call'.pc = "recv" /\ call'.s = call.s
    <3>1. call' = [call EXCEPT !.read = @ + 1, !.aborted = FALSE, !.pc = "recv"]
        BY <2>7, <1>3 DEF RecvData
    <3> QED
        BY <3>1, <2>2, <1>2 DEF CallState
  <2>9. ASSUME NEW g \in Fds
        PROVE  Len(sock'[g].plan) + Len(sock'[g].inq) + Taken(g)' < Threshold
    <3>1. CASE g = Fd
      <4>1. Taken(g)' = r + 1
          BY <3>1, <2>6, <2>8 DEF Taken
      <4>2. Len(sock'[g].plan) = p /\ Len(sock'[g].inq) = q - 1
          BY <3>1, <2>1, <2>4, <2>5
      <4>3. p + (q - 1) + (r + 1) < Threshold
          BY <2>2
      <4> QED
          BY <4>1, <4>2, <4>3
    <3>2. CASE g # Fd
      <4>1. Taken(g)' = 0 /\ Taken(g) = 0
          BY <3>2, <2>6, <2>8, <1>2 DEF Taken
      <4> QED
          BY <4>1, <3>2, <2>5 DEF ReadInv
    <3> QED
        BY <3>1, <3>2
  <2> QED
      BY <2>8, <2>9 DEF ReadInv, BelowThreshold
<1>4. ASSUME ~RecvData
      PROVE  /\ call'.s = call.s /\ call'.read = call.read /\ ~call'.aborted /\ call'.pc # "none"
             /\ sess'[call.s].socket = Fd
             /\ \A g \in Fds : sock'[g].plan = sock[g].plan /\ sock'[g].inq = sock[g].inq
  <2>1. CASE RecvEnd \/ RecvFails
      BY <2>1, <1>1, <1>2 DEF RecvEnd, RecvFails, Return, CallState
  <2>2. CASE ParseNothing
      BY <2>2, <1>1, <1>2 DEF ParseNothing, CallState, SessionState
  <2>3. CASE ParseRequests
    <3>1. UNCHANGED sock
        BY <2>3 DEF ParseRequests
    <3>2. sess'[call.s].socket = Fd
        BY <2>3, <1>2 DEF ParseRequests, SessionState
    <3>3. call'.s = call.s /\ call'.read = call.read /\ ~call'.aborted /\ call'.pc # "none"
        BY <2>3, <1>2 DEF ParseRequests, CallState
    <3> QED
        BY <3>1, <3>2, <3>3
  <2>4. CASE SendSome
      BY <2>4, <1>1, <1>2 DEF SendSome, SocketState, SessionState
  <2>5. CASE SendBlocks \/ SendFails
      BY <2>5, <1>1, <1>2 DEF SendBlocks, SendFails, Leave, Return, CallState
  <2>6. CASE AllSent
      BY <2>6, <1>1, <1>2 DEF AllSent, Leave, CallState, SessionState
  <2>7. CASE WriteReply
      BY <2>7, <1>1, <1>2 DEF WriteReply, CallState, SessionState
  <2>8. CASE NothingToWrite
    <3>1. UNCHANGED sock
        BY <2>8 DEF NothingToWrite
    <3>2. PICK res : call' = [call EXCEPT !.pc = "done", !.res = res]
        BY <2>8 DEF NothingToWrite, Return
    <3>3. \/ sess' = [sess EXCEPT ![call.s].flags = {"IN"}]
          \/ sess' = [sess EXCEPT ![call.s].state = "READING_REQUEST"]
        BY <2>8 DEF NothingToWrite
    <3>4. sess'[call.s].socket = Fd
        BY <3>3, <1>2 DEF SessionState
    <3> QED
        BY <3>1, <3>2, <3>4, <1>2 DEF CallState
  <2>9. CASE NoEpollOut
      BY <2>9, <1>1, <1>2 DEF NoEpollOut, Return, CallState
  <2> QED
      BY <2>1, <2>2, <2>3, <2>4, <2>5, <2>6, <2>7, <2>8, <2>9, <1>4 DEF Process, ProcessStep
<1>5. CASE ~RecvData
  <2>1. \A g \in Fds : Taken(g)' = Taken(g)
      BY <1>1, <1>2, <1>4, <1>5 DEF Taken
  <2> QED
      BY <2>1, <1>4, <1>5, ReadFrame
<1> QED
    BY <1>3, <1>5

\* Whatever happens, no call reads up to the threshold.
LEMMA ReadStep ==
    ASSUME ShortStreams, ServerInv, ReadInv, [Next]_vars
    PROVE  ReadInv'
<1>1. /\ call \in CallState /\ sess \in [Sessions -> SessionState]
      /\ sock \in [Fds -> SocketState] /\ ~call.aborted
    BY DEF ServerInv, Types, ReadInv, BelowThreshold
<1>2. NotCalled.read = 0 /\ ~NotCalled.aborted
    BY DEF NotCalled
<1>3. ASSUME UNCHANGED <<sess, call>>,
             \A f \in Fds : \/ sock'[f].plan = sock[f].plan /\ sock'[f].inq = sock[f].inq
                            \/ sock'[f] = ClosedSocket
      PROVE  ReadInv'
  <2>1. \A f \in Fds : Taken(f)' = Taken(f)
      BY <1>3 DEF Taken
  <2> QED
      BY <2>1, <1>1, <1>3, ReadFrame
<1>4. ASSUME call'.read = 0, ~call'.aborted,
             \A f \in Fds : \/ sock'[f].plan = sock[f].plan /\ sock'[f].inq = sock[f].inq
                            \/ sock'[f] = ClosedSocket
      PROVE  ReadInv'
  <2>1. \A f \in Fds : Taken(f)' = 0
      BY <1>4 DEF Taken
  <2> QED
      BY <2>1, <1>4, ReadFrame
<1>5. CASE UNCHANGED vars
    BY <1>3, <1>5 DEF vars
<1>6. CASE Worker
  <2>1. CASE BacklogNext \/ HandleEvent
    <3>1. UNCHANGED sock /\ \E s, ev : process(s, ev)
        BY <2>1 DEF BacklogNext, HandleEvent
    <3>2. call'.read = 0 /\ ~call'.aborted
        BY <3>1 DEF process, NotCalled
    <3> QED
        BY <3>1, <3>2, <1>4
  <2>2. CASE BacklogEnd \/ EventsEnd
      BY <2>2, <1>3 DEF BacklogEnd, EventsEnd
  <2>3. CASE EpollWait
    <3>1. \A f \in Fds : sock'[f].plan = sock[f].plan /\ sock'[f].inq = sock[f].inq
        BY <2>3, <1>1 DEF EpollWait, SocketState
    <3> QED
        BY <3>1, <2>3, <1>3 DEF EpollWait
  <2>4. CASE Process
      BY <2>4, ReadProcess
  <2>5. CASE Dispatch
    <3>1. call' = NotCalled
        BY <2>5 DEF Dispatch
    <3>2. \A f \in Fds : sock'[f] = sock[f] \/ sock'[f] = ClosedSocket
        BY <2>5 DEF Dispatch, CloseAndReset
    <3> QED
        BY <3>1, <3>2, <1>2, <1>4
  <2> QED
      BY <2>1, <2>2, <2>3, <2>4, <2>5, <1>6 DEF Worker
<1>7. CASE addSession
  <2>1. UNCHANGED call
      BY <1>7 DEF addSession
  <2>2. PICK f \in Accepted, s \in {x \in Sessions : pool[x] > 0} :
            /\ sess' = [sess EXCEPT ![s].socket = f, ![s].req = "READY_STATE"]
            /\ IF f = NoFd THEN UNCHANGED sock
               ELSE \E stream \in Streams[f] : sock' = [sock EXCEPT ![f] = AcceptedSocket(stream)]
      BY <1>7 DEF addSession
  <2>3. call.pc # "none" =>
            /\ call.s \in Sessions /\ sess'[call.s] = sess[call.s]
            /\ sess[call.s].socket \in Fds /\ sock[sess[call.s].socket].open
    <3> SUFFICES ASSUME call.pc # "none"
                 PROVE  /\ call.s \in Sessions /\ sess'[call.s] = sess[call.s]
                        /\ sess[call.s].socket \in Fds /\ sock[sess[call.s].socket].open
        OBVIOUS
    <3>1. call.s \in Sessions /\ Registered(call.s) /\ call.s # NoSession
        BY CallFacts
    <3>2. pool[call.s] = 0
        BY <3>1 DEF ServerInv, PlaceInv
    <3>3. sess[call.s].socket \in Fds /\ sock[sess[call.s].socket].open
        BY <3>1 DEF ServerInv, SocketInv, Registered
    <3> QED
        BY <3>1, <3>2, <3>3, <2>2, <1>1
  <2>4. \A g \in Fds : Taken(g)' = Taken(g)
      BY <2>1, <2>3 DEF Taken
  <2>5. ASSUME NEW g \in Fds
        PROVE  Len(sock'[g].plan) + Len(sock'[g].inq) + Taken(g)' < Threshold
    <3>1. CASE sock'[g] = sock[g]
        BY <3>1, <2>4 DEF ReadInv
    <3>2. CASE sock'[g] # sock[g]
      <4>1. g = f /\ ~sock[f].open
          BY <3>2, <2>2, <1>1, SessionAssumption DEF Accepted
      <4>2. PICK stream \in Streams[f] : sock'[g] = AcceptedSocket(stream)
          BY <4>1, <3>2, <2>2, <1>1
      <4>3. sock'[g].plan = stream /\ sock'[g].inq = <<>>
          BY <4>2 DEF AcceptedSocket, ClosedSocket
      <4>4. stream \in Seq(Units) /\ Len(stream) < Threshold /\ Threshold \in Nat
          BY <4>1, SessionAssumption DEF ShortStreams
      <4>5. Taken(g)' = 0
          BY <4>1, <2>3, <2>4 DEF Taken
      <4> QED
          BY <4>3, <4>4, <4>5
    <3> QED
        BY <3>1, <3>2
  <2> QED
      BY <2>1, <2>5, <1>1 DEF ReadInv, BelowThreshold
<1>8. CASE Refuse \/ EpollTimeout
    BY <1>5, <1>8 DEF Refuse, EpollTimeout
<1>9. CASE Register
  <2>1. \A f \in Fds : sock'[f].plan = sock[f].plan /\ sock'[f].inq = sock[f].inq
      BY <1>1, <1>9 DEF Register, Wake, SocketState
  <2> QED
      BY <2>1, <1>3, <1>9 DEF Register
<1>10. CASE RegisterFails
  <2>1. \A f \in Fds : sock'[f] = sock[f] \/ sock'[f] = ClosedSocket
      BY <1>10 DEF RegisterFails
  <2> QED
      BY <2>1, <1>3, <1>10 DEF RegisterFails
<1>11. ASSUME NEW f \in Fds, Client(f)
       PROVE  ReadInv'
  <2>1. /\ UNCHANGED <<sess, call>> /\ \A g \in Fds : g # f => sock'[g] = sock[g]
      BY <1>1, <1>11 DEF Client, ClientSend, ClientRead, ClientClose
  <2>2. \A g \in Fds : Taken(g)' = Taken(g)
      BY <2>1 DEF Taken
  <2>3. PICK p \in Nat, q \in Nat, r \in Nat :
            p = Len(sock[f].plan) /\ q = Len(sock[f].inq) /\ r = Taken(f)
      BY ReadNumbers
  <2>4. p + q + r < Threshold /\ Threshold \in Nat
      BY <2>3, SessionAssumption DEF ReadInv
  <2>5. sock[f].plan \in Seq(Units) /\ sock[f].inq \in Seq(Units) /\ sock[f] \in SocketState
      BY <1>1 DEF SocketState
  <2>6. Len(sock'[f].plan) + Len(sock'[f].inq) + r < Threshold
    <3>1. CASE ClientSend(f)
      <4>1. PICK z : z = Arrive(sock[f])
          OBVIOUS
      <4>2. sock'[f] = Wake(z) /\ sock[f].plan # <<>>
          BY <4>1, <3>1, <1>1 DEF ClientSend
      <4>3. z.plan = Tail(sock[f].plan) /\ z.inq = Append(sock[f].inq, Head(sock[f].plan))
          BY <4>1, <2>5 DEF Arrive, SocketState
      <4>4. Wake(z).plan = z.plan /\ Wake(z).inq = z.inq
          BY <4>1, <2>5 DEF Wake, Arrive, SocketState
      <4>5. Len(Tail(sock[f].plan)) = p - 1
          BY <4>2, <2>3, <2>5
      <4>6. Len(Append(sock[f].inq, Head(sock[f].plan))) = q + 1
          BY <4>2, <2>3, <2>5
      <4>7. Len(sock'[f].plan) = p - 1 /\ Len(sock'[f].inq) = q + 1
          BY <4>2, <4>3, <4>4, <4>5, <4>6
      <4>8. (p - 1) + (q + 1) + r < Threshold
          BY <2>4
      <4> QED
          BY <4>7, <4>8
    <3>2. CASE ClientRead(f)
      <4>1. sock'[f].plan = sock[f].plan /\ sock'[f].inq = sock[f].inq
          BY <3>2, <2>5, <1>1 DEF ClientRead, Wake, SocketState
      <4> QED
          BY <4>1, <2>3, <2>4
    <3>3. ASSUME NEW how \in Closings, ClientClose(f, how)
          PROVE  Len(sock'[f].plan) + Len(sock'[f].inq) + r < Threshold
      <4>1. sock'[f].plan = <<>> /\ sock'[f].inq = sock[f].inq
          BY <3>3, <2>5, <1>1 DEF ClientClose, Wake, SocketState
      <4>2. Len(sock'[f].plan) = 0 /\ Len(sock'[f].inq) = q
          BY <4>1, <2>3
      <4> QED
          BY <4>2, <2>4
    <3> QED
        BY <3>1, <3>2, <3>3, <1>11 DEF Client
  <2> QED
      BY <2>1, <2>2, <2>3, <2>6, <1>1 DEF ReadInv, BelowThreshold
<1> QED
    BY <1>5, <1>6, <1>7, <1>8, <1>9, <1>10, <1>11 DEF Next, Listener

\* A server whose clients send less than EPOLL_READ_THRESHOLD per connection stays
\* below the threshold, so that all of the above holds of it without a condition.
THEOREM ThresholdOutOfReach == ShortStreams => (Spec => [](ServerInv /\ BelowThreshold))
<1> SUFFICES ASSUME ShortStreams
             PROVE  Spec => [](ServerInv /\ BelowThreshold)
    OBVIOUS
<1>1. Init => ReadInv
  <2> SUFFICES ASSUME Init
               PROVE  ReadInv
      OBVIOUS
  <2>1. ~call.aborted /\ \A f \in Fds : Taken(f) = 0
      BY DEF Init, NotCalled, Taken
  <2>2. \A f \in Fds : sock[f].plan = <<>> /\ sock[f].inq = <<>>
      BY DEF Init, ClosedSocket
  <2>3. Threshold \in Nat /\ Threshold > 0
      BY SessionAssumption
  <2>4. \A f \in Fds : Len(sock[f].plan) = 0 /\ Len(sock[f].inq) = 0
      BY <2>2
  <2>5. ASSUME NEW f \in Fds
        PROVE  Len(sock[f].plan) + Len(sock[f].inq) + Taken(f) < Threshold
    <3>1. PICK p \in Nat, r \in Nat :
              /\ p = Len(sock[f].plan) /\ p = Len(sock[f].inq) /\ r = Taken(f)
              /\ p = 0 /\ r = 0
        BY <2>1, <2>4
    <3>2. p + p + r < Threshold
        BY <3>1, <2>3
    <3> QED
        BY <3>1, <3>2
  <2>6. BelowThreshold
      BY <2>1 DEF BelowThreshold
  <2> QED
      BY <2>5, <2>6 DEF ReadInv
<1>2. ServerInv /\ ReadInv /\ [Next]_vars => ReadInv'
    BY ReadStep
<1>3. ServerInv /\ ReadInv /\ [Next]_vars => ServerInv'
  <2>1. ReadInv' => BelowThreshold'
      BY DEF ReadInv
  <2> QED
      BY <2>1, <1>2, ServerStep
<1>4. ReadInv => BelowThreshold
    BY DEF ReadInv
<1> QED
    BY <1>1, <1>2, <1>3, <1>4, ServerInit, PTL DEF Spec
=============================================================================
