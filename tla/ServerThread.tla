---------------------------- MODULE ServerThread ----------------------------
(***************************************************************************)
(* One worker (ServerThread::threadProc), the listener that hands it       *)
(* connections (Server::threadProc, ServerThread::addSession), and the     *)
(* clients.  The session pool is what LFSPSCQueue implements: a push never *)
(* fails, a pop fails only on an empty pool.  It counts the entries of a   *)
(* session, as nothing in the code keeps a session from being pushed twice.*)
(***************************************************************************)
EXTENDS Session

CONSTANTS Closings,     \* how clients leave: "fin", "rst"
          MaxAccepts,   \* bound: connections accepted
          MaxFaults     \* bound: failing calls of accept or epoll_ctl

ASSUME ServerThreadAssumption ==
    Closings \subseteq {"fin", "rst"} /\ MaxAccepts \in Nat /\ MaxFaults \in Nat

VARIABLES pool,       \* sessionPool: how many entries each session has
          backlog,    \* sessionBacklog
          worker,     \* threadProc: where it is, and the events still to handle
          listener,   \* addSession: the session and the socket at hand
          lost,       \* sessions that a failing call of the listener left nowhere
          accepts     \* connections accepted so far

vars == <<sess, sock, call, pool, backlog, worker, listener, lost, accepts>>
workerVars == <<pool, backlog, worker>>
listenerVars == <<listener, lost, accepts>>

Accepting == [s |-> NoSession, fd |-> NoFd]

Init ==
    /\ sess = [s \in Sessions |-> NewSession]
    /\ sock = [f \in Fds |-> ClosedSocket]
    /\ call = NotCalled
    /\ pool = [s \in Sessions |-> 1]
    /\ backlog = <<>>
    /\ worker = [pc |-> "backlog", pos |-> 1, batch |-> {}]
    /\ listener = Accepting
    /\ lost = {}
    /\ accepts = 0

-----------------------------------------------------------------------------
(* The listener.                                                           *)

\* accept fails: the listener goes on with socket number -1.
Accepted == {f \in Fds : ~sock[f].open} \cup (IF Cardinality(lost) < MaxFaults THEN {NoFd} ELSE {})

\* accept, and addSession up to epoll_ctl.
addSession ==
    /\ listener = Accepting /\ accepts < MaxAccepts
    /\ accepts' = accepts + 1
    /\ \E f \in Accepted, s \in {x \in Sessions : pool[x] > 0} :
          /\ pool' = [pool EXCEPT ![s] = @ - 1]
          /\ sess' = [sess EXCEPT ![s].socket = f, ![s].req = "READY_STATE"]
          /\ IF f = NoFd THEN UNCHANGED sock
             ELSE \E stream \in Streams[f] : sock' = [sock EXCEPT ![f] = AcceptedSocket(stream)]
          /\ listener' = [s |-> s, fd |-> f]
    /\ UNCHANGED <<call, backlog, worker, lost>>

\* Out of sessions: the connection is accepted and closed.
Refuse ==
    /\ listener = Accepting
    /\ \A s \in Sessions : pool[s] = 0
    /\ UNCHANGED vars

\* epoll_ctl adds the socket; a connected socket is ready for writing at once.
Register ==
    /\ listener.fd \in Fds
    /\ sock' = [sock EXCEPT ![listener.fd] = Wake([@ EXCEPT !.ptr = listener.s])]
    /\ listener' = Accepting
    /\ UNCHANGED <<sess, call, workerVars, lost, accepts>>

\* epoll_ctl fails: the listener closes the socket and nobody has the session.
RegisterFails ==
    /\ listener.s # NoSession
    /\ listener.fd = NoFd \/ Cardinality(lost) < MaxFaults
    /\ sock' = [f \in Fds |-> IF f = listener.fd THEN ClosedSocket ELSE sock[f]]
    /\ lost' = lost \cup {listener.s}
    /\ listener' = Accepting
    /\ UNCHANGED <<sess, call, workerVars, accepts>>

-----------------------------------------------------------------------------
(* The worker.                                                             *)

Goto(label) == [worker EXCEPT !.pc = label]
Idle == call = NotCalled

BacklogNext ==
    /\ worker.pc = "backlog" /\ Idle
    /\ worker.pos <= Len(backlog)
    /\ LET s == backlog[worker.pos] IN process(s, sess[s].flags)
    /\ UNCHANGED <<sock, workerVars, listenerVars>>

BacklogEnd ==
    /\ worker.pc = "backlog" /\ Idle
    /\ worker.pos > Len(backlog)
    /\ worker' = Goto("wait")
    /\ UNCHANGED <<sess, sock, call, pool, backlog, listenerVars>>

\* epoll_wait takes every socket that was woken.  It returns without events
\* after its timeout, which matters only if there is a backlog.
Woken == {f \in Fds : sock[f].open /\ sock[f].edge /\ Mask(f) # {}}
EpollWait ==
    /\ worker.pc = "wait"
    /\ Woken # {} \/ backlog # <<>>
    /\ worker' = [pc |-> "events", pos |-> 1,
                  batch |-> {[s |-> sock[f].ptr, ev |-> Mask(f)] : f \in Woken}]
    /\ sock' = [f \in Fds |-> [sock[f] EXCEPT !.edge = FALSE]]
    /\ UNCHANGED <<sess, call, pool, backlog, listenerVars>>

EpollTimeout ==
    /\ worker.pc = "wait"
    /\ Woken = {} /\ backlog = <<>>
    /\ UNCHANGED vars

HandleEvent ==
    /\ worker.pc = "events" /\ Idle
    /\ \E e \in worker.batch : /\ process(e.s, e.ev)
                               /\ worker' = [worker EXCEPT !.batch = @ \ {e}]
    /\ UNCHANGED <<sock, pool, backlog, listenerVars>>

EventsEnd ==
    /\ worker.pc = "events" /\ Idle
    /\ worker.batch = {}
    /\ worker' = Goto("backlog")
    /\ UNCHANGED <<sess, sock, call, pool, backlog, listenerVars>>

Process ==
    /\ ProcessStep
    /\ UNCHANGED <<workerVars, listenerVars>>

\* The result of process: a failed session is closed and returned to the pool.
\* mutant: the session stays in the backlog.
BacklogAfterKept(res) ==
    IF worker.pc = "backlog" THEN (IF res = "SUCCESS" THEN RemoveAt(backlog, worker.pos) ELSE backlog)
    ELSE IF res = "POSTPONED" THEN Append(backlog, call.s) ELSE backlog
BacklogAfter(res) ==
    IF worker.pc = "backlog" THEN (IF res = "POSTPONED" THEN backlog ELSE RemoveAt(backlog, worker.pos))
    ELSE IF res = "POSTPONED" THEN Append(backlog, call.s) ELSE backlog

CloseAndReset(s) ==
    /\ sock' = [f \in Fds |-> IF f = sess[s].socket THEN ClosedSocket ELSE sock[f]]
    /\ sess' = [sess EXCEPT ![s] = reset(@)]

Dispatch ==
    /\ At("done")
    /\ IF call.res = "FAILURE"
       THEN /\ CloseAndReset(call.s)
            /\ pool' = [pool EXCEPT ![call.s] = @ + 1]
       ELSE UNCHANGED <<sess, sock, pool>>
    /\ backlog' = BacklogAfter(call.res)
    /\ worker' = IF worker.pc = "backlog" /\ call.res = "POSTPONED"
                 THEN [worker EXCEPT !.pos = @ + 1] ELSE worker
    /\ call' = NotCalled
    /\ UNCHANGED listenerVars

-----------------------------------------------------------------------------
Worker == BacklogNext \/ BacklogEnd \/ EpollWait \/ HandleEvent \/ EventsEnd \/ Process \/ Dispatch
Listener == addSession \/ Refuse \/ Register \/ RegisterFails
Client(f) ==
    /\ ClientSend(f) \/ ClientRead(f) \/ (\E how \in Closings : ClientClose(f, how))
    /\ UNCHANGED <<workerVars, listenerVars>>

Next == Worker \/ EpollTimeout \/ Listener \/ \E f \in Fds : Client(f)
Spec == Init /\ [][Next]_vars

\* Threads go on, epoll_ctl is called after accept, and clients read their
\* replies.  No client has to send or to leave.
FairSpec ==
    /\ Spec
    /\ WF_vars(Worker)
    /\ WF_vars(Register \/ RegisterFails)
    /\ \A f \in Fds : WF_vars(ClientRead(f) /\ UNCHANGED <<workerVars, listenerVars>>)

-----------------------------------------------------------------------------
\* Every variable stays in its type; a socket's send buffer is never overfilled.
TypeOK ==
    /\ sess \in [Sessions -> [socket : Fds \cup {NoFd}, state : Reading \cup Writing,
                              req : {"READY_STATE", "PARSING_DATA"}, in : Seq(Units),
                              out : Nat, flags : SUBSET {"IN"}]]
    /\ \A f \in Fds : /\ sock[f].room \in 0 .. Room
                      /\ sock[f].inq \in Seq(Units)
                      /\ sock[f].peer \in {"open", "fin", "rst", "gone"}
                      /\ sock[f].ptr \in Sessions \cup {NoSession}
    /\ pool \in [Sessions -> Nat]
    /\ backlog \in Seq(Sessions)
    /\ listener.s \in Sessions \cup {NoSession}
    /\ call.res \in Results

\* Where a session is: in the pool, with the listener, on a registered socket,
\* or lost by a failing call of the listener.
Places(s) ==
    pool[s] + Cardinality({f \in Fds : sock[f].ptr = s})
            + (IF listener.s = s THEN 1 ELSE 0) + (IF s \in lost THEN 1 ELSE 0)

\* A session is never used by two connections or returned to the pool twice,
\* and it is returned when its connection is closed.
OnePlace == \A s \in Sessions : Places(s) = 1

\* The worker still has to look at session s with event e.
Pending(s, e) ==
    \/ call.s = s
    \/ \E x \in worker.batch : x.s = s /\ e \in x.ev
    \/ \E i \in DOMAIN backlog : backlog[i] = s /\ e \in sess[s].flags

\* Edge-triggered registration: a session that reads and has unread input, and
\* one that writes and has room, is about to be looked at.
NoMissedWakeup ==
    \A f \in Fds :
        LET s == sock[f].ptr
        IN  (s # NoSession /\ ~sock[f].edge) =>
                /\ sess[s].state \in Reading /\ (sock[f].inq # <<>> \/ sock[f].peer = "rst")
                       => Pending(s, "IN")
                /\ sess[s].state \in Writing /\ sock[f].room > 0 => Pending(s, "OUT")

\* A session is in a writing state only while it has a reply to send: otherwise
\* the next EPOLLOUT would fail the connection.
WritingHasReply ==
    \A s \in Sessions : sess[s].state \in Writing =>
        sess[s].out > 0 \/ (call.s = s /\ call.pc = "send")

\* The worker closes a connection only after its client has left.
ClosedByClientOnly ==
    [][\A f \in Fds : sock[f].ptr # NoSession /\ sock'[f].ptr = NoSession
                          => sock[f].peer # "open"]_vars

\* A client that stays gets a reply to every request it has sent.
Answered ==
    \A f \in Fds : (sock[f].open /\ sock[f].answered < sock[f].asked)
                     ~> (sock[f].answered = sock[f].asked \/ sock[f].peer # "open")

\* A connection that its client has reset is closed and its session returned.
ResetReturned == \A f \in Fds : sock[f].peer = "rst" ~> sock[f].peer # "rst"
=============================================================================
