------------------------------ MODULE Session ------------------------------
(***************************************************************************)
(* Session::process, the state machine a worker runs on a connection when  *)
(* epoll reports it, and the sockets it works on.                          *)
(*                                                                         *)
(* Input and output are counted in units.  A request is some "part" units  *)
(* and one last unit, "ask" or "quiet", which says whether it is answered; *)
(* its header is in its first unit.  A reply is one unit.  What requests   *)
(* mean is left to RequestProcessor.cpp, of which this module keeps when a *)
(* request is complete.                                                    *)
(*                                                                         *)
(* A step ends at every recv and send, because the client acts in between. *)
(***************************************************************************)
EXTENDS Integers, SequencesExt, FiniteSetsExt

CONSTANTS Sessions,       \* the Session objects of one worker
          Fds,            \* socket numbers
          NoFd,           \* -1
          NoSession,
          Streams,        \* what a client may send on each socket, as sequences of units
          Threshold,      \* EPOLL_READ_THRESHOLD
          Room            \* replies that fit in a socket's send buffer

Ends == {"ask", "quiet"}
Units == {"part"} \cup Ends

ASSUME SessionAssumption ==
    /\ IsFiniteSet(Sessions) /\ NoSession \notin Sessions
    /\ IsFiniteSet(Fds) /\ NoFd \notin Fds
    /\ Streams \in [Fds -> SUBSET Seq(Units)]
    /\ Threshold \in Nat \ {0} /\ Room \in Nat \ {0}

VARIABLES sess,     \* the fields of each Session
          sock,     \* the kernel's view of each socket and of its client
          call      \* the active call of process

Events == {"IN", "OUT"}
Reading == {"READY_STATE", "READING_REQUEST"}
Writing == {"WRITING_REPLY", "WRITING_WITH_PENDING_READ"}
Results == {"SUCCESS", "FAILURE", "POSTPONED"}

NewSession == [socket |-> NoFd, state |-> "READY_STATE", req |-> "READY_STATE",
               in |-> <<>>, out |-> 0, flags |-> {}]

\* Session::reset leaves the socket number in place.
reset(x) == [NewSession EXCEPT !.socket = x.socket, !.state = "READING_REQUEST"]

NotCalled == [pc |-> "none", s |-> NoSession, ev |-> {}, read |-> 0, aborted |-> FALSE,
              phase |-> "in", onSent |-> "SUCCESS", res |-> "FAILURE"]

-----------------------------------------------------------------------------
(* Sockets and clients.                                                    *)

ClosedSocket == [open |-> FALSE, ptr |-> NoSession, plan |-> <<>>, inq |-> <<>>,
                 peer |-> "gone", room |-> 0, edge |-> FALSE, asked |-> 0,
                 answered |-> 0]
AcceptedSocket(stream) == [ClosedSocket EXCEPT !.open = TRUE, !.plan = stream,
                                               !.peer = "open", !.room = Room]

\* The events epoll_wait reports for a socket: its state at that moment.
Mask(f) == {e \in Events : IF e = "IN" THEN sock[f].inq # <<>> \/ sock[f].peer # "open"
                                       ELSE sock[f].room > 0 \/ sock[f].peer = "rst"}

\* A change that wakes epoll: registration is edge triggered.
Wake(x) == [x EXCEPT !.edge = x.ptr # NoSession]

\* The client's next unit arrives.
Arrive(x) ==
    LET u == Head(x.plan)
    IN  [x EXCEPT !.plan = Tail(@), !.inq = Append(@, u),
                  !.asked = IF u = "ask" THEN @ + 1 ELSE @]

ClientSend(f) ==
    /\ sock[f].peer = "open"
    /\ sock[f].plan # <<>>
    /\ sock' = [sock EXCEPT ![f] = Wake(Arrive(@))]
    /\ UNCHANGED <<sess, call>>

\* The client takes its replies; epoll is woken if the send buffer was full.
ClientRead(f) ==
    /\ sock[f].peer \in {"open", "fin"}
    /\ sock[f].room < Room
    /\ sock' = [sock EXCEPT ![f] = IF @.room = 0 THEN Wake([@ EXCEPT !.room = Room])
                                                 ELSE [@ EXCEPT !.room = Room]]
    /\ UNCHANGED <<sess, call>>

\* The client ends its side of the connection, or resets it.
ClientClose(f, how) ==
    /\ sock[f].peer = "open"
    /\ sock' = [sock EXCEPT ![f] = Wake([@ EXCEPT !.peer = how, !.plan = <<>>])]
    /\ UNCHANGED <<sess, call>>

-----------------------------------------------------------------------------
(* Session::process.                                                       *)

At(label) == call.pc = label
Fd == sess[call.s].socket
Peer == IF Fd \in Fds THEN sock[Fd].peer ELSE "gone"
Unread == IF Fd \in Fds THEN sock[Fd].inq ELSE <<>>

Return(res) == call' = [call EXCEPT !.pc = "done", !.res = res]

\* What an EPOLLIN event does in each state: a session that is writing only
\* remembers that there is something to read.
\* mutant: the session keeps its state.
AfterEventForgets(st) == st
AfterEvent(st) == IF st \in Reading THEN st ELSE "WRITING_WITH_PENDING_READ"

process(s, ev) ==
    /\ sess' = [sess EXCEPT ![s].flags = {},
                            ![s].state = IF "IN" \in ev THEN AfterEvent(@) ELSE @]
    /\ call' = [NotCalled EXCEPT
                  !.s = s, !.ev = ev,
                  !.pc = IF "IN" \in ev /\ sess[s].state \in Reading THEN "recv" ELSE "out",
                  !.res = IF "IN" \in ev THEN "SUCCESS" ELSE "FAILURE"]

\* recv returns data.  Reading stops at the threshold, unless the data of a
\* request is being read.
RecvData ==
    /\ At("recv") /\ Unread # <<>>
    /\ sess' = [sess EXCEPT ![call.s].in = Append(@, Head(Unread))]
    /\ sock' = [sock EXCEPT ![Fd].inq = Tail(@)]
    /\ LET stop == call.read + 1 >= Threshold /\ sess[call.s].req # "PARSING_DATA"
       IN  call' = [call EXCEPT !.read = @ + 1, !.aborted = stop,
                                !.pc = IF stop THEN "parse" ELSE "recv"]

\* recv fails, or returns 0 with an empty buffer.
\* mutant: a failing recv is taken for one that would block.
FailingFinOnly == Peer = "fin" /\ sess[call.s].in = <<>>
Failing == Peer \in {"rst", "gone"} \/ (Peer = "fin" /\ sess[call.s].in = <<>>)
RecvFails ==
    /\ At("recv") /\ Unread = <<>> /\ Failing
    /\ Return("FAILURE")
    /\ UNCHANGED <<sess, sock>>

\* recv would block, or returns 0 although the buffer is not empty.
RecvEnd ==
    /\ At("recv") /\ Unread = <<>> /\ ~Failing
    /\ call' = [call EXCEPT !.pc = "parse"]
    /\ UNCHANGED <<sess, sock>>

\* The processing loop: every complete request in the buffer is processed and
\* the rest is moved to the front and parsed again from its start.
\* mutant: one request is processed per event.
CompleteFirst(buf) ==
    LET ends == {i \in DOMAIN buf : buf[i] \in Ends} IN IF ends = {} THEN 0 ELSE Min(ends)
Complete(buf) == Max({0} \cup {i \in DOMAIN buf : buf[i] \in Ends})
Replies(buf) == Cardinality({i \in 1 .. Complete(buf) : buf[i] = "ask"})

ParseNothing ==
    /\ At("parse") /\ Complete(sess[call.s].in) = 0
    /\ sess' = [sess EXCEPT ![call.s].state = "READING_REQUEST",
                            ![call.s].req = IF sess[call.s].in = <<>> THEN @
                                            ELSE "PARSING_DATA"]
    /\ call' = [call EXCEPT !.pc = "out", !.res = "SUCCESS"]
    /\ UNCHANGED sock

\* mutant: the session waits to write although there is nothing to write.
AfterRequestsWrites(out) == IF call.aborted THEN "WRITING_WITH_PENDING_READ" ELSE "WRITING_REPLY"
AfterRequests(out) ==
    CASE out = 0      -> "READING_REQUEST"
      [] call.aborted -> "WRITING_WITH_PENDING_READ"
      [] OTHER        -> "WRITING_REPLY"

ParseRequests ==
    LET buf == sess[call.s].in
        out == sess[call.s].out + Replies(buf)
    IN  /\ At("parse") /\ Complete(buf) > 0
        /\ sess' = [sess EXCEPT ![call.s] = [@ EXCEPT
                      !.in = SubSeq(buf, Complete(buf) + 1, Len(buf)),
                      !.req = "READY_STATE",
                      !.out = out,
                      !.state = AfterRequests(out)]]
        /\ call' = [call EXCEPT
                      !.pc = IF out = 0 THEN "out" ELSE "send",
                      !.res = "SUCCESS",
                      !.onSent = IF call.aborted THEN "POSTPONED" ELSE "SUCCESS"]
        /\ UNCHANGED sock

\* The end of one of the two switch statements: EPOLLIN is followed by EPOLLOUT.
Leave(res) == call' = [call EXCEPT !.pc = IF call.phase = "in" THEN "out" ELSE "done",
                                   !.res = res]
Postpone(res) == IF call.phase = "out" /\ res = "POSTPONED" THEN {"IN"} ELSE {}

\* mutant: the buffer's room is not respected.
SendableAll == sess[call.s].out
Sendable == Min({sess[call.s].out, sock[Fd].room})

SendSome ==
    /\ At("send") /\ Peer \in {"open", "fin"}
    /\ sess[call.s].out > 0 /\ sock[Fd].room > 0
    /\ sess' = [sess EXCEPT ![call.s].out = @ - Sendable]
    /\ sock' = [sock EXCEPT ![Fd].room = @ - Sendable, ![Fd].answered = @ + Sendable]
    /\ UNCHANGED call

SendBlocks ==
    /\ At("send") /\ Peer \in {"open", "fin"}
    /\ sess[call.s].out > 0 /\ sock[Fd].room = 0
    /\ Leave("SUCCESS")
    /\ UNCHANGED <<sess, sock>>

SendFails ==
    /\ At("send") /\ Peer \in {"rst", "gone"}
    /\ sess[call.s].out > 0
    /\ Return("FAILURE")
    /\ UNCHANGED <<sess, sock>>

\* mutant: the flags a postponed session is to be called with are not set.
AllSentNoFlags ==
    /\ At("send") /\ sess[call.s].out = 0
    /\ sess' = [sess EXCEPT ![call.s].state = "READING_REQUEST"]
    /\ Leave(call.onSent)
    /\ UNCHANGED sock
AllSent ==
    /\ At("send") /\ sess[call.s].out = 0
    /\ sess' = [sess EXCEPT ![call.s].state = "READING_REQUEST",
                            ![call.s].flags = Postpone(call.onSent)]
    /\ Leave(call.onSent)
    /\ UNCHANGED sock

\* EPOLLOUT while a reply is being written; with nothing to write, the result
\* of the send that did not happen is taken for an error.
WriteReply ==
    /\ At("out") /\ "OUT" \in call.ev /\ sess[call.s].state \in Writing
    /\ sess' = [sess EXCEPT ![call.s].state = "WRITING_REPLY"]
    /\ call' = [call EXCEPT
                  !.phase = "out", !.res = "FAILURE",
                  !.onSent = IF sess[call.s].state = "WRITING_REPLY" THEN "SUCCESS" ELSE "POSTPONED",
                  !.pc = IF sess[call.s].out = 0 THEN "done" ELSE "send"]
    /\ UNCHANGED sock

\* EPOLLOUT with no reply to write.
NothingToWrite ==
    /\ At("out") /\ "OUT" \in call.ev /\ sess[call.s].state \in Reading
    /\ IF call.res = "POSTPONED"
       THEN /\ sess' = [sess EXCEPT ![call.s].flags = {"IN"}]
            /\ Return("POSTPONED")
       ELSE /\ sess' = [sess EXCEPT ![call.s].state = "READING_REQUEST"]
            /\ Return("SUCCESS")
    /\ UNCHANGED sock

\* No EPOLLOUT; without EPOLLIN as well, the flags are incorrect.
NoEpollOut ==
    /\ At("out") /\ "OUT" \notin call.ev
    /\ Return(IF "IN" \in call.ev THEN call.res ELSE "FAILURE")
    /\ UNCHANGED <<sess, sock>>

ProcessStep ==
    \/ RecvData \/ RecvEnd \/ RecvFails
    \/ ParseNothing \/ ParseRequests
    \/ SendSome \/ SendBlocks \/ SendFails \/ AllSent
    \/ WriteReply \/ NothingToWrite \/ NoEpollOut
=============================================================================
