------------------------------ MODULE UdpWorker ------------------------------
(***************************************************************************)
(* The UDP side of a worker: the loop of ServerThread::threadProc as far   *)
(* as it is about the datagram socket, from epoll_wait over recvmmsg and   *)
(* processBinaryRequest to sendmmsg, and the way the process is stopped.   *)
(*                                                                         *)
(* Every client sends one datagram and is known by its number, which       *)
(* stands for its address.  What is lost, doubled or reordered on the way  *)
(* to the server is another choice of the datagrams that arrive.           *)
(***************************************************************************)
EXTENDS YAMBinaryProtocolProcessor

CONSTANTS Clients,     \* clients, numbered from 1 in the order they send
          Requests,    \* client -> the requests it chooses from
          MaxMsgs,     \* UDP_MAX_MSGS: messages read and sent in one go
          BufSize,     \* UDP_BUF_SIZE: cells of a message's buffer
          Preloaded    \* what TCP clients have stored

\* A request is well formed: its lengths are those of its parts.  A value is a
\* sequence of cells.
ASSUME UdpAssumption ==
    /\ MaxMsgs \in Nat /\ MaxMsgs > 0 /\ BufSize \in Nat \ {0} /\ Clients \subseteq Nat \ {0}
    /\ \A k \in DOMAIN Preloaded : LET v == Preloaded[k].value
                                  IN  Len(v) \in Nat /\ v = [i \in 1 .. Len(v) |-> v[i]]
    /\ \A q \in UNION {Requests[c] : c \in Clients} :
          /\ q = [i \in 1 .. Len(q) |-> q[i]] /\ Len(q) = 1 + q[1].bodyLen /\ Len(q) <= BufSize
          /\ {q[1].keyLen, q[1].extrasLen, q[1].bodyLen} \subseteq Nat
          /\ q[1].magic = "request" /\ q[1].bodyLen >= q[1].extrasLen + q[1].keyLen

VARIABLES rx,          \* the receive queue of the socket
          edge,        \* the socket has become readable since epoll_wait told so
          incomplete,  \* udpIncompleteRead
          msg,         \* udpMessages: buffer, iov_len and address of each
          count, at,   \* messages received, and the one being processed
          table,       \* what the hash table holds
          shouldStop, main, pc,
          asked,       \* client -> the datagram it has sent
          whole,       \* clients whose datagram fitted into iov_len
          due,         \* client -> the reply its request deserves
          served,      \* clients whose reply was given to sendmmsg
          got          \* client -> the messages sent to it

kernel == <<rx, edge>>
history == <<asked, whole, due, served, got>>
vars == <<kernel, incomplete, msg, count, at, table, shouldStop, main, pc, history>>

NoReply == <<>>
Messages == 1 .. MaxMsgs

\* What new char[UDP_BUF_SIZE] holds before anything was received.
Uninitialised ==
    [i \in 1 .. BufSize |->
        IF i = 1 THEN [magic |-> "junk", keyLen |-> 0, extrasLen |-> 0, bodyLen |-> 0] ELSE "junk"]

Init ==
    /\ rx = <<>> /\ edge = FALSE /\ incomplete = FALSE
    /\ msg = [m \in Messages |-> [buf |-> Uninitialised,
                                  iov |-> BufSize, from |-> 0]]
    /\ count = 0 /\ at = 1
    /\ table = Preloaded
    /\ shouldStop = FALSE /\ main = "sleeping" /\ pc = "loop"
    /\ asked = [c \in Clients |-> NoReply] /\ whole = {}
    /\ due = [c \in Clients |-> NoReply]
    /\ served = {} /\ got = [c \in Clients |-> <<>>]

-----------------------------------------------------------------------------
(* The environment: clients, evictions by other workers, and the signal.   *)

Arrive(c, q) ==
    /\ asked[c] = NoReply /\ \A d \in Clients : d < c => asked[d] # NoReply
    /\ pc \notin {"exited", "crashed"}
    /\ rx' = Append(rx, [from |-> c, cells |-> q])
    /\ edge' = TRUE
    /\ asked' = [asked EXCEPT ![c] = q]
    /\ UNCHANGED <<incomplete, msg, count, at, table, shouldStop, main, pc, whole, due, served, got>>

\* Another worker's insertion evicts an entry.  Only the requests look at the
\* table: an earlier eviction is as good as one just before.
Evicted(k) ==
    /\ k \in DOMAIN table /\ pc \in {"process", "fall"}
    /\ table' = Without(table, k)
    /\ UNCHANGED <<kernel, incomplete, msg, count, at, shouldStop, main, pc, history>>

\* SIGTERM: sig_handler runs on the main thread and calls stop, which sets the
\* worker's flag and goes on to join it.
Signal ==
    /\ main = "sleeping"
    /\ shouldStop' = TRUE
    /\ main' = "joining"
    /\ UNCHANGED <<kernel, incomplete, msg, count, at, table, pc, history>>

-----------------------------------------------------------------------------
(* The main thread.                                                        *)

Join ==
    /\ main = "joining" /\ pc = "exited"
    /\ main' = "stopped"
    /\ UNCHANGED <<kernel, incomplete, msg, count, at, table, shouldStop, pc, history>>

\* The handler has set exitMainThread; main deletes the server and its table.
DeleteServer ==
    /\ main = "stopped"
    /\ main' = "deleted"
    /\ table' = <<>>
    /\ UNCHANGED <<kernel, incomplete, msg, count, at, shouldStop, pc, history>>

-----------------------------------------------------------------------------
(* The worker.                                                             *)

\* The condition of the loop; the sessions' part of an iteration is
\* ServerThread's.
\* mutant: the flag is read once.
LoopNoStop ==
    /\ pc = "loop"
    /\ pc' = "wait"
    /\ UNCHANGED <<kernel, incomplete, msg, count, at, table, shouldStop, main, history>>
Loop ==
    /\ pc = "loop"
    /\ pc' = IF shouldStop THEN "exited" ELSE "wait"
    /\ UNCHANGED <<kernel, incomplete, msg, count, at, table, shouldStop, main, history>>

\* epoll_wait returns, with an event or at its timeout.  An event that reports
\* the socket writable reports it readable too if it is.
EpollWait ==
    /\ pc = "wait"
    /\ \E writable \in BOOLEAN :
          incomplete' = (incomplete \/ ((edge \/ writable) /\ rx # <<>>))
    /\ edge' = FALSE
    /\ pc' = IF incomplete' THEN "recv" ELSE "loop"
    /\ UNCHANGED <<rx, msg, count, at, table, shouldStop, main, history>>

\* mutant: a full batch counts as all there was.
MoreToReadNever(n) == FALSE
MoreToRead(n) == n = MaxMsgs

\* One datagram in a message's buffer: what does not fit is cut off.
Received(m, d) ==
    LET n == Min({m.iov, Len(d.cells)})
    IN  [m EXCEPT !.from = d.from,
                  !.buf = [i \in 1 .. BufSize |-> IF i <= n THEN d.cells[i] ELSE @[i]]]

\* recvmmsg found nothing: udpIncompleteRead stays set.
RecvNothing ==
    /\ pc = "recv" /\ rx = <<>>
    /\ pc' = "loop"
    /\ UNCHANGED <<kernel, incomplete, msg, count, at, table, shouldStop, main, history>>

Recv ==
    LET n == Min({Len(rx), MaxMsgs})
    IN  /\ pc = "recv" /\ rx # <<>>
        /\ msg' = [m \in Messages |-> IF m <= n THEN Received(msg[m], rx[m]) ELSE msg[m]]
        /\ whole' = whole \cup {rx[m].from : m \in {l \in 1 .. n : Len(rx[l].cells) <= msg[l].iov}}
        /\ rx' = SubSeq(rx, n + 1, Len(rx))
        /\ incomplete' = MoreToRead(n)
        /\ count' = n /\ at' = 1
        /\ pc' = "process"
        /\ UNCHANGED <<edge, table, shouldStop, main, asked, due, served, got>>

\* iov_len is set to the length of the reply, here and for the next recvmmsg.
\* mutants: it is not set; it is added to.
AnsweredOld(m, r) == [m EXCEPT !.buf = r.in]
AnsweredAdded(m, r) == [m EXCEPT !.buf = r.in, !.iov = @ + Len(r.out)]
AnsweredIn(m, r) == [m EXCEPT !.buf = r.in, !.iov = Len(r.out)]

\* On to the next message of the batch.
Advance ==
    IF at < count THEN at' = at + 1 /\ pc' = "process"
                  ELSE at' = at /\ pc' = "send"

\* What the protocol says of a request on the table as it is: the reply, none
\* for a quiet request that has nothing to report.
Deserved(q, t) ==
    LET op == q[1].op
        key == SubSeq(q, 2 + q[1].extrasLen, 1 + q[1].extrasLen + q[1].keyLen)
        shown == IF op \in WithKey THEN key ELSE <<>>
        status(s) == <<s, <<>>, <<>>>>
        good == IF op \in Quiet THEN NoReply ELSE status("NO_ERROR")
        here == key \in DOMAIN t
    IN  CASE op \in Reading -> IF here THEN <<"NO_ERROR", shown, <<t[key].flags>> \o t[key].value>>
                               ELSE IF op \in Quiet THEN NoReply
                               ELSE <<"KEY_NOT_FOUND", shown, <<NotFoundText>>>>
          [] op \in {"ADD", "ADDQ"}         -> IF here THEN status("KEY_EXISTS") ELSE good
          [] op \in {"REPLACE", "REPLACEQ"} -> IF here THEN good ELSE status("KEY_NOT_FOUND")
          [] op \in {"SET", "SETQ", "NOOP"} \cup Deleting -> good
          [] OTHER -> NoReply

\* processBinaryRequest on one message, up to the missing break of SET.
Process ==
    LET r == Request(msg[at].buf, table)
        s == processBinaryRequest(r)
        c == msg[at].from
    IN  /\ pc = "process"
        /\ IF Crashes(r)
           THEN /\ pc' = "crashed"
                /\ UNCHANGED <<msg, at, table, due>>
           ELSE /\ table' = s.table
                /\ msg' = [msg EXCEPT ![at] = AnsweredIn(@, s)]
                /\ due' = [due EXCEPT ![c] = Deserved(asked[c], table)]
                /\ IF FallsThrough(r) THEN pc' = "fall" /\ at' = at ELSE Advance
        /\ UNCHANGED <<kernel, incomplete, count, shouldStop, main, asked, whole, served, got>>

\* ADD on what SET has left in the buffer.
Fall ==
    LET m == msg[at]
        s == Add([Request(m.buf, table) EXCEPT !.out = SubSeq(m.buf, 1, m.iov)])
    IN  /\ pc = "fall"
        /\ table' = s.table
        /\ msg' = [msg EXCEPT ![at] = AnsweredIn(@, s)]
        /\ Advance
        /\ UNCHANGED <<kernel, incomplete, count, shouldStop, main, history>>

\* What is sent of a message.
Message(m) == SubSeq(msg[m].buf, 1, msg[m].iov)

\* sendmmsg sends the messages, the empty ones too, as far as the socket takes
\* them; its result is ignored.
Send ==
    /\ pc = "send"
    /\ \E n \in 0 .. count :
          got' = [c \in Clients |->
              IF \E m \in 1 .. n : msg[m].from = c
              THEN Append(got[c], Message(CHOOSE m \in 1 .. n : msg[m].from = c)) ELSE got[c]]
    /\ served' = served \cup {msg[m].from : m \in 1 .. count}
    /\ pc' = "loop"
    /\ UNCHANGED <<kernel, incomplete, msg, count, at, table, shouldStop, main, asked, whole, due>>

-----------------------------------------------------------------------------
Main == Join \/ DeleteServer
Worker == Loop \/ EpollWait \/ RecvNothing \/ Recv \/ Process \/ Fall \/ Send

\* The process has ended.
Ended == (main = "deleted" \/ pc = "crashed") /\ UNCHANGED vars

Next ==
    \/ Main /\ pc # "crashed"
    \/ Worker
    \/ \E c \in Clients : \E q \in Requests[c] : Arrive(c, q)
    \/ \E k \in DOMAIN table : Evicted(k)
    \/ Signal
    \/ Ended

\* The worker's loop and the main thread keep running: epoll_wait has a timeout
\* and neither socket call blocks.  Nobody has to send a request or a signal.
Spec == Init /\ [][Next]_vars /\ WF_vars(Worker) /\ WF_vars(Main)

-----------------------------------------------------------------------------
\* Every variable stays in its type; in particular the loop over a batch stays
\* inside it, and a message that is sent lies inside its buffer.
TypeOK ==
    /\ \A m \in Messages : msg[m].iov \in 0 .. BufSize /\ Len(msg[m].buf) = BufSize
    /\ edge \in BOOLEAN /\ incomplete \in BOOLEAN /\ shouldStop \in BOOLEAN
    /\ count \in 0 .. MaxMsgs /\ at \in 1 .. MaxMsgs
    /\ whole \subseteq Clients
    /\ main \in {"sleeping", "joining", "stopped", "deleted"}
    /\ pc \in {"loop", "wait", "recv", "process", "fall", "send", "exited", "crashed"}

\* A datagram in the receive queue will be looked for: the event that announces
\* it is still to come, or udpIncompleteRead makes the loop call recvmmsg.  The
\* registration is edge triggered, so nothing else would.
NoMissedDatagram == rx # <<>> => edge \/ incomplete

\* A message as the client reads it: status, key and the rest.
AsRead(cells) ==
    IF cells = <<>> THEN NoReply
    ELSE IF cells[1].magic # "reply" THEN <<"no reply">>
    ELSE <<cells[1].status, SubSeq(cells, 2 + cells[1].extrasLen, 1 + cells[1].extrasLen + cells[1].keyLen),
           SubSeq(cells, 2, 1 + cells[1].extrasLen)
               \o SubSeq(cells, 2 + cells[1].extrasLen + cells[1].keyLen, Len(cells))>>

\* A client whose request was received whole gets one message, and it is the
\* reply to its own request: the status and value the table gives at that
\* moment, although the reply is written over the request while that is still
\* used, SET goes on into ADD, and a batch mixes clients and reused buffers.
\* (SETQ is left out: it goes on into ADD and reports KEY_EXISTS.)
OwnReply ==
    \A c \in whole : got[c] # <<>> /\ asked[c][1].op # "SETQ" =>
        Len(got[c]) = 1 /\ AsRead(got[c][1]) = due[c]

\* A request received whole changes its own key at most, and what it stores
\* begins with the flags and value that were sent.  (What follows is the rest
\* of the buffer: the length is computed with + keyLen instead of - keyLen.)
StoresWhatWasSent ==
    [][pc = "process" /\ msg[at].from \in whole /\ main' = main =>
        LET q == asked[msg[at].from]
            h == q[1]
            key == SubSeq(q, 2 + h.extrasLen, 1 + h.extrasLen + h.keyLen)
            sent == SubSeq(q, 2 + h.extrasLen + h.keyLen, Len(q))
        IN  \A k \in DOMAIN table' :
               \/ k \in DOMAIN table /\ table'[k] = table[k]
               \/ h.op \in Writing /\ k = key /\ table'[k].flags = q[2]
                    /\ IsPrefix(sent, table'[k].value)]_vars

\* Every datagram that arrives is read and, unless the process is stopped or
\* ends, the worker comes to send its reply.
Served == \A c \in Clients :
    asked[c] # NoReply ~> c \in served \/ shouldStop \/ pc = "crashed"

\* stop returns: the worker leaves its loop and main goes on to delete the
\* server, unless the process has ended.
StopReturns == main = "joining" ~> (main = "deleted" \/ pc = "crashed")
=============================================================================
