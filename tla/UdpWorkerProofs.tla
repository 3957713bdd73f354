--------------------------- MODULE UdpWorkerProofs ---------------------------
(***************************************************************************)
(* Proofs about the UDP side of a worker, for every number of clients and  *)
(* messages, every size of the buffers and every set of well-formed        *)
(* requests.                                                               *)
(***************************************************************************)
EXTENDS UdpWorker, SequenceTheorems, TLAPS

AllRequests == UNION {Requests[c] : c \in Clients}
Datagram == [from : Clients, cells : AllRequests]

\* recvmmsg has filled messages 1 .. count and sendmmsg has not sent them.
Batch == IF pc \in {"process", "fall", "send"} THEN 1 .. count ELSE {}
\* The messages whose request has not been looked at.
Unprocessed == CASE pc = "process" -> at .. count
                 [] pc = "fall"    -> at + 1 .. count
                 [] OTHER          -> {}

IsSeq(s) == Len(s) \in Nat /\ s = [i \in 1 .. Len(s) |-> s[i]]
HeaderOK(h) == h.keyLen \in Nat /\ h.extrasLen \in Nat /\ h.bodyLen \in Nat
TableOK(t) == \A k \in DOMAIN t : IsSeq(t[k].value)
MessageOK(m) == /\ DOMAIN m = {"buf", "iov", "from"}
                /\ DOMAIN m.buf = 1 .. BufSize
                /\ HeaderOK(m.buf[1])
                /\ m.iov \in Nat

UdpTypes ==
    /\ rx \in Seq(Datagram)
    /\ edge \in BOOLEAN /\ incomplete \in BOOLEAN
    /\ count \in 0 .. MaxMsgs /\ at \in 1 .. MaxMsgs
    /\ asked \in [Clients -> AllRequests \cup {NoReply}]
    /\ whole \subseteq Clients /\ served \subseteq Clients
    /\ DOMAIN got = Clients
    /\ DOMAIN msg = Messages
    /\ \A m \in Messages : MessageOK(msg[m])
    /\ TableOK(table)
    /\ main \in {"sleeping", "joining", "stopped", "deleted"}
    /\ pc \in {"loop", "wait", "recv", "process", "fall", "send", "exited", "crashed"}

\* A datagram in the receive queue is the one its client sent, and it was
\* neither read nor answered before.
RxInv ==
    /\ \A i \in DOMAIN rx : /\ asked[rx[i].from] = rx[i].cells
                            /\ rx[i].from \notin whole \cup served
    /\ \A i, j \in DOMAIN rx : rx[i].from = rx[j].from => i = j

\* The messages of a batch are of different clients, whose datagrams are no
\* longer in the queue and which have not been answered.
BatchInv ==
    /\ pc \in {"process", "fall", "send"} => at <= count
    /\ \A m \in Batch : /\ msg[m].from \in Clients \ served
                        /\ asked[msg[m].from] # NoReply
                        /\ \A i \in DOMAIN rx : rx[i].from # msg[m].from
    /\ \A m, n \in Batch : msg[m].from = msg[n].from => m = n

\* The buffer of a message that is still to be processed starts with the
\* request of its client, if all of it fitted.
BufInv ==
    \A m \in Unprocessed : msg[m].from \in whole =>
        \A i \in 1 .. Len(asked[msg[m].from]) : msg[m].buf[i] = asked[msg[m].from][i]

\* Only a client that has asked is answered, and once.
OneReply == \A c \in Clients : got[c] = <<>> \/ got[c] = <<got[c][1]>>
ReplyInv ==
    /\ \A c \in whole \cup served : asked[c] # NoReply
    /\ \A c \in Clients : got[c] # <<>> => c \in served
    /\ OneReply

\* The main thread deletes the table only when the worker has left its loop.
DeletedAfterExit == main \in {"stopped", "deleted"} => pc = "exited"

UdpInv == UdpTypes /\ RxInv /\ BatchInv /\ BufInv /\ ReplyInv /\ DeletedAfterExit /\ NoMissedDatagram

-----------------------------------------------------------------------------
(* Sequences.                                                              *)

\* A batch has a message and a buffer a cell.
LEMMA Sizes == MaxMsgs \in Nat \ {0} /\ BufSize \in Nat \ {0}
  BY UdpAssumption

\* The smaller of two numbers.
LEMMA MinLemma ==
  ASSUME NEW a \in Nat, NEW b \in Nat
  PROVE  Min({a, b}) = IF a <= b THEN a ELSE b
  BY DEF Min

\* A member of Seq(S) is a sequence.
LEMMA SeqIsSeq ==
  ASSUME NEW S, NEW s \in Seq(S)
  PROVE  IsSeq(s)
<1> DEFINE n == Len(s)
<1>1. n \in Nat /\ s \in [1 .. n -> S]
  OBVIOUS
<1> HIDE DEF n
<1>2. s = [i \in 1 .. n |-> s[i]]
  BY <1>1
<1>3. QED
  BY <1>1, <1>2 DEF IsSeq, n

\* A single item is a sequence of length one.
LEMMA SeqShort ==
  ASSUME NEW x
  PROVE  IsSeq(<<x>>) /\ Len(<<x>>) = 1
  BY DEF IsSeq

\* The empty sequence.
LEMMA SeqEmpty == IsSeq(<<>>) /\ Len(<<>>) = 0
  BY DEF IsSeq

\* Concatenation keeps both sequences in their order.
LEMMA SeqConcat ==
  ASSUME NEW s, NEW t, IsSeq(s), IsSeq(t)
  PROVE  /\ IsSeq(s \o t) /\ Len(s \o t) = Len(s) + Len(t)
         /\ \A i \in 1 .. Len(s) : (s \o t)[i] = s[i]
         /\ \A i \in 1 .. Len(t) : (s \o t)[i + Len(s)] = t[i]
<1> DEFINE R == {s[i] : i \in 1 .. Len(s)} \cup {t[i] : i \in 1 .. Len(t)}
<1>1. s \in Seq(R) /\ t \in Seq(R)
  BY DEF IsSeq
<1>2. s \o t \in Seq(R)
  BY <1>1
<1>3. IsSeq(s \o t)
  BY <1>2, SeqIsSeq
<1>4. QED
  BY <1>1, <1>3

\* A subsequence, also one that reaches past the end.
LEMMA SeqSub ==
  ASSUME NEW s, NEW m \in Int, NEW n \in Int
  PROVE  /\ SubSeq(s, m, n) = [i \in 1 .. (1 + n - m) |-> s[i + m - 1]]
         /\ IsSeq(SubSeq(s, m, n))
         /\ Len(SubSeq(s, m, n)) = IF n < m THEN 0 ELSE 1 + n - m
<1>1. SubSeq(s, m, n) = [i \in 1 .. (1 + n - m) |-> s[i + m - 1]]
  OBVIOUS
<1>2. CASE 1 + n - m >= 0
  <2>1. Len(SubSeq(s, m, n)) = 1 + n - m
    BY <1>1, <1>2
  <2>2. QED
    BY <1>1, <1>2, <2>1 DEF IsSeq
<1>3. CASE 1 + n - m < 0
  <2>1. SubSeq(s, m, n) = <<>>
    BY <1>1, <1>3
  <2>2. IsSeq(SubSeq(s, m, n)) /\ Len(SubSeq(s, m, n)) = 0
    BY <2>1, SeqEmpty
  <2>3. n < m
    BY <1>3
  <2>4. QED
    BY <1>1, <2>2, <2>3
<1>4. QED
  BY <1>2, <1>3

\* A well-formed request is a sequence whose lengths fit.
LEMMA RequestLemma ==
  ASSUME NEW q \in AllRequests
  PROVE  /\ IsSeq(q) /\ q # NoReply
         /\ Len(q) = 1 + q[1].bodyLen /\ Len(q) <= BufSize
         /\ HeaderOK(q[1])
         /\ q[1].bodyLen >= q[1].extrasLen + q[1].keyLen
         /\ q[1].magic = "request"
<1>1. /\ q = [i \in 1 .. Len(q) |-> q[i]]
      /\ Len(q) = 1 + q[1].bodyLen /\ Len(q) <= BufSize
      /\ q[1].keyLen \in Nat /\ q[1].extrasLen \in Nat /\ q[1].bodyLen \in Nat
      /\ q[1].bodyLen >= q[1].extrasLen + q[1].keyLen
      /\ q[1].magic = "request"
  BY UdpAssumption DEF AllRequests
<1>2. Len(q) \in Nat /\ Len(q) > 0
  BY <1>1
<1>3. q # NoReply
  BY <1>2, SeqEmpty DEF NoReply
<1>4. QED
  BY <1>1, <1>2, <1>3 DEF IsSeq, HeaderOK

\* What is left of the queue after n datagrams were taken.
LEMMA RestLemma ==
  ASSUME NEW S, NEW s \in Seq(S), NEW n \in 0 .. Len(s)
  PROVE  LET r == SubSeq(s, n + 1, Len(s))
         IN  /\ r \in Seq(S) /\ Len(r) = Len(s) - n
             /\ \A i \in 1 .. Len(r) : r[i] = s[i + n]
             /\ r # <<>> => n < Len(s)
<1>1. n + 1 \in 1 .. Len(s) + 1 /\ Len(s) \in 0 .. Len(s)
  OBVIOUS
<1>2. QED
  BY <1>1, SubSeqProperties, EmptySeq

-----------------------------------------------------------------------------
(* processBinaryRequest.                                                   *)

\* A request in progress: a buffer with a header, and the reply so far.
RequestOK(r) ==
    /\ r \in [in : {r.in}, out : {r.out}, table : {r.table}]
    /\ DOMAIN r.in = 1 .. BufSize /\ HeaderOK(r.in[1])
    /\ IsSeq(r.out) /\ (r.out # <<>> => HeaderOK(r.out[1]))
    /\ TableOK(r.table)

\* Writing a reply leaves a well-formed request and the table as it was.
LEMMA ReplyLemma ==
  ASSUME NEW r, RequestOK(r), NEW status, NEW k \in Nat, NEW x \in Nat, NEW body, IsSeq(body)
  PROVE  RequestOK(Reply(r, status, k, x, body)) /\ Reply(r, status, k, x, body).table = r.table
<1> DEFINE h == [magic |-> "reply", status |-> status, keyLen |-> k, extrasLen |-> x,
                 bodyLen |-> Len(body)]
           o == r.out \o <<h>>
           out == o \o body
           new == Overwritten(r.in, out)
           s == Reply(r, status, k, x, body)
<1>1. s = [r EXCEPT !.out = out, !.in = new]
  BY DEF Reply
<1>2. HeaderOK(h)
  BY DEF HeaderOK, IsSeq
<1>3. IsSeq(<<h>>) /\ Len(<<h>>) = 1 /\ <<h>>[1] = h
  BY SeqShort
<1>4. IsSeq(r.out) /\ Len(r.out) \in Nat
  BY DEF RequestOK, IsSeq
<1>h. HIDE DEF h
<1>5. /\ IsSeq(o) /\ Len(o) = Len(r.out) + 1
      /\ \A i \in 1 .. Len(r.out) : o[i] = r.out[i]
      /\ o[1 + Len(r.out)] = h
  BY <1>3, <1>4, SeqConcat
<1>6. HeaderOK(o[1])
  <2>1. CASE Len(r.out) = 0
    BY <1>2, <1>5, <2>1
  <2>2. CASE Len(r.out) > 0
    BY <1>5, <2>2, SeqEmpty DEF RequestOK
  <2>3. QED
    BY <1>4, <2>1, <2>2
<1>o. HIDE DEF o
<1>7. IsSeq(out) /\ Len(out) \in Nat /\ Len(out) >= 1 /\ out[1] = o[1]
  <2>1. IsSeq(out) /\ Len(out) = Len(o) + Len(body) /\ \A i \in 1 .. Len(o) : out[i] = o[i]
    BY <1>5, SeqConcat
  <2>2. Len(o) \in Nat /\ Len(o) >= 1 /\ Len(body) \in Nat
    BY <1>4, <1>5 DEF IsSeq
  <2>3. QED
    BY <2>1, <2>2
<1>p. HIDE DEF out
<1>8. DOMAIN new = 1 .. BufSize /\ new[1] = out[1]
  BY <1>7, Sizes DEF Overwritten, RequestOK
<1>n. HIDE DEF new
<1>9. /\ s.in = new /\ s.out = out /\ s.table = r.table
      /\ s \in [in : {new}, out : {out}, table : {r.table}]
  <2>1. r \in [in : {r.in}, out : {r.out}, table : {r.table}]
    BY DEF RequestOK
  <2>2. QED
    BY <1>1, <2>1
<1>s. HIDE DEF s
<1>10. RequestOK(s) /\ s.table = r.table
  BY <1>6, <1>7, <1>8, <1>9 DEF RequestOK
<1>11. QED
  BY <1>10 DEF s

\* A reply without a body, and one that a quiet command leaves out.
LEMMA PlainLemma ==
  ASSUME NEW r, RequestOK(r), NEW status
  PROVE  /\ RequestOK(Plain(r, status)) /\ Plain(r, status).table = r.table
         /\ RequestOK(UnlessQuiet(r, status)) /\ UnlessQuiet(r, status).table = r.table
  BY ReplyLemma, SeqEmpty DEF Plain, UnlessQuiet

\* Storing the value of the request under its key.
LEMMA WithLemma ==
  ASSUME NEW r, RequestOK(r)
  PROVE  LET s == [r EXCEPT !.table = With(@, KeyAt(r), ValueAt(r))]
         IN  /\ RequestOK(s) /\ s.in = r.in /\ s.out = r.out
             /\ \A k \in DOMAIN s.table :
                   \/ k \in DOMAIN r.table /\ s.table[k] = r.table[k]
                   \/ k = KeyAt(r) /\ s.table[k] = ValueAt(r)
<1> DEFINE t == With(r.table, KeyAt(r), ValueAt(r))
<1>1. [r EXCEPT !.table = With(@, KeyAt(r), ValueAt(r))] = [in |-> r.in, out |-> r.out, table |-> t]
  BY DEF RequestOK
<1>2. \A k \in DOMAIN t : \/ k \in DOMAIN r.table /\ t[k] = r.table[k]
                          \/ k = KeyAt(r) /\ t[k] = ValueAt(r)
  BY DEF With
<1>3. IsSeq(ValueAt(r).value)
  <2> DEFINE h == Header(r)
             from == 2 + h.extrasLen + h.keyLen
             upTo == from + (h.bodyLen - h.extrasLen + h.keyLen) - 1
  <2>1. h.keyLen \in Nat /\ h.extrasLen \in Nat /\ h.bodyLen \in Nat
    BY DEF RequestOK, Header, HeaderOK
  <2> HIDE DEF h
  <2>2. from \in Int /\ upTo \in Int
    BY <2>1
  <2>3. ValueAt(r).value = SubSeq(r.in, from, upTo)
    BY DEF ValueAt, Cells, h
  <2>4. QED
    BY <2>2, <2>3, SeqSub
<1> HIDE DEF t
<1>4. TableOK(t)
  BY <1>2, <1>3 DEF RequestOK, TableOK
<1>5. QED
  BY <1>1, <1>2, <1>4 DEF RequestOK

\* The reply is well formed, and the table changes at most under the key of a
\* writing request, to its value.
Effect(r, s) ==
    /\ RequestOK(s)
    /\ \A k \in DOMAIN s.table :
          \/ k \in DOMAIN r.table /\ s.table[k] = r.table[k]
          \/ Header(r).op \in Writing /\ ~Malformed(r) /\ k = KeyAt(r) /\ s.table[k] = ValueAt(r)

\* GET, GETQ, GETK and GETKQ change nothing in the table.
LEMMA GetLemma ==
  ASSUME NEW r, RequestOK(r)
  PROVE  Effect(r, Get(r))
<1> DEFINE h == Header(r)
           key == Cells(r, 2, h.keyLen)
           shown == IF h.op \in WithKey THEN key ELSE <<>>
<1>1. h.keyLen \in Nat
  BY DEF RequestOK, Header, HeaderOK
<1>2. IsSeq(key)
  BY <1>1, SeqSub DEF Cells
<1>3. IsSeq(shown) /\ Len(shown) \in Nat
  BY <1>2, SeqEmpty DEF IsSeq
<1>4. CASE h.keyLen = 0 \/ h.keyLen # h.bodyLen
  BY <1>4 DEF Get, Effect
<1>5. CASE ~(h.keyLen = 0 \/ h.keyLen # h.bodyLen) /\ key \in DOMAIN r.table
  <2> DEFINE v == r.table[key].value
             f == r.table[key].flags
  <2>1. IsSeq(v) /\ IsSeq(<<f>>)
    BY <1>5, SeqShort DEF RequestOK, TableOK
  <2> HIDE DEF v, f, shown
  <2>2. IsSeq(<<f>> \o shown)
    BY <1>3, <2>1, SeqConcat
  <2>3. IsSeq(<<f>> \o shown \o v)
    BY <2>1, <2>2, SeqConcat
  <2>4. Get(r) = Reply(r, "NO_ERROR", Len(shown), 1, <<f>> \o shown \o v)
    BY <1>5 DEF Get, v, f, shown
  <2>5. QED
    BY <1>3, <2>3, <2>4, ReplyLemma DEF Effect
<1>6. CASE ~(h.keyLen = 0 \/ h.keyLen # h.bodyLen) /\ key \notin DOMAIN r.table
  <2>1. IsSeq(shown \o <<NotFoundText>>)
    BY <1>3, SeqConcat, SeqShort
  <2>2. Get(r) = IF h.op \in Quiet THEN r
                 ELSE Reply(r, "KEY_NOT_FOUND", Len(shown), 0, shown \o <<NotFoundText>>)
    BY <1>6 DEF Get
  <2> HIDE DEF shown
  <2>3. QED
    BY <1>3, <2>1, <2>2, ReplyLemma DEF Effect
<1>7. QED
  BY <1>4, <1>5, <1>6

\* SET, ADD and REPLACE store at most the request's own value under its own key.
LEMMA WriteLemma ==
  ASSUME NEW r, RequestOK(r), Header(r).op \in Writing
  PROVE  Effect(r, Set(r)) /\ Effect(r, Add(r)) /\ Effect(r, Replace(r))
<1> DEFINE s == [r EXCEPT !.table = With(@, KeyAt(r), ValueAt(r))]
<1>1. /\ RequestOK(s)
      /\ \A k \in DOMAIN s.table : \/ k \in DOMAIN r.table /\ s.table[k] = r.table[k]
                                   \/ k = KeyAt(r) /\ s.table[k] = ValueAt(r)
  BY WithLemma
<1>2. /\ Set(r) = IF Malformed(r) THEN r ELSE UnlessQuiet(s, "NO_ERROR")
      /\ Add(r) = IF Malformed(r) THEN r
                  ELSE IF KeyAt(r) \in DOMAIN r.table THEN Plain(r, "KEY_EXISTS")
                  ELSE IF Header(r).op = "ADD" THEN Plain(s, "NO_ERROR") ELSE s
      /\ Replace(r) = IF Malformed(r) THEN r
                      ELSE IF KeyAt(r) \notin DOMAIN r.table THEN Plain(r, "KEY_NOT_FOUND")
                      ELSE UnlessQuiet(s, "NO_ERROR")
  BY DEF Set, Add, Replace
<1> HIDE DEF s
<1>3. QED
  BY <1>1, <1>2, PlainLemma DEF Effect

\* DELETE takes at most the request's key out of the table.
LEMMA DeleteLemma ==
  ASSUME NEW r, RequestOK(r)
  PROVE  Effect(r, Delete(r))
<1> DEFINE s == [r EXCEPT !.table = Without(@, KeyAt(r))]
           t == Without(r.table, KeyAt(r))
<1>1. s = [in |-> r.in, out |-> r.out, table |-> t]
  BY DEF RequestOK
<1>2. \A k \in DOMAIN t : k \in DOMAIN r.table /\ t[k] = r.table[k]
  BY DEF Without
<1>3. RequestOK(s) /\ s.table = t
  BY <1>1, <1>2 DEF RequestOK, TableOK
<1>4. Delete(r) = IF Header(r).keyLen = 0 THEN r ELSE UnlessQuiet(s, "NO_ERROR")
  BY DEF Delete
<1> HIDE DEF s, t
<1>5. QED
  BY <1>2, <1>3, <1>4, PlainLemma DEF Effect

\* What the switch does to a request and to the table.
LEMMA ProcessLemma ==
  ASSUME NEW r, RequestOK(r)
  PROVE  Effect(r, processBinaryRequest(r))
<1>1. Effect(r, r) /\ Effect(r, Plain(r, "NO_ERROR"))
  BY PlainLemma DEF Effect
<1>2. QED
  BY <1>1, GetLemma, WriteLemma, DeleteLemma DEF processBinaryRequest, Writing
-----------------------------------------------------------------------------
(* The invariant holds at the start and every step preserves it.           *)

\* The worker as its thread starts.
LEMMA UdpInit == Init => UdpInv
<1> SUFFICES ASSUME Init PROVE UdpInv
  OBVIOUS
<1>1. rx = <<>> /\ rx \in Seq(Datagram) /\ DOMAIN rx = {}
  BY EmptySeq DEF Init
<1>2. \A m \in Messages : MessageOK(msg[m])
  BY Sizes DEF Init, MessageOK, HeaderOK, Uninitialised
<1>3. TableOK(table)
  BY UdpAssumption DEF Init, TableOK, IsSeq
<1>4. UdpTypes
  <2>1. 0 \in 0 .. MaxMsgs /\ 1 \in 1 .. MaxMsgs
    BY Sizes
  <2>2. asked \in [Clients -> AllRequests \cup {NoReply}]
    BY DEF Init
  <2>3. QED
    BY <1>1, <1>2, <1>3, <2>1, <2>2 DEF Init, UdpTypes
<1>5. RxInv /\ NoMissedDatagram
  BY <1>1 DEF RxInv, NoMissedDatagram
<1>6. BatchInv /\ BufInv
  BY DEF Init, BatchInv, BufInv, Batch, Unprocessed
<1>7. ReplyInv /\ DeletedAfterExit
  BY DEF Init, ReplyInv, OneReply, DeletedAfterExit
<1>8. QED
  BY <1>4, <1>5, <1>6, <1>7 DEF UdpInv

\* A datagram arrives from a client that has not asked before.
LEMMA ArriveStep ==
  ASSUME UdpInv, NEW c \in Clients, NEW q \in Requests[c], Arrive(c, q)
  PROVE  UdpInv'
<1> USE DEF UdpInv
<1> DEFINE d == [from |-> c, cells |-> q]
<1>1. q \in AllRequests /\ q # NoReply /\ d \in Datagram
  BY RequestLemma DEF AllRequests, Datagram
<1>2. /\ rx' = Append(rx, d) /\ rx' \in Seq(Datagram) /\ Len(rx') = Len(rx) + 1
      /\ DOMAIN rx' = 1 .. Len(rx) + 1 /\ DOMAIN rx = 1 .. Len(rx) /\ Len(rx) \in Nat
      /\ \A i \in 1 .. Len(rx) : rx'[i] = rx[i]
      /\ rx'[Len(rx) + 1] = d
  BY <1>1 DEF Arrive, UdpTypes
<1>3. /\ asked[c] = NoReply /\ asked'[c] = q
      /\ \A b \in Clients : b # c => asked'[b] = asked[b]
      /\ asked' \in [Clients -> AllRequests \cup {NoReply}]
      /\ edge' = TRUE
      /\ UNCHANGED <<incomplete, msg, count, at, table, main, pc, whole, served, got>>
  BY <1>1 DEF Arrive, UdpTypes
<1>4. UdpTypes'
  BY <1>2, <1>3 DEF UdpTypes
<1>5. /\ c \notin whole \cup served
      /\ \A i \in DOMAIN rx : rx[i].from \in Clients \ {c} /\ rx[i].cells # NoReply
      /\ \A m \in Batch : msg[m].from # c
  <2>1. \A i \in DOMAIN rx : rx[i] \in Datagram
    BY DEF UdpTypes
  <2>2. \A i \in DOMAIN rx : rx[i].from \in Clients /\ rx[i].cells # NoReply
    BY <2>1, RequestLemma DEF Datagram
  <2>3. QED
    BY <1>3, <2>2 DEF RxInv, BatchInv, ReplyInv
<1>6. RxInv'
  BY <1>2, <1>3, <1>5 DEF RxInv
<1>7. BatchInv'
  BY <1>1, <1>2, <1>3, <1>5 DEF BatchInv, Batch
<1>8. BufInv'
  <2>1. \A m \in Unprocessed : m \in Batch
    BY DEF Unprocessed, Batch, UdpTypes
  <2>2. Unprocessed' = Unprocessed
    BY <1>3 DEF Unprocessed
  <2>3. QED
    BY <1>3, <1>5, <2>1, <2>2 DEF BufInv, UdpTypes
<1>9. ReplyInv' /\ DeletedAfterExit'
  BY <1>1, <1>3 DEF ReplyInv, OneReply, DeletedAfterExit, UdpTypes
<1>10. NoMissedDatagram'
  BY <1>3 DEF NoMissedDatagram
<1>11. QED
  BY <1>4, <1>6, <1>7, <1>8, <1>9, <1>10

\* recvmmsg moves the first n datagrams into the first n messages.
LEMMA RecvStep ==
  ASSUME UdpInv, Recv
  PROVE  UdpInv'
<1>u. UdpTypes /\ RxInv /\ ReplyInv /\ DeletedAfterExit
  BY DEF UdpInv
<1>1. rx \in Seq(Datagram) /\ Len(rx) \in Nat /\ DOMAIN rx = 1 .. Len(rx) /\ Len(rx) > 0
  BY <1>u DEF Recv, UdpTypes
<1>2. PICK n \in Nat : /\ n = Min({Len(rx), MaxMsgs})
                       /\ 1 <= n /\ n <= MaxMsgs /\ n <= Len(rx)
                       /\ n < Len(rx) => n = MaxMsgs
  <2>1. MaxMsgs \in Nat /\ MaxMsgs > 0
    BY Sizes
  <2>2. Min({Len(rx), MaxMsgs}) = IF Len(rx) <= MaxMsgs THEN Len(rx) ELSE MaxMsgs
    BY <1>1, <2>1, MinLemma
  <2>3. QED
    BY <1>1, <2>1, <2>2
<1>3. /\ rx' = SubSeq(rx, n + 1, Len(rx))
      /\ incomplete' \in BOOLEAN /\ (n = MaxMsgs => incomplete')
      /\ count' = n /\ at' = 1 /\ pc' = "process"
      /\ main' = main /\ asked' = asked /\ served' = served /\ got' = got /\ edge' = edge
      /\ table' = table
      /\ pc = "recv"
      /\ msg' = [m \in Messages |-> IF m <= n THEN Received(msg[m], rx[m]) ELSE msg[m]]
      /\ whole' = whole \cup {rx[m].from : m \in {l \in 1 .. n : Len(rx[l].cells) <= msg[l].iov}}
  BY <1>2 DEF Recv, MoreToRead
<1>4. /\ rx' \in Seq(Datagram) /\ Len(rx') = Len(rx) - n
      /\ \A i \in 1 .. Len(rx') : rx'[i] = rx[i + n]
      /\ rx' # <<>> => n < Len(rx)
  <2>1. n \in 0 .. Len(rx)
    BY <1>1, <1>2
  <2>2. QED
    BY <1>1, <1>3, <2>1, RestLemma
<1>r. /\ DOMAIN rx' = 1 .. Len(rx')
      /\ \A i \in 1 .. Len(rx') : i + n \in 1 .. Len(rx) /\ i + n \notin 1 .. n
  BY <1>1, <1>2, <1>4
<1>5. \A m \in 1 .. n : m \in Messages /\ m \in DOMAIN rx /\ rx[m].from \in Clients
                        /\ rx[m].cells \in AllRequests
  <2> TAKE m \in 1 .. n
  <2>1. m \in 1 .. MaxMsgs /\ m \in 1 .. Len(rx)
    BY <1>1, <1>2, Sizes
  <2>2. rx[m] \in Datagram
    BY <1>1, <2>1
  <2>3. QED
    BY <1>1, <2>1, <2>2 DEF Messages, Datagram
<1>q. \A m \in 1 .. n : \A i \in 1 .. Len(rx') : rx'[i].from # rx[m].from
  BY <1>u, <1>1, <1>4, <1>5, <1>r DEF RxInv
<1>6. /\ \A m \in Messages \ (1 .. n) : msg'[m] = msg[m]
      /\ \A m \in 1 .. n : msg'[m] = Received(msg[m], rx[m])
  <2>1. \A m \in 1 .. n : m <= n /\ m \in Messages
    BY <1>5
  <2>2. \A m \in Messages \ (1 .. n) : ~(m <= n)
    BY <1>2 DEF Messages
  <2>3. QED
    BY <1>3, <2>1, <2>2
<1>7. \A m \in 1 .. n :
         /\ msg'[m].from = rx[m].from
         /\ MessageOK(msg'[m])
         /\ Len(rx[m].cells) <= msg[m].iov =>
               \A i \in 1 .. Len(rx[m].cells) : msg'[m].buf[i] = rx[m].cells[i]
  <2> TAKE m \in 1 .. n
  <2> DEFINE l == Min({msg[m].iov, Len(rx[m].cells)})
             b == [i \in 1 .. BufSize |-> IF i <= l THEN rx[m].cells[i] ELSE msg[m].buf[i]]
  <2>1. MessageOK(msg[m]) /\ IsSeq(rx[m].cells) /\ Len(rx[m].cells) <= BufSize
        /\ HeaderOK(rx[m].cells[1])
    BY <1>u, <1>5, RequestLemma DEF UdpTypes
  <2>2. Len(rx[m].cells) \in Nat /\ msg[m].iov \in Nat
    BY <2>1 DEF IsSeq, MessageOK
  <2>3. l \in Nat /\ (Len(rx[m].cells) <= msg[m].iov => l = Len(rx[m].cells))
    BY <2>2, MinLemma
  <2>4. msg'[m] = [msg[m] EXCEPT !.from = rx[m].from, !.buf = b]
    BY <1>6 DEF Received
  <2> HIDE DEF l
  <2>5. DOMAIN b = 1 .. BufSize /\ HeaderOK(b[1])
        /\ \A i \in 1 .. BufSize : i <= l => b[i] = rx[m].cells[i]
    BY <2>1, Sizes DEF MessageOK
  <2> HIDE DEF b
  <2>6. /\ msg'[m].from = rx[m].from /\ msg'[m].buf = b /\ msg'[m].iov = msg[m].iov
        /\ DOMAIN msg'[m] = {"buf", "iov", "from"}
    BY <2>1, <2>4 DEF MessageOK
  <2>7. QED
    BY <2>1, <2>2, <2>3, <2>5, <2>6, Sizes DEF MessageOK
<1>8. UdpTypes'
  <2>1. DOMAIN msg' = Messages /\ \A m \in Messages : MessageOK(msg'[m])
    BY <1>u, <1>3, <1>6, <1>7 DEF UdpTypes
  <2>2. whole' \subseteq Clients
    BY <1>u, <1>3, <1>5 DEF UdpTypes
  <2>3. QED
    <3>1. n \in 0 .. MaxMsgs /\ 1 \in 1 .. MaxMsgs
      BY <1>2, Sizes
    <3>2. QED
      BY <1>u, <1>3, <1>4, <2>1, <2>2, <3>1 DEF UdpTypes
<1>9. RxInv'
  <2>1. \A i \in 1 .. Len(rx') : rx'[i].from \notin whole'
    <3>1. \A i \in 1 .. Len(rx') : rx'[i].from \notin whole
      BY <1>u, <1>1, <1>4, <1>r DEF RxInv
    <3>2. QED
      BY <1>3, <1>q, <3>1
  <2>2. \A i \in 1 .. Len(rx') : asked[rx'[i].from] = rx'[i].cells /\ rx'[i].from \notin served
    BY <1>u, <1>1, <1>4, <1>r DEF RxInv
  <2>3. \A i, j \in 1 .. Len(rx') : rx'[i].from = rx'[j].from => i = j
    <3> SUFFICES ASSUME NEW i \in 1 .. Len(rx'), NEW j \in 1 .. Len(rx'),
                        rx'[i].from = rx'[j].from
                 PROVE  i = j
      OBVIOUS
    <3>1. i + n = j + n
      BY <1>u, <1>1, <1>4, <1>r DEF RxInv
    <3>2. QED
      BY <1>2, <1>4, <3>1
  <2>4. QED
    BY <1>3, <1>r, <2>1, <2>2, <2>3 DEF RxInv
<1>10. BatchInv'
  <2>1. Batch' = 1 .. n
    BY <1>3 DEF Batch
  <2>2. \A m \in 1 .. n : msg'[m].from \in Clients \ served /\ asked[msg'[m].from] # NoReply
    BY <1>u, <1>5, <1>7, RequestLemma DEF RxInv
  <2>3. \A m \in 1 .. n : \A i \in 1 .. Len(rx') : rx'[i].from # msg'[m].from
    BY <1>7, <1>q
  <2>4. \A l, m \in 1 .. n : msg'[l].from = msg'[m].from => l = m
    BY <1>u, <1>5, <1>7 DEF RxInv
  <2>5. QED
    <3>1. at' <= count'
      BY <1>2, <1>3
    <3>2. served' = served /\ asked' = asked /\ DOMAIN rx' = 1 .. Len(rx')
      BY <1>3, <1>r
    <3>3. QED
      BY <2>1, <2>2, <2>3, <2>4, <3>1, <3>2 DEF BatchInv
<1>11. BufInv'
  <2>1. Unprocessed' = 1 .. n
    BY <1>3 DEF Unprocessed
  <2> SUFFICES ASSUME NEW m \in 1 .. n, rx[m].from \in whole'
               PROVE  \A i \in 1 .. Len(rx[m].cells) : msg'[m].buf[i] = rx[m].cells[i]
    <3>1. ASSUME NEW k \in 1 .. n
          PROVE  asked'[msg'[k].from] = rx[k].cells /\ msg'[k].from = rx[k].from
      <4>1. msg'[k].from = rx[k].from
        BY <1>7
      <4>2. k \in DOMAIN rx
        BY <1>5
      <4>3. asked[rx[k].from] = rx[k].cells
        BY <1>u, <4>2 DEF RxInv
      <4>4. QED
        BY <1>3, <4>1, <4>3
    <3>2. QED
      BY <2>1, <3>1 DEF BufInv
  <2>2. Len(rx[m].cells) <= msg[m].iov
    BY <1>u, <1>3, <1>5 DEF RxInv
  <2>3. QED
    BY <1>7, <2>2
<1>12. ReplyInv' /\ DeletedAfterExit'
  <2>1. \A c \in whole' : asked[c] # NoReply
    BY <1>u, <1>3, <1>5, RequestLemma DEF ReplyInv, RxInv
  <2>2. QED
    BY <1>u, <1>3, <2>1 DEF ReplyInv, OneReply, DeletedAfterExit
<1>13. NoMissedDatagram'
  BY <1>2, <1>3, <1>4 DEF NoMissedDatagram
<1>14. QED
  BY <1>8, <1>9, <1>10, <1>11, <1>12, <1>13 DEF UdpInv
\* A message after its request was answered.
LEMMA AnsweredLemma ==
  ASSUME NEW m, MessageOK(m), NEW s, RequestOK(s)
  PROVE  MessageOK(AnsweredIn(m, s)) /\ AnsweredIn(m, s).from = m.from
<1>1. /\ DOMAIN m = {"buf", "iov", "from"} /\ DOMAIN s.in = 1 .. BufSize
      /\ HeaderOK(s.in[1]) /\ Len(s.out) \in Nat
  BY DEF MessageOK, RequestOK, IsSeq
<1> DEFINE a == AnsweredIn(m, s)
<1>2. /\ DOMAIN a = {"buf", "iov", "from"} /\ a.buf = s.in /\ a.iov = Len(s.out)
      /\ a.from = m.from
  BY <1>1 DEF AnsweredIn
<1> HIDE DEF a
<1>3. MessageOK(a) /\ a.from = m.from
  BY <1>1, <1>2 DEF MessageOK
<1>4. QED
  BY <1>3 DEF a

\* A step that writes the reply of message at and goes on.
AnswerStep(s) ==
    /\ pc \in {"process", "fall"}
    /\ RequestOK(s)
    /\ table' = s.table
    /\ msg' = [msg EXCEPT ![at] = AnsweredIn(@, s)]
    /\ (pc' = "fall" /\ at' = at) \/ Advance
    /\ UNCHANGED <<kernel, incomplete, count, shouldStop, main, asked, whole, served, got>>

\* Whatever the command, writing its answer into the message preserves the invariant.
LEMMA AnswerStepLemma ==
  ASSUME UdpInv, NEW s, AnswerStep(s)
  PROVE  UdpInv'
<1>u. UdpTypes /\ RxInv /\ BatchInv /\ BufInv /\ ReplyInv /\ DeletedAfterExit /\ NoMissedDatagram
  BY DEF UdpInv
<1>f. /\ UNCHANGED <<rx, edge, incomplete, count, main, asked, whole, served, got>>
      /\ table' = s.table /\ pc \in {"process", "fall"}
  BY DEF AnswerStep, kernel
<1>1. /\ at \in 1 .. count /\ count \in 1 .. MaxMsgs /\ at \in Messages
      /\ at \in Int /\ count \in Int /\ MaxMsgs \in Int
  BY <1>u, <1>f, Sizes DEF UdpTypes, BatchInv, Messages
<1>2. \/ pc' = "fall" /\ at' = at
      \/ at < count /\ at' = at + 1 /\ pc' = "process"
      \/ at >= count /\ at' = at /\ pc' = "send"
  BY <1>1 DEF AnswerStep, Advance
<1>3. /\ DOMAIN msg' = Messages
      /\ \A m \in Messages : m # at => msg'[m] = msg[m]
      /\ msg'[at] = AnsweredIn(msg[at], s)
  BY <1>u, <1>1 DEF AnswerStep, UdpTypes
<1>4. \A m \in Messages : MessageOK(msg'[m]) /\ msg'[m].from = msg[m].from
  BY <1>u, <1>1, <1>3, AnsweredLemma DEF UdpTypes, AnswerStep
<1>5. at' \in 1 .. MaxMsgs /\ at' <= count /\ pc' \in {"process", "fall", "send"}
  BY <1>1, <1>2
<1>6. UdpTypes'
  <2>1. TableOK(s.table)
    BY DEF AnswerStep, RequestOK
  <2>2. QED
    BY <1>u, <1>f, <1>3, <1>4, <1>5, <2>1 DEF UdpTypes
<1>7. RxInv'
  BY <1>u, <1>f DEF RxInv
<1>8. BatchInv'
  <2>1. Batch' = 1 .. count /\ Batch = 1 .. count
    BY <1>f, <1>5 DEF Batch
  <2>2. 1 .. count \subseteq Messages
    BY <1>1 DEF Messages
  <2>3. \A m \in 1 .. count : msg'[m].from = msg[m].from
    BY <1>4, <2>2
  <2>4. QED
    BY <1>u, <1>f, <1>5, <2>1, <2>3 DEF BatchInv
<1>9. BufInv'
  <2>1. \A m \in Unprocessed' : m \in Unprocessed /\ m # at /\ m \in Messages
    BY <1>f, <1>1, <1>2 DEF Unprocessed, Messages
  <2>2. QED
    BY <1>u, <1>f, <1>3, <2>1 DEF BufInv
<1>10. ReplyInv' /\ NoMissedDatagram' /\ DeletedAfterExit'
  <2>1. main \notin {"stopped", "deleted"}
    BY <1>u, <1>f DEF DeletedAfterExit
  <2>2. QED
    BY <1>u, <1>f, <2>1 DEF ReplyInv, OneReply, NoMissedDatagram, DeletedAfterExit
<1>11. QED
  BY <1>6, <1>7, <1>8, <1>9, <1>10 DEF UdpInv

\* The message processBinaryRequest is called with.
LEMMA CurrentRequest ==
  ASSUME UdpInv, pc \in {"process", "fall"}
  PROVE  /\ at \in Messages /\ MessageOK(msg[at])
         /\ RequestOK(Request(msg[at].buf, table))
<1>1. at \in Messages /\ MessageOK(msg[at]) /\ TableOK(table)
  BY DEF UdpInv, UdpTypes, Messages
<1>2. RequestOK(Request(msg[at].buf, table))
  BY <1>1, SeqEmpty DEF RequestOK, Request, MessageOK
<1>3. QED
  BY <1>1, <1>2

\* processBinaryRequest on the datagram at hand.
LEMMA ProcessStep ==
  ASSUME UdpInv, Process
  PROVE  UdpInv'
<1> DEFINE r == Request(msg[at].buf, table)
           s == processBinaryRequest(r)
<1>1. RequestOK(r)
  BY CurrentRequest DEF Process
<1>2. RequestOK(s)
  BY <1>1, ProcessLemma DEF Effect
<1>3. CASE Crashes(r)
  <2>1. /\ pc' = "crashed"
        /\ UNCHANGED <<rx, edge, incomplete, msg, count, at, table, main, asked, whole, served, got>>
    BY <1>3 DEF Process, kernel
  <2>2. main \notin {"stopped", "deleted"}
    BY DEF UdpInv, DeletedAfterExit, Process
  <2>3. Batch' = {} /\ Unprocessed' = {}
    BY <2>1 DEF Batch, Unprocessed
  <2>4. UdpTypes' /\ RxInv'
    BY <2>1 DEF UdpInv, UdpTypes, RxInv
  <2>5. BatchInv' /\ BufInv'
    BY <2>1, <2>3 DEF BatchInv, BufInv
  <2>6. ReplyInv' /\ DeletedAfterExit' /\ NoMissedDatagram'
    BY <2>1, <2>2 DEF UdpInv, ReplyInv, OneReply, DeletedAfterExit, NoMissedDatagram
  <2>7. QED
    BY <2>4, <2>5, <2>6 DEF UdpInv
<1>4. CASE ~Crashes(r)
  <2>1. AnswerStep(s)
    BY <1>2, <1>4 DEF Process, AnswerStep
  <2>2. QED
    BY <2>1, AnswerStepLemma
<1>5. QED
  BY <1>3, <1>4

\* ADD, also on a reply in progress.
LEMMA AddOK ==
  ASSUME NEW r, RequestOK(r)
  PROVE  RequestOK(Add(r))
<1> DEFINE s == [r EXCEPT !.table = With(@, KeyAt(r), ValueAt(r))]
<1>1. RequestOK(s)
  BY WithLemma
<1>2. Add(r) = IF Malformed(r) THEN r
               ELSE IF KeyAt(r) \in DOMAIN r.table THEN Plain(r, "KEY_EXISTS")
               ELSE IF Header(r).op = "ADD" THEN Plain(s, "NO_ERROR") ELSE s
  BY DEF Add
<1> HIDE DEF s
<1>3. QED
  BY <1>1, <1>2, PlainLemma

\* SET's missing break.
LEMMA FallStep ==
  ASSUME UdpInv, Fall
  PROVE  UdpInv'
<1> DEFINE b == msg[at].buf
           out == SubSeq(b, 1, msg[at].iov)
           r == [Request(b, table) EXCEPT !.out = out]
<1>1. MessageOK(msg[at]) /\ RequestOK(Request(b, table))
  BY CurrentRequest DEF Fall
<1>2. /\ IsSeq(out) /\ out = [i \in 1 .. msg[at].iov |-> b[i]]
      /\ msg[at].iov \in Nat /\ Len(out) = msg[at].iov
  BY <1>1, SeqSub DEF MessageOK
<1>3. out # <<>> => HeaderOK(out[1])
  <2>1. out # <<>> => msg[at].iov >= 1
    BY <1>2
  <2>2. QED
    BY <1>1, <1>2, <2>1 DEF MessageOK
<1> HIDE DEF out
<1>4. r.in = b /\ r.out = out /\ r.table = table /\ r \in [in : {b}, out : {out}, table : {table}]
  BY DEF Request
<1>5. RequestOK(r)
  BY <1>1, <1>2, <1>3, <1>4 DEF RequestOK, Request
<1> HIDE DEF r
<1>6. RequestOK(Add(r))
  BY <1>5, AddOK
<1>7. AnswerStep(Add(r))
  BY <1>6 DEF Fall, AnswerStep, history, r, b, out
<1>8. QED
  BY <1>7, AnswerStepLemma

\* sendmmsg gives every client of the batch at most one message.
LEMMA SendStep ==
  ASSUME UdpInv, Send
  PROVE  UdpInv'
<1>u. UdpTypes /\ RxInv /\ BatchInv /\ ReplyInv /\ DeletedAfterExit /\ NoMissedDatagram
  BY DEF UdpInv
<1>1. /\ UNCHANGED <<rx, edge, incomplete, msg, count, at, table, main, asked, whole>>
      /\ pc = "send" /\ pc' = "loop"
      /\ served' = served \cup {msg[m].from : m \in 1 .. count}
  BY DEF Send, kernel
<1>2. PICK n \in 0 .. count :
         got' = [c \in Clients |->
              IF \E m \in 1 .. n : msg[m].from = c
              THEN Append(got[c], Message(CHOOSE m \in 1 .. n : msg[m].from = c)) ELSE got[c]]
  BY DEF Send
<1>3. Batch = 1 .. count /\ Batch' = {} /\ Unprocessed' = {} /\ count \in Nat
  BY <1>u, <1>1, Sizes DEF Batch, Unprocessed, UdpTypes
<1>4. \A m \in 1 .. count : msg[m].from \in Clients \ served /\ asked[msg[m].from] # NoReply
                            /\ \A i \in DOMAIN rx : rx[i].from # msg[m].from
  BY <1>u, <1>3 DEF BatchInv
<1>5. UdpTypes'
  <2>1. served' \subseteq Clients
    BY <1>u, <1>1, <1>4 DEF UdpTypes
  <2>2. QED
    BY <1>u, <1>1, <1>2, <2>1 DEF UdpTypes
<1>6. RxInv'
  BY <1>u, <1>1, <1>4 DEF RxInv
<1>7. BatchInv' /\ BufInv'
  BY <1>1, <1>3 DEF BatchInv, BufInv
<1>8. ReplyInv'
  <2>1. \A c \in Clients :
           \/ got'[c] = got[c]
           \/ got[c] = <<>> /\ c \in served' /\ \E x : got'[c] = <<x>>
    <3> TAKE c \in Clients
    <3>1. CASE \E m \in 1 .. n : msg[m].from = c
      <4>1. \E m \in 1 .. count : msg[m].from = c
        BY <1>2, <1>3, <3>1
      <4>2. c \notin served /\ c \in served'
        BY <1>1, <1>4, <4>1
      <4>3. got[c] = <<>>
        BY <1>u, <4>2 DEF ReplyInv
      <4>4. got'[c] = Append(<<>>, Message(CHOOSE m \in 1 .. n : msg[m].from = c))
        BY <1>2, <3>1, <4>3
      <4>5. \A x : Append(<<>>, x) = <<x>>
        OBVIOUS
      <4>6. QED
        BY <4>2, <4>3, <4>4, <4>5
    <3>2. CASE ~\E m \in 1 .. n : msg[m].from = c
      BY <1>2, <3>2
    <3>3. QED
      BY <3>1, <3>2
  <2>2. OneReply'
    <3> SUFFICES ASSUME NEW c \in Clients PROVE got'[c] = <<>> \/ got'[c] = <<got'[c][1]>>
      BY DEF OneReply
    <3>1. \A x : got'[c] = <<x>> => got'[c][1] = x
      OBVIOUS
    <3>2. QED
      BY <1>u, <2>1, <3>1 DEF ReplyInv, OneReply
  <2>3. \A c \in whole' \cup served' : asked'[c] # NoReply
    BY <1>u, <1>1, <1>4 DEF ReplyInv
  <2>4. \A c \in Clients : got'[c] # <<>> => c \in served'
    BY <1>u, <1>1, <2>1 DEF ReplyInv
  <2>5. QED
    BY <2>2, <2>3, <2>4 DEF ReplyInv
<1>9. DeletedAfterExit' /\ NoMissedDatagram'
  BY <1>u, <1>1 DEF DeletedAfterExit, NoMissedDatagram
<1>10. QED
  BY <1>5, <1>6, <1>7, <1>8, <1>9 DEF UdpInv

\* The steps that move no datagram, message or reply.
LEMMA OtherSteps ==
  ASSUME UdpInv,
         \/ Loop \/ EpollWait \/ RecvNothing \/ Signal \/ (Main /\ pc # "crashed")
         \/ (\E k \in DOMAIN table : Evicted(k))
         \/ UNCHANGED vars
  PROVE  UdpInv'
<1>u. UdpTypes /\ RxInv /\ BatchInv /\ BufInv /\ ReplyInv /\ DeletedAfterExit /\ NoMissedDatagram
  BY DEF UdpInv
<1>1. UNCHANGED <<rx, msg, count, at, asked, whole, served, got>>
  BY DEF Loop, EpollWait, RecvNothing, Signal, Main, Join, DeleteServer, Evicted, vars, kernel,
         history
<1>2. /\ \/ main' = main \/ main' = "joining"
         \/ pc = "exited" /\ pc' = pc /\ main' \in {"stopped", "deleted"}
      /\ \/ pc' = pc
         \/ pc' \in {"loop", "wait", "recv", "exited"} /\ pc \in {"loop", "wait", "recv"}
  <2>1. CASE Loop \/ EpollWait \/ RecvNothing
    <3>1. main' = main
      BY <2>1 DEF Loop, EpollWait, RecvNothing
    <3>2. pc \in {"loop", "wait", "recv"}
      BY <2>1 DEF Loop, EpollWait, RecvNothing
    <3>3. pc' \in {"loop", "wait", "recv", "exited"}
      BY <2>1 DEF Loop, EpollWait, RecvNothing
    <3>4. QED
      BY <3>1, <3>2, <3>3
  <2>2. CASE Main
    BY <1>u, <2>2 DEF Main, Join, DeleteServer, DeletedAfterExit
  <2>3. CASE Signal \/ (\E k \in DOMAIN table : Evicted(k)) \/ UNCHANGED vars
    <3>1. pc' = pc
      BY <2>3 DEF Signal, Evicted, vars
    <3>2. main' = main \/ main' = "joining"
      BY <2>3 DEF Signal, Evicted, vars
    <3>3. QED
      BY <3>1, <3>2
  <2>4. QED
    BY <2>1, <2>2, <2>3
<1>3. TableOK(table')
  <2>1. table' = table \/ table' = <<>> \/ \E k \in DOMAIN table : table' = Without(table, k)
    BY DEF Loop, EpollWait, RecvNothing, Signal, Main, Join, DeleteServer, Evicted, vars
  <2>2. CASE table' = <<>>
    BY <2>2 DEF TableOK
  <2>3. CASE table' = table
    BY <1>u, <2>3 DEF UdpTypes
  <2>4. ASSUME NEW k \in DOMAIN table, table' = Without(table, k) PROVE TableOK(table')
    BY <1>u, <2>4 DEF UdpTypes, TableOK, Without
  <2>5. QED
    BY <2>1, <2>2, <2>3, <2>4
<1>4. /\ edge' \in BOOLEAN /\ incomplete' \in BOOLEAN
      /\ NoMissedDatagram'
  <2>1. CASE EpollWait
    BY <1>u, <2>1 DEF EpollWait, UdpTypes, NoMissedDatagram
  <2>2. CASE ~EpollWait
    <3>1. UNCHANGED <<edge, incomplete>>
      BY <2>2 DEF Loop, RecvNothing, Signal, Main, Join, DeleteServer, Evicted, vars, kernel
    <3>2. QED
      BY <1>u, <1>1, <3>1 DEF UdpTypes, NoMissedDatagram
  <2>3. QED
    BY <2>1, <2>2
<1>5. UdpTypes'
  BY <1>u, <1>1, <1>2, <1>3, <1>4 DEF UdpTypes
<1>6. Batch' = Batch /\ Unprocessed' = Unprocessed
  BY <1>1, <1>2 DEF Batch, Unprocessed
<1>7. RxInv' /\ ReplyInv'
  BY <1>u, <1>1 DEF RxInv, ReplyInv, OneReply
<1>8. BatchInv' /\ BufInv'
  BY <1>u, <1>1, <1>2, <1>6 DEF BatchInv, BufInv
<1>9. DeletedAfterExit'
  BY <1>u, <1>2 DEF DeletedAfterExit
<1>10. QED
  BY <1>4, <1>5, <1>7, <1>8, <1>9 DEF UdpInv

-----------------------------------------------------------------------------
\* The inductive invariant of the UDP worker (the UDP branch of ServerThread::threadProc):
\* every step of the kernel, of the worker and of the thread that stops it preserves it.
THEOREM UdpInductive == Spec => []UdpInv
<1>1. UdpInv /\ [Next]_vars => UdpInv'
  <2> SUFFICES ASSUME UdpInv, [Next]_vars PROVE UdpInv'
    OBVIOUS
  <2>1. ASSUME NEW c \in Clients, NEW q \in Requests[c], Arrive(c, q) PROVE UdpInv'
    BY <2>1, ArriveStep
  <2>2. CASE Recv
    BY <2>2, RecvStep
  <2>3. CASE Process
    BY <2>3, ProcessStep
  <2>4. CASE Fall
    BY <2>4, FallStep
  <2>5. CASE Send
    BY <2>5, SendStep
  <2>6. CASE \/ Loop \/ EpollWait \/ RecvNothing \/ Signal \/ (Main /\ pc # "crashed")
             \/ (\E k \in DOMAIN table : Evicted(k))
             \/ UNCHANGED vars
    BY <2>6, OtherSteps
  <2>7. QED
    BY <2>1, <2>2, <2>3, <2>4, <2>5, <2>6 DEF Next, Worker, Ended
<1>2. QED
  BY <1>1, UdpInit, PTL DEF Spec

\* No datagram is forgotten in the receive queue: as long as one is there, the
\* edge-triggered event that announces it is still to come or
\* udpIncompleteRead makes the worker call recvmmsg again.
THEOREM NoDatagramForgotten == Spec => []NoMissedDatagram
<1>1. UdpInv => NoMissedDatagram
  BY DEF UdpInv
<1>2. QED
  BY <1>1, UdpInductive, PTL

\* However many datagrams of different clients share a batch, and although the
\* messages of earlier batches are reused, no client is sent a second message.
THEOREM RepliedOnce == Spec => []OneReply
<1>1. UdpInv => OneReply
  BY DEF UdpInv, ReplyInv
<1>2. QED
  BY <1>1, UdpInductive, PTL

\* stop joins the worker before main goes on to delete the table, so that no
\* request is ever processed on a deleted table.
THEOREM NoUseAfterDelete == Spec => []DeletedAfterExit
<1>1. UdpInv => DeletedAfterExit
  BY DEF UdpInv
<1>2. QED
  BY <1>1, UdpInductive, PTL
-----------------------------------------------------------------------------
(* What a request stores.                                                  *)

\* The key, flags and value that processBinaryRequest takes out of a buffer that
\* starts with request q are those of q; more may follow the value.
LEMMA BufferHoldsRequest ==
  ASSUME NEW q \in AllRequests, NEW r, RequestOK(r), ~Malformed(r),
         \A i \in 1 .. Len(q) : r.in[i] = q[i]
  PROVE  LET h == q[1]
         IN  /\ Header(r) = h
             /\ KeyAt(r) = SubSeq(q, 2 + h.extrasLen, 1 + h.extrasLen + h.keyLen)
             /\ ValueAt(r).flags = q[2]
             /\ IsPrefix(SubSeq(q, 2 + h.extrasLen + h.keyLen, Len(q)), ValueAt(r).value)
<1> DEFINE h == q[1]
<1>1. /\ Len(q) \in Nat /\ Len(q) = 1 + h.bodyLen /\ IsSeq(q)
      /\ h.keyLen \in Nat /\ h.extrasLen \in Nat /\ h.bodyLen \in Nat
      /\ h.bodyLen >= h.extrasLen + h.keyLen
  BY RequestLemma DEF HeaderOK, IsSeq
<1>2. Header(r) = h
  BY <1>1 DEF Header
<1>3. PICK x \in Nat, k \in Nat, b \in Nat :
         x = h.extrasLen /\ k = h.keyLen /\ b = h.bodyLen
  BY <1>1
<1>4. k > 0 /\ b >= x + k /\ Len(q) = 1 + b
  BY <1>1, <1>2, <1>3 DEF Malformed
<1>5. KeyAt(r) = SubSeq(q, 2 + x, 1 + x + k)
  <2>1. KeyAt(r) = SubSeq(r.in, 2 + x, 2 + x + k - 1)
    BY <1>2, <1>3 DEF KeyAt, Cells
  <2>2. SubSeq(r.in, 2 + x, 2 + x + k - 1) = [i \in 1 .. k |-> r.in[i + (2 + x) - 1]]
    BY SeqSub
  <2>3. SubSeq(q, 2 + x, 1 + x + k) = [i \in 1 .. k |-> q[i + (2 + x) - 1]]
    BY SeqSub
  <2>4. \A i \in 1 .. k : i + (2 + x) - 1 \in 1 .. Len(q)
    BY <1>4
  <2>5. QED
    BY <2>1, <2>2, <2>3, <2>4
<1>6. ValueAt(r).flags = q[2]
  BY <1>4 DEF ValueAt
<1>7. IsPrefix(SubSeq(q, 2 + x + k, Len(q)), ValueAt(r).value)
  <2> DEFINE s == SubSeq(q, 2 + x + k, Len(q))
             v == SubSeq(r.in, 2 + x + k, 2 + x + k + (b - x + k) - 1)
             m == b - x - k
             n == b - x + k
  <2>1. ValueAt(r).value = v
    BY <1>2, <1>3 DEF ValueAt, Cells
  <2>2. m \in Nat /\ n \in Nat /\ m <= n
    BY <1>4
  <2>3. s = [i \in 1 .. m |-> q[i + (2 + x + k) - 1]] /\ Len(s) = m
    BY <1>4, <2>2, SeqSub
  <2>4. v = [i \in 1 .. n |-> r.in[i + (2 + x + k) - 1]] /\ Len(v) = n
    BY <1>4, <2>2, SeqSub
  <2>5. \A i \in 1 .. m : i \in 1 .. n /\ i + (2 + x + k) - 1 \in 1 .. Len(q)
    BY <1>4
  <2>6. \A i \in 1 .. m : s[i] = v[i]
    BY <2>3, <2>4, <2>5
  <2> HIDE DEF s, v, m, n
  <2>7. SubSeq(v, 1, Len(s)) = [i \in 1 .. m |-> v[i]]
    <3>1. SubSeq(v, 1, m) = [i \in 1 .. (1 + m - 1) |-> v[i + 1 - 1]]
      BY <2>2, SeqSub
    <3>2. QED
      BY <2>2, <2>3, <3>1
  <2>8. s = [i \in 1 .. m |-> s[i]]
    BY <2>3
  <2>9. s = SubSeq(v, 1, Len(s)) /\ Len(s) <= Len(v)
    BY <2>2, <2>3, <2>4, <2>6, <2>7, <2>8
  <2>10. IsPrefix(s, v)
    BY <2>9 DEF IsPrefix
  <2>11. QED
    BY <2>1, <2>10 DEF s, v
<1>8. QED
  BY <1>2, <1>3, <1>5, <1>6, <1>7
\* A request received whole changes the table at most under its own key, and
\* what it stores begins with the flags and the value that were sent.
THEOREM StoresRight == Spec => StoresWhatWasSent
<1> DEFINE A == pc = "process" /\ msg[at].from \in whole /\ main' = main =>
                  LET q == asked[msg[at].from]
                      h == q[1]
                      key == SubSeq(q, 2 + h.extrasLen, 1 + h.extrasLen + h.keyLen)
                      sent == SubSeq(q, 2 + h.extrasLen + h.keyLen, Len(q))
                  IN  \A k \in DOMAIN table' :
                         \/ k \in DOMAIN table /\ table'[k] = table[k]
                         \/ h.op \in Writing /\ k = key /\ table'[k].flags = q[2]
                              /\ IsPrefix(sent, table'[k].value)
<1>1. UdpInv /\ [Next]_vars => A
  <2> SUFFICES ASSUME UdpInv, [Next]_vars,
                      pc = "process", msg[at].from \in whole, main' = main
               PROVE  A
    OBVIOUS
  <2> DEFINE q == asked[msg[at].from]
             r == Request(msg[at].buf, table)
             s == processBinaryRequest(r)
  <2>1. CASE table' = table
    BY <2>1
  <2>2. ASSUME NEW k \in DOMAIN table, Evicted(k) PROVE A
    BY <2>2 DEF Evicted, Without
  <2>3. CASE Process /\ ~Crashes(r)
    <3>1. table' = s.table
      BY <2>3 DEF Process
    <3>2. RequestOK(r) /\ at \in Messages
      BY CurrentRequest
    <3>3. q \in AllRequests
      BY DEF UdpInv, UdpTypes, ReplyInv
    <3>4. \A i \in 1 .. Len(q) : r.in[i] = q[i]
      <4>1. at \in at .. count
        BY Sizes DEF UdpInv, UdpTypes, BatchInv
      <4>2. \A i \in 1 .. Len(q) : msg[at].buf[i] = q[i]
        BY <4>1 DEF UdpInv, BufInv, Unprocessed
      <4>3. r.in = msg[at].buf
        BY DEF Request
      <4>4. QED
        BY <4>2, <4>3
    <3>5. r.table = table
      BY DEF Request
    <3> HIDE DEF r
    <3>6. Effect(r, s)
      BY <3>2, ProcessLemma
    <3> HIDE DEF q, s
    <3>7. \A k \in DOMAIN s.table :
             \/ k \in DOMAIN table /\ s.table[k] = table[k]
             \/ /\ q[1].op \in Writing
                /\ k = SubSeq(q, 2 + q[1].extrasLen, 1 + q[1].extrasLen + q[1].keyLen)
                /\ s.table[k].flags = q[2]
                /\ IsPrefix(SubSeq(q, 2 + q[1].extrasLen + q[1].keyLen, Len(q)), s.table[k].value)
      <4>1. Malformed(r) \/
             (/\ Header(r) = q[1]
              /\ KeyAt(r) = SubSeq(q, 2 + q[1].extrasLen, 1 + q[1].extrasLen + q[1].keyLen)
              /\ ValueAt(r).flags = q[2]
              /\ IsPrefix(SubSeq(q, 2 + q[1].extrasLen + q[1].keyLen, Len(q)), ValueAt(r).value))
        BY <3>2, <3>3, <3>4, BufferHoldsRequest
      <4>2. QED
        BY <3>5, <3>6, <4>1 DEF Effect
    <3>8. QED
      BY <3>1, <3>7 DEF q
  <2>4. CASE Process /\ Crashes(r)
    BY <2>1, <2>4 DEF Process
  <2>5. CASE Loop \/ EpollWait \/ RecvNothing \/ Recv \/ Fall \/ Send
    BY <2>5 DEF Loop, EpollWait, RecvNothing, Recv, Fall, Send
  <2>6. CASE Signal \/ UNCHANGED vars \/ (\E c \in Clients : \E x \in Requests[c] : Arrive(c, x))
    BY <2>1, <2>6 DEF Signal, vars, Arrive
  <2>7. CASE Main
    BY <2>7 DEF Main, Join, DeleteServer
  <2>8. QED
    BY <2>2, <2>3, <2>4, <2>5, <2>6, <2>7 DEF Next, Worker, Ended
<1>2. QED
  BY <1>1, UdpInductive, PTL DEF Spec, StoresWhatWasSent

-----------------------------------------------------------------------------
(* The reply to a request.                                                 *)

\* Every reply fits into a message, also one with a value that was stored with
\* the rest of its sender's buffer behind it.  The code does not compare them.
RoomForReplies ==
    /\ \A k \in DOMAIN Preloaded : 2 + Len(k) + Len(Preloaded[k].value) <= BufSize
    /\ \A q \in AllRequests : 2 + 2 * q[1].keyLen + q[1].bodyLen - q[1].extrasLen <= BufSize

\* Requests that processBinaryRequest does not skip as incorrect.
ProperRequests ==
    \A q \in AllRequests :
       /\ q[1].op \in Reading => q[1].keyLen = q[1].bodyLen
       /\ q[1].op \in Writing => q[1].extrasLen # 0
       /\ q[1].op \in Reading \cup Writing \cup Deleting => q[1].keyLen # 0

\* A read of any entry fits.
TableFits(t) == \A k \in DOMAIN t : 2 + Len(k) + Len(t[k].value) <= BufSize

\* A message without a reply, or not looked at yet, has a request on top; when
\* SET goes on into ADD there is its reply, which has no key, or a SETQ.
Heads == {q[1] : q \in AllRequests}
Replied(m) == m.iov = 1 /\ m.buf[1].keyLen = 0
FitInv ==
    /\ TableFits(table)
    /\ \A m \in Messages :
          /\ msg[m].iov <= BufSize
          /\ msg[m].iov = 0 \/ m \in Unprocessed => msg[m].buf[1] \in Heads
    /\ pc = "fall" => Replied(msg[at]) \/ (msg[at].iov = 0 /\ msg[at].buf[1].op = "SETQ")

\* The messages that were processed hold, and the clients that were answered
\* have got, the reply their request deserved then.
Said(c) == c \in whole /\ asked[c][1].op # "SETQ"
Due(c, cells) == Said(c) => AsRead(cells) = due[c]
DueInv ==
    /\ DOMAIN due = Clients
    /\ \A m \in Batch \ Unprocessed : Due(msg[m].from, Message(m))
    /\ \A c \in Clients : got[c] # <<>> => Due(c, got[c][1])
    /\ pc = "fall" /\ Said(msg[at].from) => Replied(msg[at])

\* The lengths in the header of a request.
LEMMA HeadLemma ==
  ASSUME RoomForReplies, NEW h \in Heads
  PROVE  /\ h.keyLen \in Nat /\ h.extrasLen \in Nat /\ h.bodyLen \in Nat
         /\ h.magic = "request"
         /\ h.bodyLen >= h.extrasLen + h.keyLen
         /\ 2 + 2 * h.keyLen + h.bodyLen - h.extrasLen <= BufSize
<1>1. PICK q \in AllRequests : h = q[1]
  BY DEF Heads
<1>2. QED
  BY <1>1, RequestLemma DEF RoomForReplies, HeaderOK

\* Nothing was written yet.
Fresh(r) == r.out = <<>>

\* What a first reply consists of.
ReplyHeader(status, k, x, body) ==
    [magic |-> "reply", status |-> status, keyLen |-> k, extrasLen |-> x, bodyLen |-> Len(body)]
LEMMA ReplyShape ==
  ASSUME NEW r, RequestOK(r), Fresh(r), NEW status, NEW k, NEW x, NEW body,
         IsSeq(body)
  PROVE  LET s == Reply(r, status, k, x, body)
         IN  /\ s.out = <<ReplyHeader(status, k, x, body)>> \o body
             /\ s.in = Overwritten(r.in, s.out) /\ s.table = r.table
             /\ IsSeq(s.out) /\ Len(s.out) = 1 + Len(body) /\ ~Fresh(s)
<1> DEFINE h == ReplyHeader(status, k, x, body)
           out == r.out \o <<h>> \o body
           s == Reply(r, status, k, x, body)
<1>0. r.out = <<>>
  BY DEF Fresh
<1>1. /\ s = [r EXCEPT !.out = out, !.in = Overwritten(r.in, out)]
      /\ r \in [in : {r.in}, out : {r.out}, table : {r.table}]
  BY DEF Reply, ReplyHeader, RequestOK
<1>2. s.out = out /\ s.in = Overwritten(r.in, out) /\ s.table = r.table
  BY <1>1
<1> HIDE DEF h
<1>3. <<>> \o <<h>> = <<h>>
  OBVIOUS
<1>4. IsSeq(<<h>>) /\ Len(<<h>>) = 1
  BY SeqShort
<1>5. IsSeq(<<h>> \o body) /\ Len(<<h>> \o body) = 1 + Len(body) /\ Len(body) \in Nat
  BY <1>4, SeqConcat DEF IsSeq
<1>6. out = <<h>> \o body
  BY <1>0, <1>3
<1> HIDE DEF out, s
<1>7. ~Fresh(s)
  BY <1>2, <1>5, <1>6, SeqEmpty DEF Fresh
<1>8. QED
  BY <1>2, <1>5, <1>6, <1>7 DEF h, s

\* A reply as the client reads it: behind the header it has its extras, its key
\* and the rest.
LEMMA ReadLemma ==
  ASSUME NEW h, h.magic = "reply", NEW ext, IsSeq(ext), NEW key, IsSeq(key), NEW rest, IsSeq(rest),
         h.extrasLen = Len(ext), h.keyLen = Len(key)
  PROVE  AsRead(<<h>> \o (ext \o key \o rest)) = <<h.status, key, ext \o rest>>
<1> DEFINE a == ext \o key
           b == a \o rest
           out == <<h>> \o b
<1>1. PICK x \in Nat, k \in Nat, n \in Nat : x = Len(ext) /\ k = Len(key) /\ n = Len(rest)
  BY DEF IsSeq
<1>2. /\ IsSeq(a) /\ Len(a) = x + k
      /\ \A i \in 1 .. x : a[i] = ext[i]
      /\ \A i \in 1 .. k : a[i + x] = key[i]
  BY <1>1, SeqConcat
<1>a. HIDE DEF a
<1>3. /\ IsSeq(b) /\ Len(b) = x + k + n
      /\ \A i \in 1 .. x + k : b[i] = a[i]
      /\ \A i \in 1 .. n : b[i + (x + k)] = rest[i]
  <2>1. /\ IsSeq(b) /\ Len(b) = Len(a) + Len(rest)
        /\ \A i \in 1 .. Len(a) : b[i] = a[i]
        /\ \A i \in 1 .. Len(rest) : b[i + Len(a)] = rest[i]
    BY <1>2, SeqConcat
  <2> HIDE DEF b
  <2>2. QED
    BY <1>1, <1>2, <2>1
<1>b. HIDE DEF b
<1>4. /\ IsSeq(out) /\ Len(out) = 1 + (x + k + n) /\ out[1] = h
      /\ \A i \in 1 .. x + k + n : out[i + 1] = b[i]
  <2>1. IsSeq(<<h>>) /\ Len(<<h>>) = 1 /\ <<h>>[1] = h /\ 1 \in 1 .. 1
    BY SeqShort
  <2>2. QED
    BY <1>1, <1>3, <2>1, SeqConcat
<1>o. HIDE DEF out
<1>5. SubSeq(out, 2 + x, 1 + x + k) = key
  <2>1. SubSeq(out, 2 + x, 1 + x + k) = [i \in 1 .. k |-> out[i + (2 + x) - 1]]
    <3>1. 1 + (1 + x + k) - (2 + x) = k /\ 2 + x \in Int /\ 1 + x + k \in Int
      BY <1>1
    <3>2. QED
      BY <3>1, SeqSub
  <2>2. ASSUME NEW i \in 1 .. k PROVE out[i + (2 + x) - 1] = key[i]
    <3>1. i + x \in 1 .. x + k /\ i + x \in 1 .. x + k + n /\ i + (2 + x) - 1 = (i + x) + 1
      BY <1>1
    <3>2. QED
      BY <3>1, <1>2, <1>3, <1>4
  <2>3. QED
    BY <2>1, <2>2, <1>1 DEF IsSeq
<1>6. SubSeq(out, 2, 1 + x) = ext
  <2>1. SubSeq(out, 2, 1 + x) = [i \in 1 .. x |-> out[i + 2 - 1]]
    <3>1. 1 + (1 + x) - 2 = x /\ 1 + x \in Int
      BY <1>1
    <3>2. QED
      BY <3>1, SeqSub
  <2>2. ASSUME NEW i \in 1 .. x PROVE out[i + 2 - 1] = ext[i]
    <3>1. i \in 1 .. x + k /\ i \in 1 .. x + k + n /\ i + 2 - 1 = i + 1
      BY <1>1
    <3>2. QED
      BY <3>1, <1>2, <1>3, <1>4
  <2>3. QED
    BY <2>1, <2>2, <1>1 DEF IsSeq
<1>7. SubSeq(out, 2 + x + k, Len(out)) = rest
  <2>1. SubSeq(out, 2 + x + k, Len(out)) = [i \in 1 .. n |-> out[i + (2 + x + k) - 1]]
    <3>1. 1 + Len(out) - (2 + x + k) = n /\ 2 + x + k \in Int /\ Len(out) \in Int
      BY <1>1, <1>4
    <3>2. QED
      BY <3>1, SeqSub
  <2>2. ASSUME NEW i \in 1 .. n PROVE out[i + (2 + x + k) - 1] = rest[i]
    <3>1. /\ i + (x + k) \in 1 .. x + k + n
          /\ i + (2 + x + k) - 1 = (i + (x + k)) + 1
      BY <1>1
    <3>2. QED
      BY <3>1, <1>3, <1>4
  <2>3. QED
    BY <2>1, <2>2, <1>1 DEF IsSeq
<1>8. out # <<>>
  BY <1>1, <1>4, SeqEmpty
<1>9. AsRead(out) = <<h.status, key, ext \o rest>>
  BY <1>1, <1>4, <1>5, <1>6, <1>7, <1>8 DEF AsRead
<1>10. QED
  BY <1>9 DEF out, b, a

\* The empty sequence is neutral.
LEMMA ConcatEmpty ==
  ASSUME NEW s, IsSeq(s)
  PROVE  <<>> \o s = s /\ s \o <<>> = s
<1> DEFINE R == {s[i] : i \in 1 .. Len(s)}
<1>1. s \in Seq(R)
  BY DEF IsSeq
<1>2. QED
  BY <1>1

\* An answer: the reply fits and lies over the request, which is untouched if
\* there is none, and what was stored will fit into a reply.
Answers(r, s) ==
    /\ Len(s.out) <= BufSize
    /\ IF Fresh(s) THEN s.in = r.in ELSE s.in = Overwritten(r.in, s.out)
    /\ TableFits(s.table)

\* No reply, and one without a body.
LEMMA PlainAnswers ==
  ASSUME NEW r, RequestOK(r), Fresh(r), TableFits(r.table), NEW status
  PROVE  /\ Answers(r, r)
         /\ Answers(r, Plain(r, status)) /\ Len(Plain(r, status).out) = 1
         /\ Plain(r, status).in[1].keyLen = 0
         /\ AsRead(Plain(r, status).out) = <<status, <<>>, <<>>>>
<1>1. PICK e : e = <<>> /\ IsSeq(e) /\ Len(e) = 0
  BY SeqEmpty
<1> DEFINE s == Reply(r, status, 0, 0, e)
           h == ReplyHeader(status, 0, 0, e)
<1>e. IsSeq(e) /\ Len(e) = 0
  BY <1>1
<1>f. IsSeq(e)
  BY <1>e
<1>2. s = Plain(r, status)
  BY <1>1 DEF Plain
<1>3. /\ s.out = <<h>> \o e
      /\ s.in = Overwritten(r.in, s.out) /\ s.table = r.table
      /\ Len(s.out) = 1 + Len(e) /\ ~Fresh(s)
  BY <1>f, ReplyShape
<1>4. h.magic = "reply" /\ h.status = status /\ h.keyLen = 0 /\ h.extrasLen = 0
  BY DEF ReplyHeader
<1>k. HIDE DEF s, h
<1>5. <<h>> \o e = <<h>> /\ Len(s.out) = 1 /\ e \o e = e
  BY <1>1, <1>3, SeqShort, ConcatEmpty
<1>6. Answers(r, r) /\ Answers(r, s)
  BY <1>3, <1>5, Sizes, SeqEmpty DEF Answers, Fresh
<1>7. s.in[1].keyLen = 0
  <2>1. 1 \in DOMAIN r.in
    BY Sizes DEF RequestOK
  <2>2. s.in[1] = s.out[1]
    BY <1>3, <1>5, <2>1 DEF Overwritten
  <2>3. QED
    BY <1>3, <1>4, <1>5, <2>2
<1>8. AsRead(s.out) = <<status, e, e>>
  <2>1. h.extrasLen = Len(e) /\ h.keyLen = Len(e)
    BY <1>1, <1>4
  <2>2. AsRead(<<h>> \o (e \o e \o e)) = <<h.status, e, e \o e>>
    BY <1>e, <1>4, <2>1, ReadLemma
  <2>3. QED
    BY <1>3, <1>4, <1>5, <2>2
<1>9. QED
  BY <1>1, <1>2, <1>5, <1>6, <1>7, <1>8

\* A reply that a quiet request does not get.
QuietReply(op, status) == IF op \in Quiet THEN NoReply ELSE <<status, <<>>, <<>>>>
LEMMA UnlessQuietAnswers ==
  ASSUME NEW r, RequestOK(r), Fresh(r), TableFits(r.table), NEW status
  PROVE  /\ Answers(r, UnlessQuiet(r, status))
         /\ AsRead(UnlessQuiet(r, status).out) = QuietReply(Header(r).op, status)
         /\ IF Header(r).op \in Quiet THEN UnlessQuiet(r, status) = r
                                      ELSE UnlessQuiet(r, status) = Plain(r, status)
<1>1. AsRead(<<>>) = NoReply
  BY DEF AsRead
<1>2. /\ Answers(r, r) /\ Answers(r, Plain(r, status))
      /\ AsRead(Plain(r, status).out) = <<status, <<>>, <<>>>>
  BY PlainAnswers
<1>3. AsRead(r.out) = NoReply
  BY <1>1 DEF Fresh
<1>4. CASE Header(r).op \in Quiet
  <2>1. UnlessQuiet(r, status) = r /\ QuietReply(Header(r).op, status) = NoReply
    BY <1>4 DEF UnlessQuiet, QuietReply
  <2>2. QED
    BY <1>2, <1>3, <1>4, <2>1
<1>5. CASE Header(r).op \notin Quiet
  <2>1. /\ UnlessQuiet(r, status) = Plain(r, status)
        /\ QuietReply(Header(r).op, status) = <<status, <<>>, <<>>>>
    BY <1>5 DEF UnlessQuiet, QuietReply
  <2>2. QED
    BY <1>2, <1>5, <2>1
<1>6. QED
  BY <1>4, <1>5

\* A request with its value in the table.
Stored(r) == [r EXCEPT !.table = With(@, KeyAt(r), ValueAt(r))]
LEMMA StoredLemma ==
  ASSUME RoomForReplies, NEW r, RequestOK(r), Header(r) \in Heads, TableFits(r.table)
  PROVE  /\ RequestOK(Stored(r)) /\ TableFits(Stored(r).table)
         /\ Stored(r).in = r.in /\ Stored(r).out = r.out
<1> DEFINE h == Header(r)
           s == Stored(r)
<1>1. /\ RequestOK(s) /\ s.in = r.in /\ s.out = r.out
      /\ \A k \in DOMAIN s.table :
            \/ k \in DOMAIN r.table /\ s.table[k] = r.table[k]
            \/ k = KeyAt(r) /\ s.table[k] = ValueAt(r)
  BY WithLemma DEF Stored
<1>2. PICK x \in Nat, k \in Nat, b \in Nat :
         x = h.extrasLen /\ k = h.keyLen /\ b = h.bodyLen
  BY HeadLemma
<1>n. PICK n \in Nat : n = b - x + k /\ 2 + k + n <= BufSize
  <2>1. b >= x + k /\ 2 + 2 * k + b - x <= BufSize
    BY <1>2, HeadLemma
  <2>2. b - x + k \in Nat /\ 2 + k + (b - x + k) <= BufSize
    BY <2>1, Sizes
  <2>3. QED
    BY <2>2
<1>3. Len(KeyAt(r)) = k
  <2>1. KeyAt(r) = SubSeq(r.in, 2 + x, 2 + x + k - 1)
    BY <1>2 DEF KeyAt, Cells
  <2>2. QED
    BY <2>1, SeqSub
<1>4. Len(ValueAt(r).value) = n
  <2>1. ValueAt(r).value = SubSeq(r.in, 2 + x + k, 2 + x + k + (b - x + k) - 1)
    BY <1>2 DEF ValueAt, Cells
  <2>2. PICK from \in Int, upTo \in Int :
           from = 2 + x + k /\ upTo = 2 + x + k + (b - x + k) - 1
    OBVIOUS
  <2>3. Len(ValueAt(r).value) = IF upTo < from THEN 0 ELSE 1 + upTo - from
    BY <2>1, <2>2, SeqSub
  <2>4. (IF upTo < from THEN 0 ELSE 1 + upTo - from) = n
    BY <1>n, <2>2
  <2>5. QED
    BY <2>3, <2>4
<1>h. HIDE DEF s
<1>5. TableFits(s.table)
  <2> SUFFICES ASSUME NEW a \in DOMAIN s.table
               PROVE  2 + Len(a) + Len(s.table[a].value) <= BufSize
    BY DEF TableFits
  <2>1. CASE a = KeyAt(r) /\ s.table[a] = ValueAt(r)
    <3>1. Len(a) = k /\ Len(s.table[a].value) = n
      BY <2>1, <1>3, <1>4
    <3>2. QED
      BY <3>1, <1>n
  <2>2. CASE a \in DOMAIN r.table /\ s.table[a] = r.table[a]
    BY <2>2 DEF TableFits
  <2>3. QED
    BY <1>1, <2>1, <2>2
<1>6. QED
  BY <1>1, <1>5 DEF s

\* A reply with extras, key and value that fits.
Fitting(ext, key, rest) ==
    IsSeq(ext) /\ IsSeq(key) /\ IsSeq(rest) /\ 1 + Len(ext) + Len(key) + Len(rest) <= BufSize
LEMMA ReplyAnswers ==
  ASSUME NEW r, RequestOK(r), Fresh(r), TableFits(r.table), NEW status,
         NEW ext, NEW key, NEW rest, Fitting(ext, key, rest)
  PROVE  LET s == Reply(r, status, Len(key), Len(ext), ext \o key \o rest)
         IN  Answers(r, s) /\ AsRead(s.out) = <<status, key, ext \o rest>>
<1>0. /\ IsSeq(ext) /\ IsSeq(key) /\ IsSeq(rest)
      /\ 1 + Len(ext) + Len(key) + Len(rest) <= BufSize
  BY DEF Fitting
<1>1. PICK body : body = ext \o key \o rest
  OBVIOUS
<1>2. IsSeq(body) /\ 1 + Len(body) = 1 + Len(ext) + Len(key) + Len(rest)
  <2>1. IsSeq(ext \o key) /\ Len(ext \o key) = Len(ext) + Len(key)
    BY <1>0, SeqConcat
  <2> DEFINE a == ext \o key
  <2> HIDE DEF a
  <2>2. IsSeq(a) /\ Len(a) = Len(ext) + Len(key)
    BY <2>1 DEF a
  <2>3. IsSeq(a \o rest) /\ Len(a \o rest) = Len(a) + Len(rest)
    BY <1>0, <2>2, SeqConcat
  <2>4. body = a \o rest
    BY <1>1 DEF a
  <2>5. PICK x \in Nat, k \in Nat, n \in Nat : x = Len(ext) /\ k = Len(key) /\ n = Len(rest)
    BY <1>0 DEF IsSeq
  <2>6. Len(body) = (x + k) + n /\ 1 + ((x + k) + n) = 1 + x + k + n
    BY <2>2, <2>3, <2>4, <2>5
  <2>7. QED
    BY <2>3, <2>2, <2>4, <2>5, <2>6
<1>3. PICK k, x : k = Len(key) /\ x = Len(ext)
  OBVIOUS
<1> DEFINE s == Reply(r, status, k, x, body)
           h == ReplyHeader(status, k, x, body)
<1>4. IsSeq(body)
  BY <1>2
<1>5. /\ s.out = <<h>> \o body
      /\ s.in = Overwritten(r.in, s.out) /\ s.table = r.table
      /\ Len(s.out) = 1 + Len(body) /\ ~Fresh(s)
  BY <1>4, ReplyShape
<1>6. h.magic = "reply" /\ h.status = status /\ h.keyLen = k /\ h.extrasLen = x
  BY DEF ReplyHeader
<1>h. HIDE DEF s, h
<1>7. Answers(r, s)
  BY <1>0, <1>2, <1>5 DEF Answers
<1>8. AsRead(s.out) = <<status, key, ext \o rest>>
  <2>1. h.extrasLen = Len(ext) /\ h.keyLen = Len(key)
    BY <1>3, <1>6
  <2>2. AsRead(<<h>> \o (ext \o key \o rest)) = <<h.status, key, ext \o rest>>
    BY <1>0, <1>6, <2>1, ReadLemma
  <2>3. QED
    BY <1>1, <1>5, <1>6, <2>2
<1>9. s = Reply(r, status, Len(key), Len(ext), ext \o key \o rest)
  BY <1>1, <1>3 DEF s
<1>10. QED
  BY <1>7, <1>8, <1>9

\* GET, GETQ, GETK and GETKQ.
GetReply(op, key, t) ==
    LET shown == IF op \in WithKey THEN key ELSE <<>>
    IN  IF key \in DOMAIN t THEN <<"NO_ERROR", shown, <<t[key].flags>> \o t[key].value>>
        ELSE IF op \in Quiet THEN NoReply
        ELSE <<"KEY_NOT_FOUND", shown, <<NotFoundText>>>>
LEMMA GetAnswers ==
  ASSUME RoomForReplies, NEW r, RequestOK(r), Fresh(r), Header(r) \in Heads, TableFits(r.table)
  PROVE  /\ Answers(r, Get(r))
         /\ Header(r).keyLen # 0 /\ Header(r).keyLen = Header(r).bodyLen =>
               AsRead(Get(r).out) = GetReply(Header(r).op, Cells(r, 2, Header(r).keyLen), r.table)
<1> DEFINE h == Header(r)
           key == Cells(r, 2, h.keyLen)
           shown == IF h.op \in WithKey THEN key ELSE <<>>
<1>1. PICK k \in Nat : k = h.keyLen
  BY HeadLemma
<1>2. 2 + k <= BufSize
  <2>1. PICK x \in Nat, b \in Nat : x = h.extrasLen /\ b = h.bodyLen
    BY HeadLemma
  <2>2. b >= x + k /\ 2 + 2 * k + b - x <= BufSize
    BY <1>1, <2>1, HeadLemma
  <2>3. QED
    BY <2>2, Sizes
<1>3. IsSeq(key) /\ Len(key) = k
  <2>1. PICK from \in Int, upTo \in Int : from = 2 /\ upTo = 2 + k - 1
    BY <1>1
  <2>2. key = SubSeq(r.in, from, upTo)
    BY <1>1, <2>1 DEF Cells
  <2>3. PICK s : s = SubSeq(r.in, from, upTo)
    OBVIOUS
  <2>4. IsSeq(s) /\ Len(s) = IF upTo < from THEN 0 ELSE 1 + upTo - from
    BY <2>3, SeqSub
  <2>5. Len(s) = k
    BY <2>1, <2>4
  <2>6. QED
    BY <2>2, <2>3, <2>4, <2>5
<1>4. IsSeq(shown) /\ Len(shown) \in Nat /\ Len(shown) <= k
  BY <1>3, SeqEmpty
<1>5. CASE h.keyLen = 0 \/ h.keyLen # h.bodyLen
  <2>1. Get(r) = r
    BY <1>5 DEF Get
  <2>2. QED
    BY <1>5, <2>1, PlainAnswers
<1>6. CASE ~(h.keyLen = 0 \/ h.keyLen # h.bodyLen) /\ key \in DOMAIN r.table
  <2> DEFINE v == r.table[key].value
             f == r.table[key].flags
  <2>1. IsSeq(v) /\ Len(v) \in Nat
    BY <1>6 DEF RequestOK, TableOK, IsSeq
  <2>2. 2 + k + Len(v) <= BufSize
    BY <1>3, <1>6 DEF TableFits
  <2>3. IsSeq(<<f>>) /\ Len(<<f>>) = 1
    BY SeqShort
  <2>4. Get(r) = Reply(r, "NO_ERROR", Len(shown), 1, <<f>> \o shown \o v)
    BY <1>6 DEF Get
  <2>5. GetReply(h.op, key, r.table) = <<"NO_ERROR", shown, <<f>> \o v>>
    BY <1>6 DEF GetReply
  <2> HIDE DEF v, f, shown, key, h
  <2>6. PICK ext : ext = <<f>> /\ IsSeq(ext) /\ Len(ext) = 1
    BY <2>3
  <2>7. 1 + Len(ext) + Len(shown) + Len(v) <= BufSize
    BY <1>4, <2>1, <2>2, <2>6, Sizes
  <2>8. Fitting(ext, shown, v)
    BY <1>4, <2>1, <2>6, <2>7 DEF Fitting
  <2>9. LET s == Reply(r, "NO_ERROR", Len(shown), Len(ext), ext \o shown \o v)
        IN  Answers(r, s) /\ AsRead(s.out) = <<"NO_ERROR", shown, ext \o v>>
    <3>1. PICK st : st = "NO_ERROR"
      OBVIOUS
    <3>2. LET s == Reply(r, st, Len(shown), Len(ext), ext \o shown \o v)
          IN  Answers(r, s) /\ AsRead(s.out) = <<st, shown, ext \o v>>
      BY <2>8, ReplyAnswers
    <3>3. QED
      BY <3>1, <3>2
  <2>10. Answers(r, Get(r)) /\ AsRead(Get(r).out) = GetReply(h.op, key, r.table)
    BY <2>4, <2>5, <2>6, <2>9
  <2>11. QED
    BY <2>10 DEF h, key
<1>7. CASE ~(h.keyLen = 0 \/ h.keyLen # h.bodyLen) /\ key \notin DOMAIN r.table
  <2>1. Get(r) = IF h.op \in Quiet THEN r
                 ELSE Reply(r, "KEY_NOT_FOUND", Len(shown), 0, shown \o <<NotFoundText>>)
    BY <1>7 DEF Get
  <2>2. GetReply(h.op, key, r.table) =
           IF h.op \in Quiet THEN NoReply ELSE <<"KEY_NOT_FOUND", shown, <<NotFoundText>>>>
    BY <1>7 DEF GetReply
  <2>3. AsRead(<<>>) = NoReply
    BY DEF AsRead
  <2> HIDE DEF shown, key, h
  <2>4. PICK rest : rest = <<NotFoundText>> /\ IsSeq(rest) /\ Len(rest) = 1
    BY SeqShort
  <2>5. PICK e : e = <<>> /\ IsSeq(e) /\ Len(e) = 0
    BY SeqEmpty
  <2>6. 1 + Len(e) + Len(shown) + Len(rest) <= BufSize
    BY <1>2, <1>4, <2>4, <2>5, Sizes
  <2>7. IsSeq(e) /\ IsSeq(shown) /\ IsSeq(rest) /\ Fitting(e, shown, rest)
    BY <1>4, <2>4, <2>5, <2>6 DEF Fitting
  <2>8. LET s == Reply(r, "KEY_NOT_FOUND", Len(shown), Len(e), e \o shown \o rest)
        IN  Answers(r, s) /\ AsRead(s.out) = <<"KEY_NOT_FOUND", shown, e \o rest>>
    <3>1. PICK st : st = "KEY_NOT_FOUND"
      OBVIOUS
    <3>2. LET s == Reply(r, st, Len(shown), Len(e), e \o shown \o rest)
          IN  Answers(r, s) /\ AsRead(s.out) = <<st, shown, e \o rest>>
      BY <2>7, ReplyAnswers
    <3>3. QED
      BY <3>1, <3>2
  <2>9. e \o shown = shown /\ e \o rest = rest
    BY <2>5, <2>7, ConcatEmpty
  <2>10. LET s == Reply(r, "KEY_NOT_FOUND", Len(shown), 0, shown \o <<NotFoundText>>)
         IN  Answers(r, s) /\ AsRead(s.out) = <<"KEY_NOT_FOUND", shown, <<NotFoundText>>>>
    BY <2>4, <2>5, <2>8, <2>9
  <2>11. Answers(r, r) /\ AsRead(r.out) = NoReply
    BY <2>3, PlainAnswers DEF Fresh
  <2>12. Answers(r, Get(r)) /\ AsRead(Get(r).out) = GetReply(h.op, key, r.table)
    BY <2>1, <2>2, <2>10, <2>11
  <2>13. QED
    BY <2>12 DEF h, key
<1>8. QED
  BY <1>5, <1>6, <1>7

\* SET, ADD, REPLACE and DELETE, and a SETQ or its remains in ADD.
LEMMA WriteAnswers ==
  ASSUME RoomForReplies, NEW r, RequestOK(r), Fresh(r), Header(r) \in Heads, TableFits(r.table)
  PROVE  /\ Answers(r, Set(r)) /\ Answers(r, Add(r)) /\ Answers(r, Replace(r))
         /\ ~Malformed(r) =>
               /\ AsRead(Set(r).out) = QuietReply(Header(r).op, "NO_ERROR")
               /\ IF Header(r).op \in Quiet THEN Set(r).in = r.in /\ Len(Set(r).out) = 0
                  ELSE Set(r).in[1].keyLen = 0 /\ Len(Set(r).out) = 1
               /\ AsRead(Add(r).out) =
                     IF KeyAt(r) \in DOMAIN r.table THEN <<"KEY_EXISTS", <<>>, <<>>>>
                     ELSE IF Header(r).op = "ADD" THEN <<"NO_ERROR", <<>>, <<>>>> ELSE NoReply
               /\ AsRead(Replace(r).out) =
                     IF KeyAt(r) \in DOMAIN r.table THEN QuietReply(Header(r).op, "NO_ERROR")
                     ELSE <<"KEY_NOT_FOUND", <<>>, <<>>>>
<1> DEFINE s == Stored(r)
           op == Header(r).op
<1>1. RequestOK(s) /\ TableFits(s.table) /\ s.in = r.in /\ s.out = r.out
  BY StoredLemma
<1>2. /\ Set(r) = IF Malformed(r) THEN r ELSE UnlessQuiet(s, "NO_ERROR")
      /\ Add(r) = IF Malformed(r) THEN r
                  ELSE IF KeyAt(r) \in DOMAIN r.table THEN Plain(r, "KEY_EXISTS")
                  ELSE IF op = "ADD" THEN Plain(s, "NO_ERROR") ELSE s
      /\ Replace(r) = IF Malformed(r) THEN r
                      ELSE IF KeyAt(r) \notin DOMAIN r.table THEN Plain(r, "KEY_NOT_FOUND")
                      ELSE UnlessQuiet(s, "NO_ERROR")
  BY DEF Set, Add, Replace, Stored
<1>3. Fresh(s) /\ Header(s).op = op
  BY <1>1 DEF Fresh, Header
<1>h. HIDE DEF s, op
<1>4. \A u : Answers(s, u) => Answers(r, u)
  BY <1>1 DEF Answers
<1>5. /\ Answers(r, r) /\ Answers(r, s)
      /\ \A st : /\ Answers(r, Plain(r, st)) /\ Answers(r, Plain(s, st))
                 /\ AsRead(Plain(r, st).out) = <<st, <<>>, <<>>>>
                 /\ AsRead(Plain(s, st).out) = <<st, <<>>, <<>>>>
                 /\ Len(Plain(s, st).out) = 1 /\ Plain(s, st).in[1].keyLen = 0
  BY <1>1, <1>3, <1>4, PlainAnswers
<1>6. \A st : /\ Answers(r, UnlessQuiet(s, st))
              /\ AsRead(UnlessQuiet(s, st).out) = QuietReply(op, st)
              /\ UnlessQuiet(s, st) = IF op \in Quiet THEN s ELSE Plain(s, st)
  BY <1>1, <1>3, <1>4, UnlessQuietAnswers
<1>7. AsRead(s.out) = NoReply /\ Len(s.out) = 0
  BY <1>3, SeqEmpty DEF Fresh, AsRead
<1>8. Answers(r, Set(r)) /\ Answers(r, Add(r)) /\ Answers(r, Replace(r))
  BY <1>2, <1>5, <1>6
<1>9. ASSUME ~Malformed(r)
      PROVE  /\ AsRead(Set(r).out) = QuietReply(op, "NO_ERROR")
             /\ IF op \in Quiet THEN Set(r).in = r.in /\ Len(Set(r).out) = 0
                ELSE Set(r).in[1].keyLen = 0 /\ Len(Set(r).out) = 1
             /\ AsRead(Add(r).out) =
                   IF KeyAt(r) \in DOMAIN r.table THEN <<"KEY_EXISTS", <<>>, <<>>>>
                   ELSE IF op = "ADD" THEN <<"NO_ERROR", <<>>, <<>>>> ELSE NoReply
             /\ AsRead(Replace(r).out) =
                   IF KeyAt(r) \in DOMAIN r.table THEN QuietReply(op, "NO_ERROR")
                   ELSE <<"KEY_NOT_FOUND", <<>>, <<>>>>
  <2>1. AsRead(Set(r).out) = QuietReply(op, "NO_ERROR")
    BY <1>2, <1>6, <1>9
  <2>2. IF op \in Quiet THEN Set(r).in = r.in /\ Len(Set(r).out) = 0
        ELSE Set(r).in[1].keyLen = 0 /\ Len(Set(r).out) = 1
    BY <1>1, <1>2, <1>5, <1>6, <1>7, <1>9
  <2>3. AsRead(Add(r).out) =
           IF KeyAt(r) \in DOMAIN r.table THEN <<"KEY_EXISTS", <<>>, <<>>>>
           ELSE IF op = "ADD" THEN <<"NO_ERROR", <<>>, <<>>>> ELSE NoReply
    BY <1>2, <1>5, <1>7, <1>9
  <2>4. AsRead(Replace(r).out) =
           IF KeyAt(r) \in DOMAIN r.table THEN QuietReply(op, "NO_ERROR")
           ELSE <<"KEY_NOT_FOUND", <<>>, <<>>>>
    BY <1>2, <1>5, <1>6, <1>9
  <2>5. QED
    BY <2>1, <2>2, <2>3, <2>4
<1>10. QED
  BY <1>8, <1>9 DEF op

\* DELETE takes nothing into the table.
LEMMA DeleteAnswers ==
  ASSUME NEW r, RequestOK(r), Fresh(r), TableFits(r.table)
  PROVE  /\ Answers(r, Delete(r))
         /\ Header(r).keyLen # 0 => AsRead(Delete(r).out) = QuietReply(Header(r).op, "NO_ERROR")
<1> DEFINE s == [r EXCEPT !.table = Without(@, KeyAt(r))]
           t == Without(r.table, KeyAt(r))
<1>1. s = [in |-> r.in, out |-> r.out, table |-> t]
  BY DEF RequestOK
<1>2. \A k \in DOMAIN t : k \in DOMAIN r.table /\ t[k] = r.table[k]
  BY DEF Without
<1>3. Delete(r) = IF Header(r).keyLen = 0 THEN r ELSE UnlessQuiet(s, "NO_ERROR")
  BY DEF Delete
<1>h. HIDE DEF s, t
<1>4. /\ RequestOK(s) /\ TableFits(s.table) /\ s.in = r.in /\ Fresh(s)
      /\ Header(s) = Header(r)
  <2>1. s.in = r.in /\ s.out = r.out /\ s.table = t
    BY <1>1
  <2>2. RequestOK(s)
    BY <1>1, <1>2, <2>1 DEF RequestOK, TableOK
  <2>3. TableFits(s.table)
    BY <1>2, <2>1 DEF TableFits
  <2>4. QED
    BY <2>1, <2>2, <2>3 DEF Fresh, Header
<1>5. /\ Answers(s, UnlessQuiet(s, "NO_ERROR"))
      /\ AsRead(UnlessQuiet(s, "NO_ERROR").out) = QuietReply(Header(r).op, "NO_ERROR")
  BY <1>4, UnlessQuietAnswers
<1>6. \A u : Answers(s, u) => Answers(r, u)
  BY <1>4 DEF Answers
<1>7. Answers(r, r)
  BY PlainAnswers
<1>8. QED
  BY <1>3, <1>5, <1>6, <1>7

\* The switch, for a request.
LEMMA Switch ==
  ASSUME RoomForReplies, NEW r, Header(r) \in Heads
  PROVE  LET op == Header(r).op
             s == processBinaryRequest(r)
         IN  /\ op \in Reading => s = Get(r)
             /\ op \in {"SET", "SETQ"} => s = Set(r)
             /\ op \in {"ADD", "ADDQ"} => s = Add(r)
             /\ op \in {"REPLACE", "REPLACEQ"} => s = Replace(r)
             /\ op \in Deleting => s = Delete(r)
             /\ op = "NOOP" => s = Plain(r, "NO_ERROR")
             /\ op \notin Reading \cup Writing \cup Deleting \cup {"NOOP"} => s = r
<1>1. Header(r).magic = "request"
  BY HeadLemma
<1>2. QED
  BY <1>1 DEF processBinaryRequest, Reading, Writing, Deleting

LEMMA ProcessAnswers ==
  ASSUME RoomForReplies, NEW r, RequestOK(r), Fresh(r), Header(r) \in Heads, TableFits(r.table)
  PROVE  Answers(r, processBinaryRequest(r))
<1>1. /\ Answers(r, r) /\ Answers(r, Plain(r, "NO_ERROR")) /\ Answers(r, Get(r))
      /\ Answers(r, Set(r)) /\ Answers(r, Add(r)) /\ Answers(r, Replace(r)) /\ Answers(r, Delete(r))
  BY PlainAnswers, GetAnswers, WriteAnswers, DeleteAnswers
<1>2. QED
  BY <1>1, Switch DEF Writing

\* The key of a request is where processBinaryRequest looks for it.
KeyOf(q) == SubSeq(q, 2 + q[1].extrasLen, 1 + q[1].extrasLen + q[1].keyLen)
LEMMA RequestKey ==
  ASSUME NEW q \in AllRequests, NEW r, RequestOK(r), \A i \in 1 .. Len(q) : r.in[i] = q[i]
  PROVE  /\ Header(r) = q[1] /\ KeyAt(r) = KeyOf(q)
         /\ q[1].keyLen = q[1].bodyLen => Cells(r, 2, q[1].keyLen) = KeyOf(q)
<1>1. PICK x \in Nat, k \in Nat, b \in Nat :
         x = q[1].extrasLen /\ k = q[1].keyLen /\ b = q[1].bodyLen
  BY RequestLemma DEF HeaderOK
<1>2. b >= x + k /\ Len(q) = 1 + b
  BY <1>1, RequestLemma
<1>3. Header(r) = q[1]
  BY <1>2 DEF Header
<1>4. SubSeq(q, 2 + x, 1 + x + k) = [i \in 1 .. k |-> q[i + (2 + x) - 1]]
  <2>1. PICK from \in Int, upTo \in Int :
           from = 2 + x /\ upTo = 1 + x + k /\ 1 + upTo - from = k
    OBVIOUS
  <2>2. QED
    BY <2>1, SeqSub
<1>5. SubSeq(r.in, 2 + x, 2 + x + k - 1) = [i \in 1 .. k |-> r.in[i + (2 + x) - 1]]
  <2>1. PICK from \in Int, upTo \in Int :
           from = 2 + x /\ upTo = 2 + x + k - 1 /\ 1 + upTo - from = k
    OBVIOUS
  <2>2. QED
    BY <2>1, SeqSub
<1>6. SubSeq(r.in, 2 + x, 2 + x + k - 1) = SubSeq(q, 2 + x, 1 + x + k)
  <2>1. \A i \in 1 .. k : i + (2 + x) - 1 \in 1 .. Len(q)
    BY <1>2
  <2>2. QED
    BY <1>4, <1>5, <2>1
<1>7. KeyAt(r) = KeyOf(q)
  BY <1>1, <1>3, <1>6 DEF KeyAt, Cells, KeyOf
<1>8. k = b => Cells(r, 2, k) = KeyOf(q)
  <2> SUFFICES ASSUME k = b PROVE Cells(r, 2, k) = KeyOf(q)
    OBVIOUS
  <2>1. x = 0
    BY <1>2
  <2>2. QED
    BY <1>1, <1>6, <2>1 DEF Cells, KeyOf
<1>9. QED
  BY <1>1, <1>3, <1>7, <1>8

\* The reply to a request received whole is the one it deserves.
LEMMA DeservedReply ==
  ASSUME RoomForReplies, ProperRequests,
         NEW q \in AllRequests, NEW r, RequestOK(r), Fresh(r), TableFits(r.table),
         \A i \in 1 .. Len(q) : r.in[i] = q[i]
  PROVE  AsRead(processBinaryRequest(r).out) = Deserved(q, r.table)
<1> DEFINE op == q[1].op
           key == KeyOf(q)
           s == processBinaryRequest(r)
<1>1. /\ Header(r) = q[1] /\ Header(r) \in Heads /\ KeyAt(r) = key
      /\ q[1].keyLen = q[1].bodyLen => Cells(r, 2, q[1].keyLen) = key
      /\ q[1].magic = "request"
  BY RequestKey, RequestLemma DEF Heads
<1>2. /\ op \in Reading => q[1].keyLen = q[1].bodyLen
      /\ op \in Writing => q[1].extrasLen # 0
      /\ op \in Reading \cup Writing \cup Deleting => q[1].keyLen # 0
  BY DEF ProperRequests
<1>3. LET here == key \in DOMAIN r.table
          good == QuietReply(op, "NO_ERROR")
      IN  Deserved(q, r.table) =
             CASE op \in Reading -> GetReply(op, key, r.table)
               [] op \in {"ADD", "ADDQ"} -> IF here THEN <<"KEY_EXISTS", <<>>, <<>>>> ELSE good
               [] op \in {"REPLACE", "REPLACEQ"} ->
                     IF here THEN good ELSE <<"KEY_NOT_FOUND", <<>>, <<>>>>
               [] op \in {"SET", "SETQ", "NOOP"} \cup Deleting -> good
               [] OTHER -> NoReply
  BY DEF Deserved, GetReply, QuietReply, KeyOf
<1>4. op \in Writing => ~Malformed(r)
  BY <1>1, <1>2 DEF Malformed, Writing
<1>5. CASE op \in Reading
  <2>1. s = Get(r)
    BY <1>1, <1>5, Switch
  <2>2. AsRead(Get(r).out) = GetReply(op, key, r.table)
    BY <1>1, <1>2, <1>5, GetAnswers
  <2>3. Deserved(q, r.table) = GetReply(op, key, r.table)
    BY <1>3, <1>5 DEF Reading, Deleting
  <2>4. QED
    BY <2>1, <2>2, <2>3
<1>6. CASE op \in {"ADD", "ADDQ"}
  <2>1. s = Add(r) /\ ~Malformed(r)
    BY <1>1, <1>4, <1>6, Switch DEF Writing
  <2>2. AsRead(Add(r).out) = IF key \in DOMAIN r.table THEN <<"KEY_EXISTS", <<>>, <<>>>>
                             ELSE IF op = "ADD" THEN <<"NO_ERROR", <<>>, <<>>>> ELSE NoReply
    BY <1>1, <2>1, WriteAnswers
  <2>3. Deserved(q, r.table) = IF key \in DOMAIN r.table THEN <<"KEY_EXISTS", <<>>, <<>>>>
                               ELSE QuietReply(op, "NO_ERROR")
    BY <1>3, <1>6 DEF Reading, Deleting
  <2>4. QuietReply(op, "NO_ERROR") = IF op = "ADD" THEN <<"NO_ERROR", <<>>, <<>>>> ELSE NoReply
    BY <1>6 DEF QuietReply, Quiet
  <2>5. QED
    BY <2>1, <2>2, <2>3, <2>4
<1>7. CASE op \in {"REPLACE", "REPLACEQ"}
  <2>1. s = Replace(r) /\ ~Malformed(r)
    BY <1>1, <1>4, <1>7, Switch DEF Writing
  <2>2. AsRead(Replace(r).out) = IF key \in DOMAIN r.table THEN QuietReply(op, "NO_ERROR")
                                 ELSE <<"KEY_NOT_FOUND", <<>>, <<>>>>
    BY <1>1, <2>1, WriteAnswers
  <2>3. Deserved(q, r.table) = IF key \in DOMAIN r.table THEN QuietReply(op, "NO_ERROR")
                               ELSE <<"KEY_NOT_FOUND", <<>>, <<>>>>
    BY <1>3, <1>7 DEF Reading, Deleting
  <2>4. QED
    BY <2>1, <2>2, <2>3
<1>8. CASE op \in {"SET", "SETQ"}
  <2>1. s = Set(r) /\ ~Malformed(r)
    BY <1>1, <1>4, <1>8, Switch DEF Writing
  <2>2. AsRead(Set(r).out) = QuietReply(op, "NO_ERROR")
    BY <1>1, <2>1, WriteAnswers
  <2>3. Deserved(q, r.table) = QuietReply(op, "NO_ERROR")
    BY <1>3, <1>8 DEF Reading, Deleting
  <2>4. QED
    BY <2>1, <2>2, <2>3
<1>9. CASE op \in Deleting
  <2>1. s = Delete(r)
    BY <1>1, <1>9, Switch
  <2>2. AsRead(Delete(r).out) = QuietReply(op, "NO_ERROR")
    BY <1>1, <1>2, <1>9, DeleteAnswers
  <2>3. Deserved(q, r.table) = QuietReply(op, "NO_ERROR")
    BY <1>3, <1>9 DEF Reading, Deleting
  <2>4. QED
    BY <2>1, <2>2, <2>3
<1>10. CASE op = "NOOP"
  <2>1. s = Plain(r, "NO_ERROR")
    BY <1>1, <1>10, Switch
  <2>2. Deserved(q, r.table) = <<"NO_ERROR", <<>>, <<>>>>
    BY <1>3, <1>10 DEF Reading, Deleting, QuietReply, Quiet
  <2>3. QED
    BY <2>1, <2>2, PlainAnswers
<1>11. CASE op \notin Reading \cup Writing \cup Deleting \cup {"NOOP"}
  <2>1. s = r
    BY <1>1, <1>11, Switch
  <2>2. Deserved(q, r.table) = NoReply
    BY <1>3, <1>11 DEF Reading, Writing, Deleting
  <2>3. QED
    BY <2>1, <2>2 DEF Fresh, AsRead
<1>12. QED
  BY <1>5, <1>6, <1>7, <1>8, <1>9, <1>10, <1>11 DEF Writing

-----------------------------------------------------------------------------
(* Both invariants hold at the start and every step preserves them.        *)

LEMMA FitInit == RoomForReplies /\ Init => FitInv /\ DueInv
<1> SUFFICES ASSUME RoomForReplies, Init PROVE FitInv /\ DueInv
  OBVIOUS
<1>1. Batch = {} /\ Unprocessed = {} /\ pc # "fall"
  BY DEF Init, Batch, Unprocessed
<1>2. TableFits(table)
  BY DEF Init, RoomForReplies, TableFits
<1>3. \A m \in Messages : msg[m].iov = BufSize /\ BufSize <= BufSize /\ BufSize # 0
  BY Sizes DEF Init
<1>4. FitInv
  BY <1>1, <1>2, <1>3 DEF FitInv
<1>5. DueInv
  BY <1>1 DEF DueInv, Init
<1>6. QED
  BY <1>4, <1>5

\* Where a step that writes a reply leads.
LEMMA AnswerMoves ==
  ASSUME UdpInv, NEW s, AnswerStep(s)
  PROVE  /\ at \in 1 .. count /\ at \in Messages /\ count \in Nat /\ 1 .. count \subseteq Messages
         /\ DOMAIN msg = Messages
         /\ \A m \in Messages : m # at => msg'[m] = msg[m]
         /\ msg'[at].buf = s.in /\ msg'[at].iov = Len(s.out) /\ msg'[at].from = msg[at].from
         /\ Batch = 1 .. count /\ Batch' = 1 .. count
         /\ \A m \in Unprocessed' : m \in Unprocessed /\ m # at
         /\ \A m \in 1 .. count : m \notin Unprocessed' => m \notin Unprocessed \/ m = at
         /\ (pc' = "fall" => at' = at)
<1>1. /\ at \in 1 .. MaxMsgs /\ count \in 0 .. MaxMsgs /\ MaxMsgs \in Nat /\ at <= count
      /\ pc \in {"process", "fall"} /\ count' = count /\ DOMAIN msg = Messages
      /\ MessageOK(msg[at])
  BY Sizes DEF UdpInv, UdpTypes, BatchInv, AnswerStep, Messages
<1>2. \/ pc' = "fall" /\ at' = at
      \/ at < count /\ at' = at + 1 /\ pc' = "process"
      \/ at >= count /\ at' = at /\ pc' = "send"
  BY <1>1 DEF AnswerStep, Advance
<1>3. at \in 1 .. count /\ at \in Messages /\ count \in Nat /\ 1 .. count \subseteq Messages
  BY <1>1 DEF Messages
<1>4. /\ \A m \in Messages : m # at => msg'[m] = msg[m]
      /\ msg'[at] = AnsweredIn(msg[at], s)
  BY <1>1, <1>3 DEF AnswerStep
<1>5. msg'[at].buf = s.in /\ msg'[at].iov = Len(s.out) /\ msg'[at].from = msg[at].from
  BY <1>1, <1>4 DEF AnsweredIn, MessageOK
<1>6. Batch = 1 .. count /\ Batch' = 1 .. count
  BY <1>1, <1>2 DEF Batch
<1>7. \A m \in Unprocessed' : m \in Unprocessed /\ m # at
  BY <1>1, <1>2 DEF Unprocessed
<1>8. \A m \in 1 .. count : m \notin Unprocessed' => m \notin Unprocessed \/ m = at
  BY <1>1, <1>2 DEF Unprocessed
<1>9. QED
  BY <1>1, <1>2, <1>3, <1>4, <1>5, <1>6, <1>7, <1>8

\* A reply that fits is written.
LEMMA FitAnswer ==
  ASSUME UdpInv, FitInv, NEW s, AnswerStep(s), TableFits(s.table), Len(s.out) <= BufSize,
         Len(s.out) = 0 => s.in[1] \in Heads,
         pc' = "fall" => \/ Len(s.out) = 1 /\ s.in[1].keyLen = 0
                         \/ Len(s.out) = 0 /\ s.in[1].op = "SETQ"
  PROVE  FitInv'
<1>1. TableFits(table')
  BY DEF AnswerStep
<1>2. ASSUME NEW m \in Messages
      PROVE  /\ msg'[m].iov <= BufSize
             /\ msg'[m].iov = 0 \/ m \in Unprocessed' => msg'[m].buf[1] \in Heads
  <2>1. CASE m = at
    BY <2>1, AnswerMoves
  <2>2. CASE m # at
    BY <2>2, AnswerMoves DEF FitInv
  <2>3. QED
    BY <2>1, <2>2
<1>3. pc' = "fall" => Replied(msg'[at']) \/ (msg'[at'].iov = 0 /\ msg'[at'].buf[1].op = "SETQ")
  BY AnswerMoves DEF Replied
<1>4. QED
  BY <1>1, <1>2, <1>3 DEF FitInv, TableFits, Replied

\* The reply its client deserves is written, or was written before.
LEMMA DueAnswer ==
  ASSUME UdpInv, DueInv, NEW s, AnswerStep(s), DOMAIN due' = Clients,
         \A d \in Clients : d # msg[at].from => due'[d] = due[d],
         Said(msg[at].from) =>
            /\ AsRead(SubSeq(s.in, 1, Len(s.out))) = due'[msg[at].from]
            /\ pc' = "fall" => Len(s.out) = 1 /\ s.in[1].keyLen = 0
  PROVE  DueInv'
<1>0. PICK c : c = msg[at].from
  OBVIOUS
<1>1. UNCHANGED <<asked, whole, got>> /\ \A d : Said(d)' <=> Said(d)
  BY DEF AnswerStep, Said
<1>2. /\ c \in Clients \ served
      /\ \A m \in 1 .. count : m # at => msg[m].from # c /\ msg[m].from \in Clients
  BY <1>0, AnswerMoves DEF UdpInv, BatchInv
<1>3. ASSUME NEW m \in Batch' \ Unprocessed' PROVE Due(msg[m].from, Message(m))'
  <2>1. m \in 1 .. count /\ m \in Messages /\ m \notin Unprocessed'
    BY AnswerMoves
  <2>2. CASE m = at
    <3>1. Message(m)' = SubSeq(s.in, 1, Len(s.out)) /\ msg'[m].from = c
      BY <1>0, <2>2, AnswerMoves DEF Message
    <3>2. QED
      BY <1>0, <1>1, <3>1 DEF Due
  <2>3. CASE m # at
    <3>1. msg'[m] = msg[m] /\ m \in Batch \ Unprocessed
      BY <2>1, <2>3, AnswerMoves
    <3>2. Message(m)' = Message(m) /\ msg'[m].from = msg[m].from
      BY <3>1 DEF Message
    <3>3. due'[msg[m].from] = due[msg[m].from]
      BY <1>0, <1>2, <2>1, <2>3
    <3>4. Due(msg[m].from, Message(m))
      BY <3>1 DEF DueInv
    <3>5. QED
      BY <1>1, <3>2, <3>3, <3>4 DEF Due
  <2>4. QED
    BY <2>2, <2>3
<1>4. ASSUME NEW d \in Clients, got'[d] # <<>> PROVE Due(d, got[d][1])'
  <2>1. got[d] # <<>> /\ got'[d] = got[d]
    BY <1>1, <1>4
  <2>2. d # c
    BY <1>2, <2>1 DEF UdpInv, ReplyInv
  <2>3. Due(d, got[d][1]) /\ due'[d] = due[d]
    BY <1>0, <2>1, <2>2 DEF DueInv
  <2>4. QED
    BY <1>1, <2>1, <2>3 DEF Due
<1>5. pc' = "fall" /\ Said(msg[at].from)' => Replied(msg[at])'
  <2>1. pc' = "fall" => at' = at /\ msg'[at].from = msg[at].from
    BY AnswerMoves
  <2>2. QED
    BY <1>1, <2>1, AnswerMoves DEF Replied
<1>6. QED
  BY <1>3, <1>4, <1>5 DEF DueInv

\* A reply as it is sent: the cells of the buffer it was written over.
LEMMA WrittenMessage ==
  ASSUME NEW r, RequestOK(r), NEW s, RequestOK(s), Answers(r, s)
  PROVE  SubSeq(s.in, 1, Len(s.out)) = s.out
<1>1. PICK n \in Nat : n = Len(s.out) /\ n <= BufSize /\ s.out = [i \in 1 .. n |-> s.out[i]]
  BY DEF RequestOK, IsSeq, Answers
<1>2. SubSeq(s.in, 1, n) = [i \in 1 .. n |-> s.in[i]]
  <2>1. PICK one \in Int : one = 1 /\ 1 + n - one = n /\ \A i \in Int : i + one - 1 = i
    BY <1>1
  <2>2. SubSeq(s.in, one, n) = [i \in 1 .. n |-> s.in[i + one - 1]]
    BY <1>1, <2>1, SeqSub
  <2>3. QED
    BY <2>1, <2>2
<1>3. CASE Fresh(s)
  BY <1>1, <1>2, <1>3, SeqEmpty DEF Fresh
<1>4. CASE ~Fresh(s)
  <2>1. s.in = Overwritten(r.in, s.out) /\ DOMAIN r.in = 1 .. BufSize
    BY <1>4 DEF Answers, RequestOK
  <2>2. \A i \in 1 .. n : i \in DOMAIN r.in /\ i <= Len(s.out)
    BY <1>1, <2>1, Sizes
  <2>3. \A i \in 1 .. n : s.in[i] = s.out[i]
    BY <2>1, <2>2 DEF Overwritten
  <2>4. QED
    BY <1>1, <1>2, <2>3
<1>5. QED
  BY <1>3, <1>4

\* The request at hand, before processBinaryRequest.
LEMMA FreshRequest ==
  ASSUME UdpInv, FitInv, pc \in {"process", "fall"}
  PROVE  LET r == Request(msg[at].buf, table)
         IN  /\ RequestOK(r) /\ Fresh(r) /\ TableFits(r.table)
             /\ r.in = msg[at].buf /\ r.table = table /\ Header(r) = msg[at].buf[1]
             /\ pc = "process" => Header(r) \in Heads
<1>1. pc = "process" => at \in Unprocessed /\ at \in Messages
  BY Sizes DEF UdpInv, UdpTypes, BatchInv, Unprocessed, Messages
<1>2. pc = "process" => msg[at].buf[1] \in Heads
  BY <1>1 DEF FitInv
<1>3. QED
  BY <1>2, CurrentRequest DEF Request, Fresh, Header, FitInv

\* processBinaryRequest on the datagram at hand.
LEMMA FitProcess ==
  ASSUME RoomForReplies, UdpInv, FitInv, Process
  PROVE  FitInv' /\ (ProperRequests /\ DueInv => DueInv')
<1> DEFINE r == Request(msg[at].buf, table)
           s == processBinaryRequest(r)
           c == msg[at].from
<1>1. /\ RequestOK(r) /\ Fresh(r) /\ TableFits(r.table) /\ Header(r) \in Heads
      /\ r.in = msg[at].buf /\ r.table = table /\ Header(r) = msg[at].buf[1]
  BY FreshRequest DEF Process
<1>2. CASE Crashes(r)
  <2>1. pc' = "crashed" /\ UNCHANGED <<msg, at, table, due, asked, whole, got>>
    BY <1>2 DEF Process
  <2>2. Batch' = {} /\ Unprocessed' = {}
    BY <2>1 DEF Batch, Unprocessed
  <2>3. FitInv'
    BY <2>1, <2>2 DEF FitInv, TableFits
  <2>4. DueInv => DueInv'
    BY <2>1, <2>2 DEF DueInv, Due, Said
  <2>5. QED
    BY <2>3, <2>4
<1>3. CASE ~Crashes(r)
  <2>1. /\ table' = s.table
        /\ msg' = [msg EXCEPT ![at] = AnsweredIn(@, s)]
        /\ due' = [due EXCEPT ![c] = Deserved(asked[c], table)]
        /\ IF FallsThrough(r) THEN pc' = "fall" /\ at' = at ELSE Advance
        /\ pc = "process"
        /\ UNCHANGED <<kernel, incomplete, count, shouldStop, main, asked, whole, served, got>>
    BY <1>3 DEF Process
  <2>r. HIDE DEF r
  <2>2. Effect(r, s) /\ Answers(r, s) /\ (s.out = <<>> => s.in = r.in)
    BY <1>1, ProcessLemma, ProcessAnswers DEF Answers, Fresh
  <2>3. /\ FallsThrough(r) =>
              /\ s = Set(r)
              /\ IF Header(r).op \in Quiet THEN Set(r).in = r.in /\ Len(Set(r).out) = 0
                 ELSE Set(r).in[1].keyLen = 0 /\ Len(Set(r).out) = 1
    BY <1>1, Switch, WriteAnswers DEF FallsThrough
  <2>s. HIDE DEF s
  <2>4. RequestOK(s) /\ AnswerStep(s)
    BY <2>1, <2>2 DEF Effect, AnswerStep
  <2>5. pc' = "fall" => FallsThrough(r)
    BY <2>1 DEF Advance
  <2>6. FitInv'
    <3>1. TableFits(s.table) /\ Len(s.out) <= BufSize
      BY <2>2 DEF Answers
    <3>2. Len(s.out) = 0 => s.in[1] \in Heads
      <4>1. Len(s.out) = 0 => s.out = <<>>
        BY <2>4, SeqEmpty DEF RequestOK, IsSeq
      <4>2. QED
        BY <1>1, <2>2, <4>1
    <3>3. pc' = "fall" => \/ Len(s.out) = 1 /\ s.in[1].keyLen = 0
                          \/ Len(s.out) = 0 /\ s.in[1].op = "SETQ"
      BY <1>1, <2>3, <2>5 DEF FallsThrough, Quiet, Header
    <3>4. QED
      BY <2>4, <3>1, <3>2, <3>3, FitAnswer
  <2>7. ASSUME ProperRequests, DueInv PROVE DueInv'
    <3>1. DOMAIN due = Clients /\ c \in Clients
      BY <2>4, <2>7, AnswerMoves DEF DueInv, UdpInv, BatchInv
    <3>2. /\ DOMAIN due' = Clients /\ due'[c] = Deserved(asked[c], table)
          /\ \A d \in Clients : d # c => due'[d] = due[d]
      BY <2>1, <3>1
    <3>3. ASSUME Said(c) PROVE /\ AsRead(SubSeq(s.in, 1, Len(s.out))) = due'[c]
                               /\ pc' = "fall" => Len(s.out) = 1 /\ s.in[1].keyLen = 0
      <4>1. PICK q \in AllRequests : q = asked[c] /\ \A i \in 1 .. Len(q) : r.in[i] = q[i]
        <5>1. asked[c] \in AllRequests
          BY <3>1, <3>3 DEF Said, UdpInv, UdpTypes, ReplyInv
        <5>2. at \in Unprocessed
          BY <2>1, Sizes DEF UdpInv, UdpTypes, BatchInv, Unprocessed
        <5>3. QED
          BY <1>1, <3>3, <5>1, <5>2 DEF UdpInv, BufInv, Said
      <4>2. AsRead(s.out) = Deserved(q, table)
        BY <1>1, <2>7, <4>1, DeservedReply DEF s
      <4>3. AsRead(SubSeq(s.in, 1, Len(s.out))) = due'[c]
        BY <1>1, <2>2, <2>4, <3>2, <4>1, <4>2, WrittenMessage
      <4>4. Header(r).op # "SETQ"
        <5>1. Header(r) = q[1]
          BY <1>1, <4>1, RequestKey
        <5>2. QED
          BY <3>3, <4>1, <5>1 DEF Said
      <4>5. pc' = "fall" => Len(s.out) = 1 /\ s.in[1].keyLen = 0
        BY <2>3, <2>5, <4>4 DEF FallsThrough, Quiet
      <4>6. QED
        BY <4>3, <4>5
    <3>4. QED
      BY <2>4, <2>7, <3>2, <3>3, DueAnswer
  <2>8. QED
    BY <2>6, <2>7
<1>4. QED
  BY <1>2, <1>3

\* SET's missing break: ADD finds the reply of SET, or the request of a SETQ.
LEMMA FitFall ==
  ASSUME RoomForReplies, UdpInv, FitInv, Fall
  PROVE  FitInv' /\ (DueInv => DueInv')
<1> DEFINE b == msg[at].buf
           out == SubSeq(b, 1, msg[at].iov)
           r == [Request(b, table) EXCEPT !.out = out]
           s == Add(r)
<1>1. /\ pc = "fall" /\ at \in Messages /\ MessageOK(msg[at]) /\ HeaderOK(b[1])
      /\ RequestOK(Request(b, table)) /\ TableFits(table)
  BY CurrentRequest DEF Fall, FitInv, MessageOK
<1>2. /\ IsSeq(out) /\ out = [i \in 1 .. msg[at].iov |-> b[i]]
      /\ msg[at].iov \in Nat /\ Len(out) = msg[at].iov
  BY <1>1, SeqSub DEF MessageOK
<1>3. out # <<>> => HeaderOK(out[1])
  <2>1. out # <<>> => msg[at].iov >= 1
    BY <1>2
  <2>2. QED
    BY <1>1, <1>2, <2>1
<1>a. /\ table' = s.table
      /\ msg' = [msg EXCEPT ![at] = AnsweredIn(@, s)]
      /\ Advance /\ pc' # "fall"
      /\ UNCHANGED <<kernel, incomplete, count, shouldStop, main, history>>
  BY DEF Fall, Advance
<1> HIDE DEF out
<1>4. r.in = b /\ r.out = out /\ r.table = table /\ r \in [in : {b}, out : {out}, table : {table}]
  BY DEF Request
<1>5. RequestOK(r) /\ Header(r) = b[1]
  BY <1>1, <1>2, <1>3, <1>4 DEF RequestOK, Request, Header
<1>6. due' = due /\ UNCHANGED <<asked, whole, served, got>>
  BY <1>a DEF history
<1>7. AnswerStep(s) <=> RequestOK(s)
  BY <1>1, <1>a DEF AnswerStep, history
<1> HIDE DEF r, s
<1>8. CASE Replied(msg[at])
  <2>1. Malformed(r) /\ msg[at].iov = 1
    BY <1>5, <1>8 DEF Replied, Malformed
  <2>2. s = r
    BY <2>1 DEF s, Add
  <2>3. AnswerStep(s) /\ Len(s.out) = 1 /\ s.in = b /\ TableFits(s.table)
    BY <1>1, <1>2, <1>4, <1>5, <1>7, <2>1, <2>2
  <2>4. FitInv'
    <3>1. Len(s.out) <= BufSize /\ Len(s.out) # 0
      BY <2>3, Sizes
    <3>2. QED
      BY <1>a, <2>3, <3>1, FitAnswer
  <2>5. ASSUME DueInv PROVE DueInv'
    <3>1. at \in Batch \ Unprocessed
      <4>1. at \in Batch
        BY <2>3, AnswerMoves
      <4>2. at \notin Unprocessed
        BY <1>1, Sizes DEF Unprocessed, UdpInv, UdpTypes
      <4>3. QED
        BY <4>1, <4>2
    <3>2. Due(msg[at].from, SubSeq(s.in, 1, Len(s.out)))
      BY <2>1, <2>3, <2>5, <3>1 DEF DueInv, Message
    <3>3. DOMAIN due' = Clients /\ \A d \in Clients : due'[d] = due[d]
      BY <1>6, <2>5 DEF DueInv
    <3>4. QED
      BY <1>6, <1>a, <2>3, <2>5, <3>2, <3>3, DueAnswer DEF Due
  <2>6. QED
    BY <2>4, <2>5
<1>9. CASE ~Replied(msg[at])
  <2>1. msg[at].iov = 0 /\ b[1] \in Heads /\ (DueInv => ~Said(msg[at].from))
    BY <1>1, <1>9 DEF FitInv, DueInv
  <2>2. Fresh(r)
    BY <1>2, <1>4, <2>1 DEF Fresh
  <2>3. Answers(r, s) /\ RequestOK(s)
    <3>1. Answers(r, s)
      BY <1>1, <1>4, <1>5, <2>1, <2>2, WriteAnswers DEF s
    <3>2. RequestOK(s)
      BY <1>5, AddOK DEF s
    <3>3. QED
      BY <3>1, <3>2
  <2>4. AnswerStep(s) /\ TableFits(s.table) /\ Len(s.out) <= BufSize
    BY <1>7, <2>3 DEF Answers
  <2>5. Len(s.out) = 0 => s.in[1] \in Heads
    <3>1. Len(s.out) = 0 => Fresh(s)
      BY <2>3, SeqEmpty DEF RequestOK, IsSeq, Fresh
    <3>2. QED
      BY <1>4, <2>1, <2>3, <3>1 DEF Answers
  <2>6. FitInv'
    BY <1>a, <2>4, <2>5, FitAnswer
  <2>7. ASSUME DueInv PROVE DueInv'
    <3>1. DOMAIN due' = Clients /\ \A d \in Clients : due'[d] = due[d]
      BY <1>6, <2>7 DEF DueInv
    <3>2. QED
      BY <2>1, <2>4, <2>7, <3>1, DueAnswer
  <2>8. QED
    BY <2>6, <2>7
<1>10. QED
  BY <1>8, <1>9

\* recvmmsg writes requests over the messages as far as iov_len goes.
LEMMA FitRecv ==
  ASSUME RoomForReplies, UdpInv, FitInv, Recv
  PROVE  FitInv' /\ (DueInv => DueInv')
<1>u. UdpTypes /\ RxInv /\ ReplyInv
  BY DEF UdpInv
<1>1. rx \in Seq(Datagram) /\ Len(rx) \in Nat /\ DOMAIN rx = 1 .. Len(rx) /\ Len(rx) > 0
  BY <1>u DEF Recv, UdpTypes
<1>2. PICK n \in Nat : n = Min({Len(rx), MaxMsgs}) /\ 1 <= n /\ n <= MaxMsgs /\ n <= Len(rx)
  <2>1. MaxMsgs \in Nat /\ MaxMsgs > 0
    BY Sizes
  <2>2. Min({Len(rx), MaxMsgs}) = IF Len(rx) <= MaxMsgs THEN Len(rx) ELSE MaxMsgs
    BY <1>1, <2>1, MinLemma
  <2>3. QED
    BY <1>1, <2>1, <2>2
<1>3. /\ count' = n /\ at' = 1 /\ pc' = "process"
      /\ asked' = asked /\ due' = due /\ got' = got /\ table' = table
      /\ msg' = [m \in Messages |-> IF m <= n THEN Received(msg[m], rx[m]) ELSE msg[m]]
      /\ whole' = whole \cup {rx[m].from : m \in {l \in 1 .. n : Len(rx[l].cells) <= msg[l].iov}}
  BY <1>2 DEF Recv
<1>4. Batch' = 1 .. n /\ Unprocessed' = 1 .. n
  BY <1>3 DEF Batch, Unprocessed
<1>5. \A m \in 1 .. n : m \in Messages /\ rx[m].from \in Clients /\ rx[m].from \notin served
                        /\ rx[m].cells \in AllRequests
  <2> TAKE m \in 1 .. n
  <2>1. m \in 1 .. MaxMsgs /\ m \in 1 .. Len(rx)
    BY <1>1, <1>2, Sizes
  <2>2. rx[m] \in Datagram
    BY <1>1, <2>1
  <2>3. QED
    BY <1>u, <1>1, <2>1, <2>2 DEF Messages, Datagram, RxInv
<1>6. /\ \A m \in Messages \ (1 .. n) : msg'[m] = msg[m]
      /\ \A m \in 1 .. n : msg'[m] = Received(msg[m], rx[m])
  <2>1. \A m \in 1 .. n : m <= n /\ m \in Messages
    BY <1>5
  <2>2. \A m \in Messages \ (1 .. n) : ~(m <= n)
    BY <1>2 DEF Messages
  <2>3. QED
    BY <1>3, <2>1, <2>2
<1>7. ASSUME NEW m \in 1 .. n
      PROVE  msg'[m].iov = msg[m].iov /\ msg'[m].buf[1] \in Heads
  <2> DEFINE l == Min({msg[m].iov, Len(rx[m].cells)})
             b == [i \in 1 .. BufSize |-> IF i <= l THEN rx[m].cells[i] ELSE msg[m].buf[i]]
  <2>1. MessageOK(msg[m]) /\ IsSeq(rx[m].cells) /\ Len(rx[m].cells) >= 1
    <3>1. MessageOK(msg[m]) /\ IsSeq(rx[m].cells)
      BY <1>u, <1>5, RequestLemma DEF UdpTypes
    <3>2. PICK k \in Nat : Len(rx[m].cells) = 1 + k
      BY <1>5, RequestLemma DEF HeaderOK
    <3>3. QED
      BY <3>1, <3>2
  <2>2. Len(rx[m].cells) \in Nat /\ msg[m].iov \in Nat
    BY <2>1 DEF IsSeq, MessageOK
  <2>3. l \in Nat /\ (msg[m].iov >= 1 => l >= 1)
    BY <2>1, <2>2, MinLemma
  <2>4. msg'[m] = [msg[m] EXCEPT !.from = rx[m].from, !.buf = b]
    BY <1>6 DEF Received
  <2> HIDE DEF l
  <2>5. b[1] = IF 1 <= l THEN rx[m].cells[1] ELSE msg[m].buf[1]
    BY Sizes
  <2> HIDE DEF b
  <2>6. msg'[m].buf = b /\ msg'[m].iov = msg[m].iov
    BY <2>1, <2>4 DEF MessageOK
  <2>7. rx[m].cells[1] \in Heads
    BY <1>5 DEF Heads
  <2>8. msg[m].iov = 0 => msg[m].buf[1] \in Heads
    BY <1>5 DEF FitInv
  <2>9. msg[m].iov = 0 \/ msg[m].iov >= 1
    BY <2>2
  <2>10. QED
    BY <2>3, <2>5, <2>6, <2>7, <2>8, <2>9
<1>8. FitInv'
  <2>1. ASSUME NEW m \in Messages
        PROVE  /\ msg'[m].iov <= BufSize
               /\ msg'[m].iov = 0 \/ m \in Unprocessed' => msg'[m].buf[1] \in Heads
    BY <1>4, <1>6, <1>7 DEF FitInv
  <2>2. TableFits(table')
    BY <1>3 DEF FitInv
  <2>3. QED
    BY <1>3, <2>1, <2>2 DEF FitInv
<1>9. ASSUME DueInv PROVE DueInv'
  <2>1. ASSUME NEW c \in Clients, got'[c] # <<>> PROVE Due(c, got[c][1])'
    <3>1. c \in served
      BY <1>u, <1>3, <2>1 DEF ReplyInv
    <3>2. c \in whole' => c \in whole
      BY <1>3, <1>5, <3>1
    <3>3. QED
      BY <1>3, <1>9, <2>1, <3>2 DEF DueInv, Due, Said
  <2>2. QED
    BY <1>3, <1>4, <1>9, <2>1 DEF DueInv
<1>10. QED
  BY <1>8, <1>9

\* sendmmsg hands out what the messages hold.
LEMMA FitSend ==
  ASSUME UdpInv, FitInv, Send
  PROVE  FitInv' /\ (DueInv => DueInv')
<1>u. UdpTypes /\ BatchInv /\ ReplyInv
  BY DEF UdpInv
<1>1. /\ UNCHANGED <<msg, count, table, asked, whole, due>>
      /\ pc = "send" /\ pc' = "loop"
  BY DEF Send
<1>2. PICK n \in 0 .. count :
         got' = [c \in Clients |->
              IF \E m \in 1 .. n : msg[m].from = c
              THEN Append(got[c], Message(CHOOSE m \in 1 .. n : msg[m].from = c)) ELSE got[c]]
  BY DEF Send
<1>3. Batch = 1 .. count /\ Unprocessed = {} /\ Batch' = {} /\ Unprocessed' = {} /\ count \in Nat
  BY <1>u, <1>1, Sizes DEF Batch, Unprocessed, UdpTypes
<1>4. FitInv'
  BY <1>1, <1>3 DEF FitInv
<1>5. ASSUME DueInv, NEW c \in Clients, got'[c] # <<>> PROVE Due(c, got[c][1])'
  <2>1. CASE \E m \in 1 .. n : msg[m].from = c
    <3>1. PICK m \in 1 .. n : m = (CHOOSE l \in 1 .. n : msg[l].from = c) /\ msg[m].from = c
      BY <2>1
    <3>2. m \in Batch \ Unprocessed
      BY <1>2, <1>3
    <3>3. got[c] = <<>>
      BY <1>u, <3>1, <3>2 DEF BatchInv, ReplyInv
    <3>4. got'[c] = Append(<<>>, Message(m))
      BY <1>2, <2>1, <3>1, <3>3
    <3>5. got'[c][1] = Message(m)
      <4>1. \A x : Append(<<>>, x)[1] = x
        OBVIOUS
      <4>2. QED
        BY <3>4, <4>1
    <3>6. Due(c, Message(m))
      BY <1>5, <3>1, <3>2 DEF DueInv
    <3>7. QED
      BY <1>1, <3>5, <3>6 DEF Due, Said
  <2>2. CASE ~\E m \in 1 .. n : msg[m].from = c
    <3>1. got'[c] = got[c]
      BY <1>2, <2>2
    <3>2. QED
      BY <1>1, <1>5, <3>1 DEF DueInv, Due, Said
  <2>3. QED
    BY <2>1, <2>2
<1>6. DueInv => DueInv'
  BY <1>1, <1>3, <1>5 DEF DueInv
<1>7. QED
  BY <1>4, <1>6

\* A new client has nothing at stake yet.
LEMMA FitArrive ==
  ASSUME UdpInv, FitInv, NEW c \in Clients, NEW q \in Requests[c], Arrive(c, q)
  PROVE  FitInv' /\ (DueInv => DueInv')
<1>1. /\ UNCHANGED <<msg, count, at, table, pc, whole, due, got>>
      /\ \A d : d # c => asked'[d] = asked[d]
  BY DEF Arrive, UdpInv, UdpTypes
<1>2. c \notin whole
  BY DEF Arrive, UdpInv, ReplyInv
<1>3. Batch' = Batch /\ Unprocessed' = Unprocessed
  BY <1>1 DEF Batch, Unprocessed
<1>4. \A d : Said(d)' <=> Said(d)
  BY <1>1, <1>2 DEF Said
<1>5. FitInv'
  BY <1>1, <1>3 DEF FitInv, TableFits
<1>6. DueInv => DueInv'
  BY <1>1, <1>3, <1>4 DEF DueInv, Due, Message
<1>7. QED
  BY <1>5, <1>6

\* The steps that move no datagram, message or reply; an entry may be evicted.
LEMMA FitOther ==
  ASSUME UdpInv, FitInv,
         \/ Loop \/ EpollWait \/ RecvNothing \/ Signal \/ (Main /\ pc # "crashed")
         \/ (\E k \in DOMAIN table : Evicted(k))
         \/ UNCHANGED vars
  PROVE  FitInv' /\ (DueInv => DueInv')
<1>1. UNCHANGED <<msg, count, at, asked, whole, due, got>>
  BY DEF Loop, EpollWait, RecvNothing, Signal, Main, Join, DeleteServer, Evicted, vars, kernel,
         history
<1>2. \/ pc' = pc
      \/ pc' \in {"loop", "wait", "recv", "exited"} /\ pc \in {"loop", "wait", "recv"}
  <2>1. CASE Loop \/ EpollWait \/ RecvNothing
    BY <2>1 DEF Loop, EpollWait, RecvNothing
  <2>2. CASE Main \/ Signal \/ (\E k \in DOMAIN table : Evicted(k)) \/ UNCHANGED vars
    BY <2>2 DEF Main, Join, DeleteServer, Signal, Evicted, vars
  <2>3. QED
    BY <2>1, <2>2
<1>3. TableFits(table')
  <2>1. table' = table \/ table' = <<>> \/ \E k \in DOMAIN table : table' = Without(table, k)
    BY DEF Loop, EpollWait, RecvNothing, Signal, Main, Join, DeleteServer, Evicted, vars
  <2>2. CASE table' = <<>>
    BY <2>2 DEF TableFits
  <2>3. CASE table' = table
    BY <2>3 DEF FitInv
  <2>4. ASSUME NEW k \in DOMAIN table, table' = Without(table, k) PROVE TableFits(table')
    BY <2>4 DEF FitInv, TableFits, Without
  <2>5. QED
    BY <2>1, <2>2, <2>3, <2>4
<1>4. Batch' = Batch /\ Unprocessed' = Unprocessed /\ (pc' = "fall" => pc = "fall")
  BY <1>1, <1>2 DEF Batch, Unprocessed
<1>5. FitInv'
  BY <1>1, <1>3, <1>4 DEF FitInv
<1>6. DueInv => DueInv'
  BY <1>1, <1>4 DEF DueInv, Due, Said, Message
<1>7. QED
  BY <1>5, <1>6

-----------------------------------------------------------------------------
LEMMA FitStep ==
  ASSUME RoomForReplies, UdpInv, FitInv, [Next]_vars
  PROVE  FitInv' /\ (ProperRequests /\ DueInv => DueInv')
<1>1. ASSUME NEW c \in Clients, NEW q \in Requests[c], Arrive(c, q)
      PROVE  FitInv' /\ (DueInv => DueInv')
  BY <1>1, FitArrive
<1>2. CASE Recv
  BY <1>2, FitRecv
<1>3. CASE Process
  BY <1>3, FitProcess
<1>4. CASE Fall
  BY <1>4, FitFall
<1>5. CASE Send
  BY <1>5, FitSend
<1>6. CASE \/ Loop \/ EpollWait \/ RecvNothing \/ Signal \/ (Main /\ pc # "crashed")
           \/ (\E k \in DOMAIN table : Evicted(k))
           \/ UNCHANGED vars
  BY <1>6, FitOther
<1>7. QED
  BY <1>1, <1>2, <1>3, <1>4, <1>5, <1>6 DEF Next, Worker, Ended

\* The worker's flag, which only stop sets.
StopFlag == shouldStop \in BOOLEAN

\* Every variable stays in its type: iov_len, which the next recvmmsg reads
\* into and sendmmsg sends of, never exceeds the buffer -- as long as every reply fits
\* (processBinaryRequest does not compare its length with UDP_BUF_SIZE).
THEOREM UdpTypeCorrect == RoomForReplies => (Spec => []TypeOK)
<1> SUFFICES ASSUME RoomForReplies PROVE Spec => []TypeOK
  OBVIOUS
<1>1. Init => FitInv
  BY FitInit
<1>2. UdpInv /\ FitInv /\ [Next]_vars => FitInv'
  BY FitStep
<1>s. StopFlag /\ [Next]_vars => StopFlag'
  <2>1. Next => shouldStop' = shouldStop \/ shouldStop' = TRUE
    BY DEF Next, Main, Join, DeleteServer, Worker, Loop, EpollWait, RecvNothing, Recv, Process,
           Fall, Send, Arrive, Evicted, Signal, Ended, vars
  <2>2. QED
    BY <2>1 DEF vars, StopFlag
<1>i. Init => StopFlag
  BY DEF Init, StopFlag
<1>3. UdpInv /\ FitInv /\ StopFlag => TypeOK
  <2> SUFFICES ASSUME UdpInv, FitInv, StopFlag PROVE TypeOK
    OBVIOUS
  <2>1. ASSUME NEW m \in Messages
        PROVE  msg[m].iov \in 0 .. BufSize /\ Len(msg[m].buf) = BufSize
    <3>1. MessageOK(msg[m]) /\ msg[m].iov <= BufSize
      BY DEF UdpInv, UdpTypes, FitInv
    <3>2. Len(msg[m].buf) = BufSize
      BY <3>1, Sizes DEF MessageOK
    <3>3. QED
      BY <3>1, <3>2, Sizes DEF MessageOK
  <2>2. QED
    BY <2>1 DEF TypeOK, UdpInv, UdpTypes, StopFlag
<1>4. QED
  BY <1>1, <1>2, <1>3, <1>s, <1>i, UdpInductive, PTL DEF Spec

\* A client whose request recvmmsg received whole gets one message, and that is
\* the reply its own request deserved when it was processed: whatever clients
\* share its batch, although processBinaryRequest writes the reply over the
\* request, SET goes on into ADD and messages keep the iov_len of earlier replies.
THEOREM OwnRepliesOnly == RoomForReplies /\ ProperRequests => (Spec => []OwnReply)
<1> SUFFICES ASSUME RoomForReplies, ProperRequests PROVE Spec => []OwnReply
  OBVIOUS
<1>1. Init => FitInv /\ DueInv
  BY FitInit
<1>2. UdpInv /\ FitInv /\ DueInv /\ [Next]_vars => FitInv' /\ DueInv'
  BY FitStep
<1>3. UdpInv /\ DueInv => OwnReply
  <2> SUFFICES ASSUME UdpInv, DueInv,
                      NEW c \in whole, got[c] # <<>>, asked[c][1].op # "SETQ"
               PROVE  Len(got[c]) = 1 /\ AsRead(got[c][1]) = due[c]
    BY DEF OwnReply
  <2>1. c \in Clients /\ OneReply
    BY DEF UdpInv, UdpTypes, ReplyInv
  <2>2. PICK x : got[c] = <<x>>
    BY <2>1 DEF OneReply
  <2>3. Len(got[c]) = 1
    BY <2>2
  <2>4. AsRead(got[c][1]) = due[c]
    BY <2>1 DEF DueInv, Due, Said
  <2>5. QED
    BY <2>3, <2>4
<1>4. QED
  BY <1>1, <1>2, <1>3, UdpInductive, PTL DEF Spec

\* A SET that has its reply is not carried out or answered a second time when it
\* goes on into ADD (the missing break): ADD finds the reply, which has no key.
SetOnce == [][Fall /\ msg[at].iov # 0 =>
                 /\ table' = table
                 /\ msg'[at].buf = msg[at].buf /\ msg'[at].iov = msg[at].iov]_vars

\* processBinaryRequest carries out every SET once, whatever other workers evict
\* between the two halves; SETQ is the command that it carries out again.
THEOREM SetCarriedOutOnce == RoomForReplies => (Spec => SetOnce)
<1> SUFFICES ASSUME RoomForReplies PROVE Spec => SetOnce
  OBVIOUS
<1>1. Init => FitInv
  BY FitInit
<1>2. UdpInv /\ FitInv /\ [Next]_vars => FitInv'
  BY FitStep
<1>3. UdpInv /\ FitInv /\ [Next]_vars =>
         [Fall /\ msg[at].iov # 0 =>
                 /\ table' = table
                 /\ msg'[at].buf = msg[at].buf /\ msg'[at].iov = msg[at].iov]_vars
  <2> SUFFICES ASSUME UdpInv, FitInv, Fall, msg[at].iov # 0
               PROVE  /\ table' = table
                      /\ msg'[at].buf = msg[at].buf /\ msg'[at].iov = msg[at].iov
    OBVIOUS
  <2> DEFINE b == msg[at].buf
             out == SubSeq(b, 1, msg[at].iov)
             r == [Request(b, table) EXCEPT !.out = out]
  <2>1. at \in Messages /\ MessageOK(msg[at]) /\ Replied(msg[at]) /\ DOMAIN msg = Messages
    BY CurrentRequest DEF Fall, FitInv, UdpInv, UdpTypes
  <2>2. Len(out) = msg[at].iov
    BY <2>1, SeqSub DEF MessageOK
  <2> HIDE DEF out
  <2>3. r.in = b /\ r.out = out /\ r.table = table
    BY DEF Request
  <2>4. table' = Add(r).table /\ msg' = [msg EXCEPT ![at] = AnsweredIn(@, Add(r))]
    BY DEF Fall, out
  <2> HIDE DEF r
  <2>5. Add(r) = r
    BY <2>1, <2>3 DEF Add, Malformed, Header, Replied
  <2>6. msg'[at] = AnsweredIn(msg[at], r)
    BY <2>1, <2>4, <2>5
  <2>7. msg'[at].buf = b /\ msg'[at].iov = Len(out)
    BY <2>1, <2>3, <2>6 DEF AnsweredIn, MessageOK
  <2>8. QED
    BY <2>2, <2>3, <2>4, <2>5, <2>7
<1>4. QED
  BY <1>1, <1>2, <1>3, UdpInductive, PTL DEF Spec, SetOnce
=============================================================================
