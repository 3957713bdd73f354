-------------------------- MODULE RequestProcessor --------------------------
(***************************************************************************)
(* The text protocol: processRequest and parseMemcachedHeader on a buffer  *)
(* that is filled piece by piece, and what Session::process does with the  *)
(* buffer before and after.                                                *)
(*                                                                         *)
(* The input is a sequence of symbols <<kind, value>>: the words of a line,*)
(* each with the space in front of it, CR, LF and the data.  A symbol that *)
(* has arrived in part only is one that has not arrived: the parser stops  *)
(* at the end of the input in both cases.  (It does not look for the end   *)
(* of "noreply", which is taken to arrive as a whole.)  Where the code     *)
(* adds 2 or 9 to its position it skips two symbols: CR and LF, or         *)
(* "noreply" and CR.                                                       *)
(***************************************************************************)
EXTENDS Numbers

CONSTANTS Keys, Absent,
          Scripts,      \* what the client asks for: a set of sequences of requests
          NoCut,        \* kinds of symbols a piece of input never starts with
          HashSize      \* slots of the hash table

Storage == {"set", "add", "replace", "append", "prepend"}
Retrieval == {"get", "gets"}
Aborting == {"delete", "incr", "deccr", "touch", "watch", "lru_crawler", "slabs"}

\* The words FastSubstringMatcher was given ("deccr", not "decr"), except "cas",
\* whose execution is the subject of HashTableCas.
Known == Storage \cup Retrieval \cup Aborting \cup {"stats"}

ASSUME ProcessorAssumption ==
    \A script \in Scripts : \A i \in DOMAIN script :
        script[i].cmd \in Known \cup {"decr"}

VARIABLES script,    \* the requests of the client
          unsent,    \* the symbols that have not arrived
          buf,       \* inBuffer up to inBufferBytes
          offset,    \* inBufferOffset
          req,       \* requestInfo, headerLen, and dataLen of the session
          any,       \* elementsProcessed > 0
          store,     \* what the hash table holds
          out,       \* the replies
          pc

vars == <<script, unsent, buf, offset, req, any, store, out, pc>>

-----------------------------------------------------------------------------
(* The client.                                                             *)

Word(kind) == <<kind, Absent>>
LineEnd == <<Word("CR"), Word("LF")>>

\* A request as the protocol writes it.
Encode(r) ==
    LET words == IF r.cmd \in Storage
                 THEN <<<<"num", itoa(r.flags)>>, <<"num", itoa(0)>>,
                        <<"num", itoa(Len(r.data))>>>>
                 ELSE <<>>
        quiet == IF r.noreply THEN <<Word("noreply")>> ELSE <<>>
        data  == IF r.cmd \in Storage
                 THEN [i \in DOMAIN r.data |-> <<"data", r.data[i]>>] \o LineEnd ELSE <<>>
    IN  <<<<"cmd", r.cmd>>>> \o [i \in DOMAIN r.keys |-> <<"key", r.keys[i]>>]
            \o words \o quiet \o LineEnd \o data

-----------------------------------------------------------------------------
(* What a request does and answers.  A stored value is its data and flags. *)

Stores(cmd, old) == \/ cmd = "set"
                    \/ cmd = "add" /\ old = Absent
                    \/ cmd = "replace" /\ old # Absent
Stored(cmd, k, v, s) == IF Stores(cmd, s[k]) THEN [s EXCEPT ![k] = v] ELSE s

ValuesOf(keys, s) ==
    LET present == SelectSeq(keys, LAMBDA k : s[k] # Absent)
    IN  [i \in DOMAIN present |->
            LET v == s[present[i]]
            IN  <<"VALUE", present[i], v.flags, Len(v.data), v.data>>]

\* STATS answers with the number of slots processHash visits, the free ones
\* included; APPEND and PREPEND are accepted and do nothing; NOREPLY suppresses
\* the answers of storage commands.
Answer(cmd, keys, noreply, s) ==
    CASE cmd \in Retrieval               -> Append(ValuesOf(keys, s), <<"END">>)
      [] cmd = "stats"                   -> <<<<"ITEMS", HashSize>>>>
      [] cmd \in {"append", "prepend"}   -> <<>>
      [] noreply                         -> <<>>
      [] Stores(cmd, s[keys[1]])         -> <<<<"STORED">>>>
      [] cmd = "add"                     -> <<<<"EXISTS">>>>
      [] OTHER                           -> <<<<"NOT_STORED">>>>

\* The reply as it is written: numbers as numerals.
Written(reply) ==
    CASE reply[1] = "VALUE" -> <<"VALUE", reply[2], itoa(reply[3]), itoa(reply[4]), reply[5]>>
      [] reply[1] = "ITEMS" -> <<"ITEMS", itoa(reply[2])>>
      [] OTHER              -> reply

-----------------------------------------------------------------------------
NoRequest == [state |-> "READY_STATE", cmd |-> "TYPE_MAX", key |-> 0, more |-> <<>>,
              noreply |-> FALSE, flags |-> 0, len |-> 0, hdr |-> 0]

Init ==
    /\ script \in Scripts
    /\ unsent = FlattenSeq([i \in DOMAIN script |-> Encode(script[i])])
    /\ buf = <<>> /\ offset = 0
    /\ req = NoRequest
    /\ any = FALSE
    /\ store = [k \in Keys |-> Absent]
    /\ out = <<>>
    /\ pc = "idle"

\* A piece of input arrives.
Receive ==
    /\ pc = "idle" /\ unsent # <<>>
    /\ \E n \in 1 .. Len(unsent) :
          /\ n < Len(unsent) => unsent[n + 1][1] \notin NoCut
          /\ buf' = buf \o SubSeq(unsent, 1, n)
          /\ unsent' = SubSeq(unsent, n + 1, Len(unsent))
    /\ any' = FALSE
    /\ pc' = "loop"
    /\ UNCHANGED <<script, offset, req, store, out>>

\* The condition of the processing loop in Session::process.
LoopEnds ==
    /\ pc = "loop" /\ offset >= Len(buf)
    /\ pc' = "finish"
    /\ UNCHANGED <<script, unsent, buf, offset, req, any, store, out>>

\* processRequest: DONE_STATE and READY_STATE.
NextRequest ==
    /\ pc = "loop" /\ offset < Len(buf)
    /\ req.state \in {"READY_STATE", "DONE_STATE"}
    /\ req' = [(IF req.state = "DONE_STATE" THEN NoRequest ELSE req)
                  EXCEPT !.state = "PARSING_HEADER"]
    /\ UNCHANGED <<script, unsent, buf, offset, any, store, out, pc>>

-----------------------------------------------------------------------------
(* parseMemcachedHeader.                                                   *)

Kind(i) == IF offset + i <= Len(buf) THEN buf[offset + i][1] ELSE "limit"
Value(i) == buf[offset + i][2]
Command == IF Kind(1) = "cmd" /\ Kind(2) # "limit" /\ Value(1) \in Known
           THEN Value(1) ELSE "none"

\* How many keys of a get are there, and how many of them are followed by a
\* space or CR.
KeysSeen == Cardinality({i \in 2 .. Len(buf) - offset :
                            \A j \in 2 .. i : Kind(j) = "key"})
KeysEnded == IF Kind(KeysSeen + 2) = "limit" THEN KeysSeen - 1 ELSE KeysSeen

\* The keys after the first are added to getKeysList as they are parsed.
\* mutant: the last of them is not added.
MoreKeysButLast == req.more \o [i \in 1 .. Max({KeysEnded - 2, 0}) |-> offset + 2 + i]
MoreKeys == req.more \o [i \in 1 .. Max({KeysEnded - 1, 0}) |-> offset + 2 + i]

HeaderComplete ==
    \/ Command \in Storage /\ Kind(6) # "limit"
    \/ Command \in Retrieval /\ Kind(KeysSeen + 2) = "CR"
    \/ Command \in Aborting \cup {"stats"}

\* Symbols up to the end of the line, or what the parser takes for it.
HeaderLen == CASE Command \in Storage   -> 7
               [] Command \in Retrieval -> KeysSeen + 3
               [] OTHER                 -> 3

\* The parser aborts on commands it knows and has no code for.
ParseHeader ==
    /\ pc = "loop" /\ offset < Len(buf) /\ req.state = "PARSING_HEADER"
    /\ HeaderComplete
    /\ req' = [req EXCEPT
                 !.state = "PARSING_DATA", !.cmd = Command, !.key = offset + 2,
                 !.more = IF Command \in Retrieval THEN MoreKeys ELSE @,
                 !.noreply = Command \in Storage /\ Kind(6) = "noreply",
                 !.flags = IF Command \in Storage THEN atous(Value(3)) ELSE 0,
                 !.len = IF Command \in Storage THEN atoull(Value(5)) ELSE 0,
                 !.hdr = HeaderLen]
    /\ pc' = IF Command \in Aborting THEN "aborted" ELSE pc
    /\ UNCHANGED <<script, unsent, buf, offset, any, store, out>>

\* The line is not complete, or its command is not known.
HeaderIncomplete ==
    /\ pc = "loop" /\ offset < Len(buf) /\ req.state = "PARSING_HEADER"
    /\ ~HeaderComplete
    /\ req' = [req EXCEPT !.more = IF Command \in Retrieval THEN MoreKeys ELSE @]
    /\ pc' = "finish"
    /\ UNCHANGED <<script, unsent, buf, offset, any, store, out>>

-----------------------------------------------------------------------------
(* processRequest: PARSING_DATA.                                           *)

\* dataLen of the session: the data and its line end, unless there is no data.
DataLen == IF req.len = 0 THEN 0 ELSE req.len + 2
DataStart == offset + req.hdr

\* The test for enough input, with the unsigned arithmetic of size_t.
\* mutant: the line end behind the data is not waited for.
EnoughButLineEnd == (Len(buf) - offset - req.hdr) % SizeRange >= req.len
Enough == (Len(buf) - offset - req.hdr) % SizeRange >= DataLen

\* The two characters behind the data; behind the input there is whatever the
\* buffer held before.
EndsLine(i) == IF i + 1 <= Len(buf) THEN {buf[i][1] = "CR" /\ buf[i + 1][1] = "LF"} ELSE BOOLEAN
TerminatorOk == IF DataLen = 0 THEN {TRUE} ELSE EndsLine(DataStart + DataLen - 1)

Name(i) == buf[i][2]
Data == [i \in 1 .. req.len |-> IF DataStart + i <= Len(buf) THEN buf[DataStart + i][2] ELSE Absent]

Execute ==
    LET keys == IF req.cmd = "stats" THEN <<>> ELSE [i \in 1 .. Len(req.more) + 1 |->
                    Name(IF i = 1 THEN req.key ELSE req.more[i - 1])]
    IN  /\ store' = IF req.cmd \in Storage
                    THEN Stored(req.cmd, keys[1], [flags |-> req.flags, data |-> Data], store) ELSE store
        /\ LET answer == Answer(req.cmd, keys, req.noreply, store)
           IN  out' = out \o [i \in DOMAIN answer |-> Written(answer[i])]

ParseData ==
    /\ pc = "loop" /\ offset < Len(buf) /\ req.state = "PARSING_DATA"
    /\ Enough
    /\ \E ok \in TerminatorOk :
          IF ok
          THEN /\ Execute
               /\ offset' = offset + req.hdr + DataLen
               /\ req' = [req EXCEPT !.state = "DONE_STATE"]
               /\ any' = TRUE
               /\ UNCHANGED pc
          ELSE /\ pc' = "aborted"
               /\ UNCHANGED <<offset, req, any, store, out>>
    /\ UNCHANGED <<script, unsent, buf>>

DataIncomplete ==
    /\ pc = "loop" /\ offset < Len(buf) /\ req.state = "PARSING_DATA"
    /\ ~Enough
    /\ pc' = "finish"
    /\ UNCHANGED <<script, unsent, buf, offset, req, any, store, out>>

-----------------------------------------------------------------------------
\* Session::process after the loop: what is left is moved to the front of the
\* buffer and parsed from its start; a buffer that was used up is emptied.
\* mutant: the rest is dropped.
RestDropped == <<>>
Rest == SubSeq(buf, offset + 1, Len(buf))

Finish ==
    /\ pc = "finish"
    /\ IF ~any
       THEN /\ pc' = "idle"
            /\ UNCHANGED <<buf, offset, req>>
       ELSE IF \/ offset < Len(buf) /\ req.state # "DONE_STATE"
               \/ offset = Len(buf) /\ req.state \in {"DONE_STATE", "READY_STATE"}
            THEN /\ buf' = Rest
                 /\ offset' = 0
                 /\ req' = NoRequest
                 /\ pc' = "idle"
            ELSE /\ pc' = "aborted"
                 /\ UNCHANGED <<buf, offset, req>>
    /\ UNCHANGED <<script, unsent, any, store, out>>

\* The connection stays open when the client has nothing more to send.
Waiting == (pc = "idle" /\ unsent = <<>>) \/ pc = "aborted"

Next ==
    \/ Receive \/ LoopEnds \/ NextRequest
    \/ ParseHeader \/ HeaderIncomplete
    \/ ParseData \/ DataIncomplete
    \/ Finish
    \/ Waiting /\ UNCHANGED vars

Spec == Init /\ [][Next]_vars

-----------------------------------------------------------------------------
\* Every variable stays in its type; in particular the position in the buffer
\* never passes the end of the input.
TypeOK ==
    /\ offset \in 0 .. Len(buf)
    /\ req.state \in {"READY_STATE", "PARSING_HEADER", "PARSING_DATA", "DONE_STATE"}
    /\ req.key \in 0 .. Len(buf) /\ \A i \in DOMAIN req.more : req.more[i] \in 1 .. Len(buf)
    /\ DOMAIN store = Keys
    /\ any \in BOOLEAN
    /\ pc \in {"idle", "loop", "finish", "aborted"}

\* The requests one after the other, each complete, with numbers in the
\* replies; and a reply of the server as the client reads it.
Reference(s) ==
    FoldLeft(LAMBDA acc, r :
                [store |-> IF r.cmd \in Storage
                           THEN Stored(r.cmd, r.keys[1], [flags |-> r.flags, data |-> r.data],
                                       acc.store)
                           ELSE acc.store,
                 out |-> acc.out \o Answer(r.cmd, r.keys, r.noreply, acc.store)],
             [store |-> [k \in Keys |-> Absent], out |-> <<>>], s)
AsRead(reply) ==
    CASE reply[1] = "VALUE" -> <<"VALUE", reply[2], NumberOf(reply[3]), NumberOf(reply[4]), reply[5]>>
      [] reply[1] = "ITEMS" -> <<"ITEMS", NumberOf(reply[2])>>
      [] OTHER              -> reply
Replies == [i \in DOMAIN out |-> AsRead(out[i])]

\* Whatever the pieces the input arrives in, the replies are those to the
\* complete requests, in order, with the flags and lengths that were stored.
RepliesInOrder == IsPrefix(Replies, Reference(script).out)

\* When the input has arrived and been processed, every request has been
\* answered and has taken effect once.
AllAnswered ==
    (pc = "idle" /\ unsent = <<>>) =>
        Replies = Reference(script).out /\ store = Reference(script).store

\* The process does not end: processRequest returns false when the data is
\* not enough, and Session::process finds its buffer in order.
NoAbort == pc # "aborted"
=============================================================================
