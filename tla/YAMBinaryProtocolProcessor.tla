--------------------- MODULE YAMBinaryProtocolProcessor ---------------------
(***************************************************************************)
(* The binary protocol: what processBinaryRequest does with one request in *)
(* a buffer that is also the buffer of the reply.                          *)
(*                                                                         *)
(* A buffer is a sequence of cells: the header, a record, is one cell, and *)
(* so are the flags, each unit of a key and each unit of a value; lengths  *)
(* count the cells behind the header.  The hash table is a function from   *)
(* keys, which are sequences of cells, to flags and values: module         *)
(* LFLRUHashTable shows that it behaves as one.  Requests carry no CAS     *)
(* ticket (for those see HashTableCas) and no byte order: lengths are      *)
(* taken as they come.                                                     *)
(***************************************************************************)
EXTENDS Integers, SequencesExt, FiniteSetsExt

Reading == {"GET", "GETQ", "GETK", "GETKQ"}
Writing == {"SET", "SETQ", "ADD", "ADDQ", "REPLACE", "REPLACEQ"}
Deleting == {"DELETE", "DELETEQ"}
Quiet == {"GETQ", "GETKQ", "SETQ", "ADDQ", "REPLACEQ", "DELETEQ"}
WithKey == {"GETK", "GETKQ"}

NotFoundText == "Not found"

\* A request in progress: the input buffer, the reply so far and the table.
Request(buf, table) == [in |-> buf, out |-> <<>>, table |-> table]

Header(r) == r.in[1]
Cells(r, from, n) == SubSeq(r.in, from, from + n - 1)

\* The key and the value as the code takes them out of the buffer.  A writing
\* request has its flags first.
KeyAt(r) == Cells(r, 2 + Header(r).extrasLen, Header(r).keyLen)

\* mutant: the value starts at the key.
ValueAtKey(r) ==
    LET h == Header(r)
    IN  [flags |-> r.in[2],
         value |-> Cells(r, 2 + h.extrasLen, h.bodyLen - h.extrasLen)]
\* Its length is computed as bodyLen - extrasLen + keyLen.
ValueAt(r) ==
    LET h == Header(r)
    IN  [flags |-> r.in[2],
         value |-> Cells(r, 2 + h.extrasLen + h.keyLen,
                         h.bodyLen - h.extrasLen + h.keyLen)]

\* The caller gives one buffer for both: the reply lies over the request.
Overwritten(in, out) == [i \in DOMAIN in |-> IF i <= Len(out) THEN out[i] ELSE in[i]]

Reply(r, status, keyLen, extrasLen, body) ==
    LET header == [magic |-> "reply", status |-> status, keyLen |-> keyLen,
                   extrasLen |-> extrasLen, bodyLen |-> Len(body)]
        out == r.out \o <<header>> \o body
    IN  [r EXCEPT !.out = out, !.in = Overwritten(@, out)]
Plain(r, status) == Reply(r, status, 0, 0, <<>>)

\* A reply that a quiet request does not get.
UnlessQuiet(r, status) == IF Header(r).op \in Quiet THEN r ELSE Plain(r, status)

-----------------------------------------------------------------------------
(* The cases of the switch.  A request that is malformed is skipped.       *)

Get(r) ==
    LET h == Header(r)
        key == Cells(r, 2, h.keyLen)
        shown == IF h.op \in WithKey THEN key ELSE <<>>
    IN  IF h.keyLen = 0 \/ h.keyLen # h.bodyLen THEN r
        ELSE IF key \in DOMAIN r.table
        THEN Reply(r, "NO_ERROR", Len(shown), 1,
                   <<r.table[key].flags>> \o shown \o r.table[key].value)
        ELSE IF h.op \in Quiet THEN r
        ELSE Reply(r, "KEY_NOT_FOUND", Len(shown), 0, shown \o <<NotFoundText>>)

With(table, key, v) == [k \in DOMAIN table \cup {key} |-> IF k = key THEN v ELSE table[k]]
Without(table, key) == [k \in DOMAIN table \ {key} |-> table[k]]

Malformed(r) == Header(r).keyLen = 0 \/ Header(r).extrasLen = 0

\* SET writes and replies, and there is no break: ADD follows.
Set(r) ==
    IF Malformed(r) THEN r
    ELSE UnlessQuiet([r EXCEPT !.table = With(@, KeyAt(r), ValueAt(r))],
                     "NO_ERROR")
FallsThrough(r) == Header(r).op \in {"SET", "SETQ"} /\ ~Malformed(r)

\* NO_ERROR is for ADD alone, not for a SETQ that got here.
Add(r) ==
    IF Malformed(r) THEN r
    ELSE IF KeyAt(r) \in DOMAIN r.table THEN Plain(r, "KEY_EXISTS")
    ELSE LET s == [r EXCEPT !.table = With(@, KeyAt(r), ValueAt(r))]
         IN  IF Header(r).op = "ADD" THEN Plain(s, "NO_ERROR") ELSE s

Replace(r) ==
    IF Malformed(r) THEN r
    ELSE IF KeyAt(r) \notin DOMAIN r.table THEN Plain(r, "KEY_NOT_FOUND")
    ELSE UnlessQuiet([r EXCEPT !.table = With(@, KeyAt(r), ValueAt(r))],
                     "NO_ERROR")

Delete(r) ==
    IF Header(r).keyLen = 0 THEN r
    ELSE UnlessQuiet([r EXCEPT !.table = Without(@, KeyAt(r))], "NO_ERROR")

\* The table's remove does not survive a key that is not there (LFLRUHashTable,
\* FindKey).
Crashes(r) ==
    /\ Header(r).magic = "request" /\ Header(r).op \in Deleting
    /\ Header(r).keyLen # 0
    /\ KeyAt(r) \notin DOMAIN r.table

\* The switch, up to a SET's missing break.  Anything that is not a request is
\* skipped, and so are the other opcodes.
processBinaryRequest(r) ==
    LET h == Header(r)
    IN  CASE h.magic # "request"              -> r
          [] h.op \in Reading                 -> Get(r)
          [] h.op \in {"SET", "SETQ"}         -> Set(r)
          [] h.op \in {"ADD", "ADDQ"}         -> Add(r)
          [] h.op \in {"REPLACE", "REPLACEQ"} -> Replace(r)
          [] h.op \in Deleting                -> Delete(r)
          [] h.op = "NOOP"                    -> Plain(r, "NO_ERROR")
          [] OTHER                            -> r
=============================================================================
