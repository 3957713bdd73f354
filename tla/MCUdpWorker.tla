----------------------------- MODULE MCUdpWorker -----------------------------
(***************************************************************************)
(* UdpWorker for TLC: requests of every opcode that is handled, on keys of *)
(* one cell.                                                               *)
(***************************************************************************)
EXTENDS UdpWorker, TLC

Packet(op, extras, key, value) ==
    <<[magic |-> "request", op |-> op, keyLen |-> Len(key), extrasLen |-> Len(extras),
       bodyLen |-> Len(extras) + Len(key) + Len(value)]>> \o extras \o key \o value
Read(op, k) == Packet(op, <<>>, <<k>>, <<>>)
Write(op, k, flags, v) == Packet(op, <<flags>>, <<k>>, <<v>>)

\* TCP clients have stored a value under "b".
Stored == <<"b">> :> [flags |-> "f0", value |-> <<"v0", "w0">>]

\* "VERSION" stands for the opcodes the switch has no case for.
SomeRequests ==
    <<{Read("GET", "b"), Write("SET", "a", "f1", "v1"), Write("SETQ", "b", "f1", "v1"),
       Write("ADDQ", "a", "f1", "v1"), Read("DELETE", "b"), Packet("VERSION", <<>>, <<>>, <<>>)},
      {Read("GETQ", "a"), Read("GETK", "a"), Write("ADD", "b", "f2", "v2"),
       Write("REPLACE", "b", "f2", "v2"), Write("REPLACEQ", "a", "f2", "v2"), Read("DELETEQ", "a")},
      {Read("GET", "a"), Read("GETKQ", "b"), Write("SET", "b", "f1", "v2"),
       Packet("NOOP", <<>>, <<>>, <<>>)}>>
=============================================================================
