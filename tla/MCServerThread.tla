--------------------------- MODULE MCServerThread ---------------------------
(***************************************************************************)
(* ServerThread for TLC: what clients send.                                *)
(***************************************************************************)
EXTENDS ServerThread

\* Two answered requests and the start of a third on one socket, a request
\* that is not answered on the other.
MixedStreams == [f \in Fds |-> IF f = 4 THEN {<<"ask", "ask", "part">>} ELSE {<<"quiet">>}]
=============================================================================
