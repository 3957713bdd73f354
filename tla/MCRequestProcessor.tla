------------------------- MODULE MCRequestProcessor -------------------------
(***************************************************************************)
(* RequestProcessor for TLC: the requests of a client.                     *)
(***************************************************************************)
EXTENDS RequestProcessor

Line(cmd, keys, flags, data) ==
    [cmd |-> cmd, keys |-> keys, flags |-> flags, data |-> data, noreply |-> FALSE]

\* Every command that is carried out, with data of one and of two units, which
\* in radix 2 are lengths of one and of two digits, and with one and two keys.
Requests == {Line("set", <<"a">>, 2, <<1>>), Line("set", <<"b">>, 1, <<2, 1>>),
             Line("add", <<"a">>, 0, <<2>>), Line("replace", <<"b">>, 5, <<1>>),
             Line("append", <<"a">>, 0, <<1>>),
             Line("get", <<"a">>, 0, <<>>), Line("gets", <<"a", "b">>, 0, <<>>),
             Line("stats", <<>>, 0, <<>>)}

ThreeRequests == {<<x, y, z>> : x, y, z \in Requests}
OneGet == {<<Line("get", <<"a">>, 0, <<>>)>>}
=============================================================================
