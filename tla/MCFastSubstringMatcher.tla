----------------------- MODULE MCFastSubstringMatcher -----------------------
(***************************************************************************)
(* FastSubstringMatcher for TLC: the commands of the server, and every     *)
(* list of up to four keywords of three characters over {a, b}, the        *)
(* smallest lists with a group inside a group among them.                  *)
(***************************************************************************)
EXTENDS FastSubstringMatcher

\* The commands in the order of CacheRequestType, as the server spells them.
Commands == <<
    <<"g", "e", "t">>, <<"s", "e", "t">>, <<"a", "d", "d">>,
    <<"d", "e", "l", "e", "t", "e">>, <<"r", "e", "p", "l", "a", "c", "e">>,
    <<"c", "a", "s">>, <<"g", "e", "t", "s">>,
    <<"a", "p", "p", "e", "n", "d">>, <<"p", "r", "e", "p", "e", "n", "d">>,
    <<"i", "n", "c", "r">>, <<"d", "e", "c", "c", "r">>,
    <<"t", "o", "u", "c", "h">>, <<"w", "a", "t", "c", "h">>,
    <<"l", "r", "u", "_", "c", "r", "a", "w", "l", "e", "r">>,
    <<"s", "t", "a", "t", "s">>, <<"s", "l", "a", "b", "s">>>>

ThreeLetters == [1 .. 3 -> {"a", "b"}]
AllLists == {Commands} \cup
            UNION {{list \in [1 .. n -> ThreeLetters] : IsInjective(list)} : n \in 1 .. 4}

\* Every keyword and every word of three letters, a few words that are no
\* keywords, "decr" among them, and one of a length no keyword has.
AllInputs == Range(Commands) \cup ThreeLetters \cup
             {<<"d", "e", "c", "r">>, <<"g", "x", "x">>, <<"b", "c", "a">>, <<"a", "b">>}
=============================================================================
