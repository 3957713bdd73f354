------------------------ MODULE FastSubstringMatcher ------------------------
(***************************************************************************)
(* The command matcher: SetKeywords turns the keywords of one length into  *)
(* a list of spots, a decision tree written down in preorder, and          *)
(* MatchSubstring walks the list.  A spot tests one character; it decides  *)
(* for a keyword, or it opens a group of keywords that share the character *)
(* and says how many spots to skip when the character is another.          *)
(*                                                                         *)
(* A word is a sequence of characters.  Positions and spots are numbered   *)
(* from 1, keywords from 0 as in the code, where the sign of               *)
(* matchingStringIdx tells the two kinds of spots apart.                   *)
(***************************************************************************)
EXTENDS Integers, SequencesExt, FiniteSetsExt

CONSTANTS KeywordLists,   \* the lists of keywords SetKeywords is called with
          Inputs          \* the words that are looked up

\* solveMatchers does not return on a keyword that is given twice.
ASSUME KeywordsAssumption ==
    \A list \in KeywordLists : IsInjective(list) /\ \A i \in DOMAIN list : list[i] # <<>>

NotFound == -1

VARIABLES keywords,
          spotSelector,   \* length -> spots, for the lengths that occur
          input,          \* the word that is being looked up
          it,             \* the iterator of MatchSubstring, 0 before it starts
          matchIndex,
          pc

vars == <<keywords, spotSelector, input, it, matchIndex, pc>>

-----------------------------------------------------------------------------
(* SetKeywords and solveMatchers on a group: a sequence of candidates, each *)
(* with its index and what is left of its characters.                       *)

\* The different characters at position j, in the order of the candidates.
DiffChars(group, j) ==
    FoldLeft(LAMBDA seen, m : IF Contains(seen, m.word[j]) THEN seen
                              ELSE Append(seen, m.word[j]), <<>>, group)

\* The leftmost position with the most different characters.
BestPos(group) ==
    LET positions == DOMAIN group[1].word
        variety(j) == Len(DiffChars(group, j))
        most == {j \in positions : \A k \in positions : variety(k) <= variety(j)}
    IN  Min(most)

\* mutant: the group's own spot is skipped too.
SkipCountOneMore(part) == -(Len(part) + 1)
\* The spots to skip: as many as the group has keywords.
SkipCount(part) == -Len(part)

\* The tested character is written over before the group is split again.
Blanked(part, pos) == [i \in DOMAIN part |-> [part[i] EXCEPT !.word[pos] = "0"]]

RECURSIVE solveMatchers(_)
solveMatchers(group) ==
    LET pos == BestPos(group)
        chars == DiffChars(group, pos)
        part(c) == SelectSeq(group, LAMBDA m : m.word[pos] = c)
        spots(c) == IF Len(part(c)) = 1
                    THEN <<[pos |-> pos, char |-> c, idx |-> part(c)[1].idx]>>
                    ELSE <<[pos |-> pos, char |-> c, idx |-> SkipCount(part(c))]>>
                             \o solveMatchers(Blanked(part(c), pos))
    IN  FlattenSeq([k \in DOMAIN chars |-> spots(chars[k])])

\* mutant: the index of a keyword is its place among those of its length.
CandidatesRenumbered(list, size) ==
    LET ofSize == SelectSeq([i \in DOMAIN list |-> [idx |-> i - 1, word |-> list[i]]],
                            LAMBDA m : Len(m.word) = size)
    IN  [i \in DOMAIN ofSize |-> [ofSize[i] EXCEPT !.idx = i - 1]]
\* The keywords of one length, with their indices in the whole list.
Candidates(list, size) ==
    SelectSeq([i \in DOMAIN list |-> [idx |-> i - 1, word |-> list[i]]],
              LAMBDA m : Len(m.word) = size)

SetKeywords(list) ==
    [size \in {Len(list[i]) : i \in DOMAIN list} |-> solveMatchers(Candidates(list, size))]

-----------------------------------------------------------------------------
Init ==
    /\ keywords \in KeywordLists
    /\ spotSelector = SetKeywords(keywords)
    /\ input = <<>> /\ it = 0 /\ matchIndex = NotFound
    /\ pc = "idle"

\* The spots of the length of the input.
Spots == spotSelector[Len(input)]

\* MatchSubstring is called; without keywords of that length it returns false.
Call(word) ==
    /\ pc = "idle"
    /\ input' = word
    /\ matchIndex' = NotFound
    /\ IF Len(word) \in DOMAIN spotSelector
       THEN it' = 1 /\ pc' = "matching"
       ELSE it' = 0 /\ pc' = "idle"
    /\ UNCHANGED <<keywords, spotSelector>>

Agrees == Spots[it].char = input[Spots[it].pos]

\* The spot decides.
Decide ==
    /\ pc = "matching"
    /\ Agrees /\ Spots[it].idx >= 0
    /\ matchIndex' = Spots[it].idx
    /\ pc' = "idle"
    /\ UNCHANGED <<keywords, spotSelector, input, it>>

\* mutant: a group is not skipped.
NextSpotNoSkip == it + 1
\* The next spot; a group whose character is another is skipped.
NextSpot == it + 1 + (IF ~Agrees /\ Spots[it].idx < 0 THEN -Spots[it].idx ELSE 0)

\* ++it != end: the loop ends only if the iterator is at the end exactly.
Walk ==
    /\ pc = "matching"
    /\ ~(Agrees /\ Spots[it].idx >= 0)
    /\ it' = NextSpot
    /\ pc' = IF NextSpot = Len(Spots) + 1 THEN "idle" ELSE pc
    /\ UNCHANGED <<keywords, spotSelector, input, matchIndex>>

Match == Decide \/ Walk
Next == Match \/ \E word \in Inputs : Call(word)

Spec == Init /\ [][Next]_vars

-----------------------------------------------------------------------------
\* Every variable stays in its type.  In particular the iterator stays inside
\* the list, however groups are nested and skipped: the loop compares it with
\* the end for equality only.
TypeOK ==
    /\ DOMAIN spotSelector = {Len(keywords[i]) : i \in DOMAIN keywords}
    /\ \A size \in DOMAIN spotSelector : \A s \in Range(spotSelector[size]) :
           s.pos \in 1 .. size /\ s.idx < Len(keywords)
    /\ pc \in {"idle", "matching"}
    /\ matchIndex \in -1 .. (Len(keywords) - 1)
    /\ pc = "matching" => it \in DOMAIN Spots

Ready == pc = "idle" /\ input # <<>>

\* No group of this length lies inside another one.
Flat(size) ==
    LET spots == spotSelector[size]
    IN  \A i \in DOMAIN spots : spots[i].idx < 0 =>
            \A j \in (i + 1) .. (i - spots[i].idx) : spots[j].idx >= 0

\* A keyword is found, and found as itself: each command of the server leads
\* to its own request type.  (Inside nested groups the skip counts of
\* solveMatchers are too small and another keyword may be found.)
KeywordFound ==
    \A i \in DOMAIN keywords :
        Ready /\ input = keywords[i] /\ Flat(Len(input)) => matchIndex = i - 1

\* The decision tree the list stands for: split the candidates at the best
\* position until one or none is left.
RECURSIVE Tree(_, _)
Tree(group, word) ==
    LET pos == BestPos(group)
        part == SelectSeq(group, LAMBDA m : m.word[pos] = word[pos])
    IN  CASE Len(part) = 0 -> NotFound
          [] Len(part) = 1 -> part[1].idx
          [] OTHER         -> Tree(part, word)

\* The walk over the list of spots decides for every word, keyword or not, as
\* the tree does: in particular a word that leaves the tree inside a group is
\* not picked up by the spots behind it.
DecidesAsTree ==
    LET size == Len(input)
    IN  /\ Ready /\ size \notin DOMAIN spotSelector => matchIndex = NotFound
        /\ Ready /\ size \in DOMAIN spotSelector /\ Flat(size) =>
               matchIndex = Tree(Candidates(keywords, size), input)
=============================================================================
