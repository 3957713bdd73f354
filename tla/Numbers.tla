------------------------------- MODULE Numbers -------------------------------
(***************************************************************************)
(* The conversions of Common.cpp between numbers and numerals.  A numeral  *)
(* is the sequence of its digits, the most significant first.  The code's  *)
(* radix is 10; a smaller one gives small numbers several digits.          *)
(***************************************************************************)
EXTENDS Integers, SequencesExt, FiniteSetsExt

CONSTANTS Radix,
          SizeRange     \* size_t and uint64_t are arithmetic modulo this number

ASSUME NumbersAssumption ==
    /\ Radix \in Nat /\ Radix > 1
    /\ SizeRange \in Nat /\ SizeRange > 0

\* The digits of v, the least significant first: itoa's division loop, which
\* runs once for 0.
LowFirst[v \in Nat] ==
    <<v % Radix>> \o (IF v \div Radix = 0 THEN <<>> ELSE LowFirst[v \div Radix])

\* The digits are swapped at the end.
itoa(v) == Reverse(LowFirst[v])

\* The switch on the length of a numeral, each case falling through to the
\* next: without a case for its length a numeral counts as 0.
Converted(digits, longest) ==
    IF Len(digits) \in 1 .. longest
    THEN FoldLeft(LAMBDA v, d : v * Radix + d, 0, digits) ELSE 0

atous(digits) == Converted(digits, 5) % 65536
atoull(digits) == Converted(digits, 20) % SizeRange

\* What a numeral means: the sum of its digits by their places.
NumberOf(digits) ==
    MapThenSumSet(LAMBDA i : digits[i] * Radix ^ (Len(digits) - i), DOMAIN digits)
=============================================================================
