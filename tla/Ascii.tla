------------------------------- MODULE Ascii --------------------------------
(***************************************************************************)
(* Strings as sequences of octets, for the modules that look inside them:  *)
(* the printable characters and the two that end a line.                   *)
(***************************************************************************)
EXTENDS Integers, Sequences, SequencesExt

\* A string of TLA+ cannot hold the back quote: a tab stands in its place.
Printable ==
    " !\"#$%&'()*+,-./0123456789:;<=>?@ABCDEFGHIJKLMNOPQRSTUVWXYZ[\\]^_"
    \o "\tabcdefghijklmnopqrstuvwxyz{|}~"

Char(s, i) == SubSeq(s, i, i)

Chars == {Char(Printable, i) : i \in 1..Len(Printable)} \cup {"\r", "\n"}

\* The code of a character, and the character of a code.
Ord ==
    [c \in Chars |-> IF c = "\n" THEN 10 ELSE IF c = "\r" THEN 13
                     ELSE CHOOSE n \in 32..126 : Char(Printable, n - 31) = c]

Chr(n) == IF n = 10 THEN "\n" ELSE IF n = 13 THEN "\r" ELSE Char(Printable, n - 31)

Octets(s) == [i \in 1..Len(s) |-> Ord[Char(s, i)]]
Text(octets) == FoldLeft(LAMBDA s, n : s \o Chr(n), "", octets)

=============================================================================
