----------------------------- MODULE TextBuffer -----------------------------
(* What a text editor promises: a text in which every line ends with a      *)
(* newline, a point between two of its characters, and edits at the point.  *)
(* The newline that ends the text cannot be deleted.                        *)
EXTENDS Naturals, Sequences, SequencesExt

CONSTANTS Chars, NL

VARIABLES text, point

vars == <<text, point>>

Init == text \in Seq(Chars \cup {NL}) /\ point = 0

\* A character typed behind the last line starts a new one.
Type(c) ==
    /\ text' = IF point = Len(text) THEN text \o <<c, NL>> ELSE InsertAt(text, point + 1, c)
    /\ point' = point + 1

Enter == text' = InsertAt(text, point + 1, NL) /\ point' = point + 1

\* The text without its k-th character, unless that is the final newline.
Without(k) == IF k < Len(text) THEN RemoveAt(text, k) ELSE text

Delete == text' = Without(point + 1) /\ UNCHANGED point

Backspace == point > 0 /\ text' = Without(point) /\ point' = point - 1

Move == point' \in 0 .. Len(text) /\ UNCHANGED text

Next == (\E c \in Chars : Type(c)) \/ Enter \/ Delete \/ Backspace \/ Move

Spec == Init /\ [][Next]_vars
=============================================================================
