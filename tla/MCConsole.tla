----------------------------- MODULE MCConsole -----------------------------
(* Two lines of eight characters; strings that reach every edge of them,   *)
(* and lines a user may type: moves, saved cursors, erasures, text with a  *)
(* sequence in it, and more parameters than the parser has room for.       *)
EXTENDS Console

None == {}
Words == {<<"a", "b", "c">>, <<"NL">>, <<"TAB">>}
SetRed == {<<"ESC", "[", "3", "1", "m">>}
TypedKeys == {"d", "BS"}
TypedMoves == {<<"ESC", "[", "9", "B">>, <<"ESC", "[", "9", "0", "C">>,
               <<"ESC", "[", "2", ";", "5", "H">>, <<"ESC", "[", "A">>,
               <<"a", "ESC", "[", "s">>, <<"ESC", "[", "u">>,
               <<"ESC", "[", "8", "m">>}
Erasures == {<<"ESC", "[", "2", "J">>, <<"ESC", "[", "1", "K">>,
             <<"ESC", "[", "S">>, <<"ESC", "[", "1", "T">>}
TooMany == <<"ESC", "[">> \o [i \in 1 .. 16 |-> ";"] \o <<"1", "m">>
TypedLines == TypedMoves \union Erasures \union {TooMany}
=============================================================================
