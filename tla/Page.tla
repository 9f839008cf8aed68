-------------------------------- MODULE Page --------------------------------
(***************************************************************************)
(* What the console shows, without its screen: text on a page that is      *)
(* never scrolled.  A page is a record of                                  *)
(*   cells  the characters written, in reading order, one line after the   *)
(*          other, each VCOLS long                                         *)
(*   at     the position the next character is written at                  *)
(*   top    the first line on the screen                                   *)
(* Moving past the last line of the screen moves the screen down the page. *)
(***************************************************************************)
EXTENDS Integers, Sequences

CONSTANTS VROWS, VCOLS, TabWidth

SPACE == " "

EmptyPage == [cells |-> <<>>, at |-> 0, top |-> 0]

\* The character at position i of the page.
CharAt(page, i) == IF i < Len(page.cells) THEN page.cells[i + 1] ELSE SPACE

Larger(m, n) == IF m > n THEN m ELSE n

\* The page with the next position at p.
MoveTo(page, p) ==
  [page EXCEPT !.at = p, !.top = Larger(@, p \div VCOLS - (VROWS - 1))]

Put(page, p, ch) ==
  [page EXCEPT !.cells = [i \in 1 .. Larger(Len(@), p + 1) |->
                            IF i = p + 1 THEN ch ELSE CharAt(page, i - 1)]]

\* The first position after p that starts a group of n.
NextMultiple(p, n) == (p \div n + 1) * n

\* A tab writes spaces up to the next tab stop.
Blanks(page, n) ==
  [page EXCEPT !.cells = [i \in 1 .. Larger(Len(@), page.at + n) |->
                            IF i > page.at /\ i <= page.at + n
                            THEN SPACE ELSE CharAt(page, i - 1)]]

Write(page, ch) ==
  CASE ch = "NL"  -> MoveTo(page, NextMultiple(page.at, VCOLS))
    [] ch = "TAB" -> LET stop == NextMultiple(page.at, TabWidth)
                     IN  MoveTo(Blanks(page, stop - page.at), stop)
    [] OTHER      -> MoveTo(Put(page, page.at, ch), page.at + 1)

\* One character after the other.
WriteAll(page, chars) ==
  LET after[n \in 0 .. Len(chars)] ==
        IF n = 0 THEN page ELSE LET p == after[n - 1] IN Write(p, chars[n])
  IN  after[Len(chars)]

\* A backspace blanks the character before the position, and stops at the top
\* of the screen.
Backspace(page) ==
  LET p == Larger(page.at - 1, page.top * VCOLS)
  IN  MoveTo(Put(page, p, SPACE), p)

\* The characters on the screen, and the cursor's offset in it.
Shown(page) == [i \in 0 .. VROWS * VCOLS - 1 |->
                  CharAt(page, page.top * VCOLS + i)]
Offset(page) == page.at - page.top * VCOLS
=============================================================================
