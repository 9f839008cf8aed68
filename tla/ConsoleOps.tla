----------------------------- MODULE ConsoleOps -----------------------------
(***************************************************************************)
(* The text console of hal/console.c as operators on its static state.     *)
(* The state is one record, called c:                                      *)
(*   col, row     vcol and vrow                                            *)
(*   attr         vbg, vfg, reverse, bright and conceal                    *)
(*   escaped, buffer, pos           the escape sequence being read         *)
(*   saved_col, saved_row           the cursor position saved by ESC [ s   *)
(*   vram, cursor                   the cells and the hardware cursor      *)
(* A character is a one-letter string, or "ESC", "NL", "TAB" or "BS".      *)
(***************************************************************************)
EXTENDS Integers, Sequences

CONSTANTS VROWS, VCOLS

\* Rows and columns are int8_t, and the line has room for a tab stop.
ASSUME ScreenAssumption == VROWS \in 2 .. 127 /\ VCOLS \in 2 .. 127

VROW_MAX == VROWS - 1
VCOL_MAX == VCOLS - 1
TAB_WIDTH == 4

Cells == 0 .. VROWS * VCOLS - 1
Digits == {"0", "1", "2", "3", "4", "5", "6", "7", "8", "9"}
Digit == [d \in Digits |->
  CASE d = "0" -> 0 [] d = "1" -> 1 [] d = "2" -> 2 [] d = "3" -> 3
    [] d = "4" -> 4 [] d = "5" -> 5 [] d = "6" -> 6 [] d = "7" -> 7
    [] d = "8" -> 8 [] d = "9" -> 9]

\* The value an int8_t keeps of n.
int8(n) == ((n + 128) % 256) - 128

Smaller(m, n) == IF m < n THEN m ELSE n

VPOS(x, y) == y * VCOLS + x

BLACK == 0
LGRAY == 7
WHITE == 15

PlainAttr == [bg |-> BLACK, fg |-> WHITE, reverse |-> FALSE, bright |-> FALSE,
              conceal |-> FALSE]

SPACE == " "

\* VBLANK.
Blank == [ch |-> SPACE, bg |-> BLACK, fg |-> WHITE]

NoParams == [i \in 0 .. 15 |-> 0]

Console0 ==
  [col |-> 0, row |-> 0, attr |-> PlainAttr,
   escaped |-> "NONE", buffer |-> [NoParams EXCEPT ![0] = -1], pos |-> 0,
   saved_col |-> -1, saved_row |-> -1,
   vram |-> [i \in Cells |-> Blank], cursor |-> 0]

(***************************************************************************)
(* The cursor.                                                             *)
(***************************************************************************)
\* Mutant of console_setcursor: the row is not limited.
console_setcursor_NoRowLimit(c, col, row) ==
  LET x == IF int8(col) >= 0 THEN int8(col) ELSE c.col
      y == IF int8(row) >= 0 THEN int8(row) ELSE c.row
  IN  [c EXCEPT !.col = Smaller(x, VCOL_MAX), !.row = y,
                !.cursor = VPOS(Smaller(x, VCOL_MAX), y)]

\* A negative coordinate stands for the current one.
console_setcursor(c, col, row) ==
  LET x == IF int8(col) >= 0 THEN int8(col) ELSE c.col
      y == IF int8(row) >= 0 THEN int8(row) ELSE c.row
  IN  [c EXCEPT !.col = Smaller(x, VCOL_MAX), !.row = Smaller(y, VROW_MAX),
                !.cursor = VPOS(Smaller(x, VCOL_MAX), Smaller(y, VROW_MAX))]

\* The coordinates as console_setcursor stores them, before it limits them.
StoreCursor(c, col, row) ==
  [c EXCEPT !.col = IF int8(col) >= 0 THEN int8(col) ELSE @,
            !.row = IF int8(row) >= 0 THEN int8(row) ELSE @]

console_mvcursor(c, amount) ==
  LET p == VPOS(c.col, c.row) + amount
      q == IF p < 0 THEN 0 ELSE p
  IN  console_setcursor([c EXCEPT !.col = q % VCOLS, !.row = q \div VCOLS],
                        -1, -1)

(***************************************************************************)
(* Clearing and scrolling.                                                 *)
(***************************************************************************)
BlankCells(c, S) == [c EXCEPT !.vram = [i \in Cells |->
                                          IF i \in S THEN Blank ELSE @[i]]]

console_clear(c, amount) ==
  CASE amount = "ALL"    -> console_setcursor(BlankCells(c, Cells), 0, 0)
    [] amount = "BEFORE" -> BlankCells(c, 0 .. c.row * c.col - 1)
    [] amount = "AFTER"  -> BlankCells(c, c.row * c.col .. -1)

console_clearln(c, amount) ==
  LET InRow(cols) == {VPOS(x, c.row) : x \in cols}
  IN  CASE amount = "ALL" ->
             console_setcursor(BlankCells(c, InRow(0 .. VCOL_MAX)), 0, c.row)
        [] amount = "BEFORE" -> BlankCells(c, InRow(0 .. c.col - 1))
        [] amount = "AFTER"  -> BlankCells(c, InRow(c.col .. VCOL_MAX))

\* Mutant of console_scroll: the last line is kept when scrolling up.
console_scroll_KeepsLast(c, amount) ==
  LET Up == [i \in Cells |->
               IF i <= VPOS(VCOL_MAX, VROW_MAX - amount)
               THEN c.vram[i + VCOLS * amount] ELSE c.vram[i]]
  IN  IF amount > 0
      THEN console_setcursor([c EXCEPT !.vram = Up], 0, VROW_MAX)
      ELSE c

console_scroll(c, amount) ==
  LET Up == [i \in Cells |->
               IF i <= VPOS(VCOL_MAX, VROW_MAX - amount)
               THEN c.vram[i + VCOLS * amount] ELSE Blank]
      Down == [i \in Cells |->
                 IF i > VPOS(VCOL_MAX, -amount - 1)
                 THEN c.vram[i + VCOLS * amount] ELSE Blank]
  IN  IF amount > 0
      THEN console_setcursor([c EXCEPT !.vram = Up], 0, VROW_MAX)
      ELSE IF amount < 0
      THEN console_setcursor([c EXCEPT !.vram = Down], 0, 0)
      ELSE c

(***************************************************************************)
(* Escape sequences: proc_escape.                                          *)
(***************************************************************************)
\* The colors that the last digit of 30..37 and 40..47 selects.
Color == <<0, 4, 2, 6, 1, 5, 3, 7>>

\* One parameter of ESC [ ... m.
SetGraphics(a, n) ==
  CASE n = 0  -> PlainAttr
    [] n = 1  -> [a EXCEPT !.bright = TRUE]
    [] n = 2  -> [a EXCEPT !.bright = FALSE]
    [] n = 7  -> [a EXCEPT !.reverse = TRUE]
    [] n = 8  -> [a EXCEPT !.conceal = TRUE]
    [] n = 27 -> [a EXCEPT !.reverse = FALSE]
    [] n = 28 -> [a EXCEPT !.conceal = FALSE]
    [] n \in 30 .. 37 -> [a EXCEPT !.fg = Color[n - 29]]
    [] n \in 40 .. 47 -> [a EXCEPT !.bg = Color[n - 39]]
    [] OTHER -> a

\* All of them, in order.
Graphics(a, buffer, pos) ==
  LET attr[i \in 0 .. pos + 1] ==
        IF i = 0 THEN a ELSE LET b == attr[i - 1] IN SetGraphics(b, buffer[i - 1])
  IN  attr[pos + 1]

\* Mutant of SaveCursor: the row is not saved.
SaveCursor_ColOnly(c) == [c EXCEPT !.saved_col = c.col]

SaveCursor(c) == [c EXCEPT !.saved_col = c.col, !.saved_row = c.row]

\* A saved position is used once; the hardware cursor is not moved.
RestoreCursor(c) ==
  [c EXCEPT !.col = IF c.saved_col >= 0 THEN c.saved_col ELSE c.col,
            !.row = IF c.saved_row >= 0 THEN c.saved_row ELSE c.row,
            !.saved_col = -1, !.saved_row = -1]

\* ESC [ J and ESC [ K select what they erase.
EraseAmount(n) == CASE n = 2 -> "ALL" [] n = 1 -> "BEFORE" [] OTHER -> "AFTER"

Finals == {"A", "B", "C", "D", "E", "F", "G", "H", "f", "J", "K", "S", "T",
           "s", "u", "m"}

\* The letters that move the cursor, and the column and row they ask for.  A
\* relative move is by the first parameter, or by 1 if that is negative; a
\* position counts from 1.
Moves == {"A", "B", "C", "D", "E", "F", "G", "H", "f"}
Amount(c) == IF c.buffer[0] < 0 THEN 1 ELSE c.buffer[0]
Coord(c, i) == IF c.buffer[i] <= 0 THEN 0 ELSE c.buffer[i] - 1

MoveCol(c, ch) ==
  CASE ch \in {"A", "B"} -> c.col
    [] ch = "C" -> c.col + Amount(c)
    [] ch = "D" -> c.col - Amount(c)
    [] ch \in {"E", "F"} -> 0
    [] ch = "G" -> c.buffer[0]
    [] ch \in {"H", "f"} -> Coord(c, 1)
MoveRow(c, ch) ==
  CASE ch \in {"A", "F"} -> c.row - Amount(c)
    [] ch \in {"B", "E"} -> c.row + Amount(c)
    [] ch \in {"C", "D", "G"} -> c.row
    [] ch \in {"H", "f"} -> Coord(c, 0)

\* What the letter that ends a sequence does.
Perform(c, ch) ==
  CASE ch \in Moves -> console_setcursor(c, MoveCol(c, ch), MoveRow(c, ch))
    [] ch = "J" -> console_clear(c, EraseAmount(c.buffer[0]))
    [] ch = "K" -> console_clearln(c, EraseAmount(c.buffer[0]))
    [] ch = "S" -> console_scroll(c, Amount(c))
    [] ch = "T" -> console_scroll(c, -Amount(c))
    [] ch = "s" -> SaveCursor(c)
    [] ch = "u" -> RestoreCursor(c)
    [] ch = "m" -> [c EXCEPT !.attr = Graphics(@, c.buffer, c.pos)]

\* Nothing limits pos: after 16 parameters a digit, or the letter m, is for
\* memory outside the buffer.
Overruns(c, ch) == c.escaped = "READ" /\ c.pos > 15 /\ ch \in Digits \union {"m"}

\* A digit appended to the parameter being read.
Accumulate(c, d) ==
  [c EXCEPT !.buffer[c.pos] = IF @ < 0 THEN Digit[d]
                              ELSE int8(@ * 10 + Digit[d])]

\* A sequence has ended or is in error.
EndEscape(c) ==
  [c EXCEPT !.escaped = "NONE", !.buffer = NoParams, !.pos = 0]

proc_escape(c, ch) ==
  CASE c.escaped = "START" /\ ch = "[" -> [c EXCEPT !.escaped = "READ"]
    [] c.escaped = "READ" /\ ch \in Finals -> EndEscape(Perform(c, ch))
    [] c.escaped = "READ" /\ ch = ";" -> [c EXCEPT !.pos = @ + 1]
    [] c.escaped = "READ" /\ ch \in Digits -> Accumulate(c, ch)
    [] OTHER -> EndEscape(c)

(***************************************************************************)
(* console_write in pieces: what it does between two points at which an    *)
(* interrupt matters.                                                      *)
(***************************************************************************)
Controls == {"ESC", "NL", "TAB", "BS"}
isprint(ch) == ch \notin Controls

StartEscape(c) ==
  console_setcursor([c EXCEPT !.escaped = "START"], c.col, c.row)

\* The cell for character ch: reverse swaps the colors, bright sets the
\* foreground's high bit.
Cell(a, ch) ==
  LET fg == IF a.reverse THEN a.bg ELSE a.fg
      bg == IF a.reverse THEN a.fg ELSE a.bg
  IN  [ch |-> ch, bg |-> bg,
       fg |-> IF a.bright /\ fg < 8 THEN fg + 8 ELSE fg]

\* An address outside the cells is refused, or not shown.
PutCell(c, ch) ==
  IF VPOS(c.col, c.row) \in Cells
  THEN [c EXCEPT !.vram[VPOS(c.col, c.row)] = Cell(c.attr, ch)]
  ELSE c
NextCol(c) == [c EXCEPT !.col = int8(@ + 1)]

\* Mutant of LineEnds: the line is one column too long.
LineEnds_OffByOne(c) == c.col > VCOLS

LineEnds(c) == c.col > VCOL_MAX
NextLine(c) == [c EXCEPT !.col = 0, !.row = int8(@ + 1)]

\* Scrolls if the row has left the screen, and shows the cursor.
ShowLine(c) ==
  LET d == IF c.row > VROW_MAX
           THEN [console_scroll(c, 1) EXCEPT !.row = VROW_MAX] ELSE c
  IN  console_setcursor(d, d.col, d.row)

\* A column left of the screen has a negative remainder.
TabCount(c) ==
  TAB_WIDTH - (IF c.col < 0 THEN -((-c.col) % TAB_WIDTH) ELSE c.col % TAB_WIDTH)

\* A printable character, uninterrupted.
WritePrintable(c, ch) ==
  LET d == NextCol(PutCell(c, ch))
  IN  IF LineEnds(d) THEN ShowLine(NextLine(d)) ELSE d

\* The spaces of a tab: none once a space has wrapped the line.
WriteTab(c) ==
  LET tab[i \in 0 .. TAB_WIDTH] ==
        IF i = 0 THEN c
        ELSE LET d == tab[i - 1]
             IN  IF i > 1 /\ d.col = 0 THEN d ELSE WritePrintable(d, SPACE)
  IN  tab[TabCount(c)]

\* A character that is neither part of an escape sequence nor concealed.
WriteChar(c, ch) ==
  IF ch = "NL" THEN ShowLine(NextLine(c))
  ELSE IF ch = "TAB" THEN WriteTab(c)
  ELSE IF isprint(ch) THEN WritePrintable(c, ch)
  ELSE c

\* console_write, uninterrupted.
console_write(c, ch) ==
  IF c.escaped # "NONE" THEN proc_escape(c, ch)
  ELSE IF ch = "ESC" THEN StartEscape(c)
  ELSE IF c.attr.conceal THEN c
  ELSE WriteChar(c, ch)

\* printf: the string s, uninterrupted.
WriteString(c, s) ==
  LET written[n \in 0 .. Len(s)] ==
        IF n = 0 THEN c ELSE LET d == written[n - 1] IN console_write(d, s[n])
  IN  written[Len(s)]
=============================================================================
