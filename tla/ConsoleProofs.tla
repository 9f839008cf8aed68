--------------------------- MODULE ConsoleProofs ---------------------------
(***************************************************************************)
(* Proofs about module Console, for every screen, every text and every     *)
(* escape sequence.                                                        *)
(***************************************************************************)
EXTENDS Console, CommonLemmas

USE ScreenAssumption DEF VROW_MAX, VCOL_MAX

Fields == {"col", "row", "attr", "escaped", "buffer", "pos", "saved_col",
           "saved_row", "vram", "cursor"}

IsConsole(c) == c = [f \in Fields |-> c[f]]

\* What the buffer of parameters holds when no sequence is being read.
Cleared == {NoParams, [NoParams EXCEPT ![0] = -1]}

\* The static variables of console.c: their ranges at any moment, and the
\* parser's state when it reads no parameters.
Sane(c) ==
  /\ IsConsole(c)
  /\ c.col \in 0 .. VCOLS /\ c.row \in 0 .. VROWS
  /\ c.attr \in Attrs
  /\ c.escaped \in {"NONE", "START", "READ"}
  /\ c.buffer \in [0 .. 15 -> -128 .. 127] /\ c.pos \in Nat
  /\ c.escaped # "READ" => c.pos = 0 /\ c.buffer \in Cleared
  /\ c.saved_col \in -1 .. VCOL_MAX /\ c.saved_row \in -1 .. VROW_MAX
  /\ c.vram = [i \in Cells |-> c.vram[i]]
  /\ c.cursor \in Cells

OnScreen(c) == c.col <= VCOL_MAX /\ c.row <= VROW_MAX

LEMMA BufferTyped ==
  ASSUME NEW c, Sane(c)
  PROVE  \A i \in 0 .. 15 : c.buffer[i] \in -128 .. 127
<1>1. c.buffer \in [0 .. 15 -> -128 .. 127]
  BY DEF Sane
<1> QED BY SMTT(20), <1>1

(***************************************************************************)
(* The cells of the screen.                                                *)
(***************************************************************************)
LEMMA CellOfPlace ==
  ASSUME NEW x \in 0 .. VCOL_MAX, NEW y \in 0 .. VROW_MAX
  PROVE  VPOS(x, y) \in Cells
<1>1. y * VCOLS <= VROW_MAX * VCOLS
  OBVIOUS
<1>2. VROW_MAX * VCOLS + VCOLS = VROWS * VCOLS
  OBVIOUS
<1>3. 0 <= y * VCOLS
  OBVIOUS
<1>4. y * VCOLS \in Int /\ VROWS * VCOLS \in Int /\ VROW_MAX * VCOLS \in Int
  OBVIOUS
<1> QED BY <1>1, <1>2, <1>3, <1>4 DEF VPOS, Cells

\* An offset in the screen is in one of its columns and one of its rows.
LEMMA DivideBelow ==
  ASSUME NEW q \in 0 .. VROWS * VCOLS - 1
  PROVE  q % VCOLS \in 0 .. VCOL_MAX /\ q \div VCOLS \in 0 .. VROW_MAX
<1>0. VROWS * VCOLS \in Int /\ q \in Nat
  OBVIOUS
<1>1. /\ q % VCOLS \in 0 .. VCOL_MAX /\ q \div VCOLS \in Nat
      /\ q = VCOLS * (q \div VCOLS) + (q % VCOLS)
  BY <1>0
<1>2. ~(q \div VCOLS >= VROWS)
  <2> SUFFICES ASSUME q \div VCOLS >= VROWS PROVE FALSE
    OBVIOUS
  <2>1. VCOLS * (q \div VCOLS) >= VCOLS * VROWS
    BY <1>1
  <2> QED BY <1>0, <1>1, <2>1
<1> QED BY <1>1, <1>2

\* int8 narrows to eight bits, and changes nothing that fits in them.
LEMMA Narrow ==
  ASSUME NEW n \in Int
  PROVE  int8(n) \in -128 .. 127 /\ (n \in -128 .. 127 => int8(n) = n)
BY SMTT(20) DEF int8

\* The cursor put at a place on the screen.
PlacedAt(c, x, y) == [c EXCEPT !.col = x, !.row = y, !.cursor = VPOS(x, y)]

LEMMA PlacedSane ==
  ASSUME NEW c, Sane(c), NEW x \in 0 .. VCOL_MAX, NEW y \in 0 .. VROW_MAX
  PROVE  /\ Sane(PlacedAt(c, x, y)) /\ OnScreen(PlacedAt(c, x, y))
         /\ PlacedAt(c, x, y).col = x /\ PlacedAt(c, x, y).row = y
         /\ \A f \in Fields \ {"col", "row", "cursor"} : PlacedAt(c, x, y)[f] = c[f]
<1> DEFINE d == PlacedAt(c, x, y)
<1>1. /\ IsConsole(d) /\ d.col = x /\ d.row = y /\ d.cursor = VPOS(x, y)
      /\ d.attr = c.attr /\ d.escaped = c.escaped /\ d.buffer = c.buffer
      /\ d.pos = c.pos /\ d.saved_col = c.saved_col /\ d.saved_row = c.saved_row
      /\ d.vram = c.vram
      /\ \A f \in Fields \ {"col", "row", "cursor"} : d[f] = c[f]
  BY DEF Sane, IsConsole, Fields, PlacedAt
<1> HIDE DEF d
<1>2. d.cursor \in Cells
  BY <1>1, CellOfPlace
<1>3. OnScreen(d)
  BY <1>1 DEF OnScreen
<1>4. Sane(d)
  BY <1>1, <1>2 DEF Sane
<1> QED BY <1>1, <1>3, <1>4 DEF d

\* console_setcursor puts the cursor at a place on the screen, and changes
\* nothing else: at the place asked for when that is on the screen.
LEMMA SetCursorPlaces ==
  ASSUME NEW c, Sane(c), NEW col \in Int, NEW row \in Int
  PROVE  \E x \in 0 .. VCOL_MAX, y \in 0 .. VROW_MAX :
           /\ console_setcursor(c, col, row) = PlacedAt(c, x, y)
           /\ col \in 0 .. VCOL_MAX => x = col
           /\ row \in 0 .. VROW_MAX => y = row
           /\ col < 0 /\ col >= -128 /\ c.col <= VCOL_MAX => x = c.col
           /\ row < 0 /\ row >= -128 /\ c.row <= VROW_MAX => y = c.row
<1> DEFINE x == IF int8(col) >= 0 THEN int8(col) ELSE c.col
           y == IF int8(row) >= 0 THEN int8(row) ELSE c.row
<1>1. c.col \in 0 .. VCOLS /\ c.row \in 0 .. VROWS
  BY DEF Sane
<1>2. int8(col) \in Int /\ int8(row) \in Int
  BY Narrow
<1>3. /\ col \in -128 .. 127 => int8(col) = col
      /\ row \in -128 .. 127 => int8(row) = row
  BY Narrow
<1>4. x \in Nat /\ y \in Nat
  BY <1>1, <1>2
<1>5. console_setcursor(c, col, row)
        = PlacedAt(c, Smaller(x, VCOL_MAX), Smaller(y, VROW_MAX))
  BY DEF console_setcursor, PlacedAt
<1>6. /\ Smaller(x, VCOL_MAX) \in 0 .. VCOL_MAX
      /\ Smaller(y, VROW_MAX) \in 0 .. VROW_MAX
  <2> HIDE DEF x, y
  <2> QED BY <1>4 DEF Smaller
<1>7. /\ col \in 0 .. VCOL_MAX => x = col
      /\ row \in 0 .. VROW_MAX => y = row
      /\ col < 0 /\ col >= -128 => x = c.col
      /\ row < 0 /\ row >= -128 => y = c.row
  BY <1>2, <1>3
<1> HIDE DEF x, y
<1>8. /\ x <= VCOL_MAX => Smaller(x, VCOL_MAX) = x
      /\ y <= VROW_MAX => Smaller(y, VROW_MAX) = y
  BY <1>4 DEF Smaller
<1> QED BY <1>5, <1>6, <1>7, <1>8

LEMMA SetCursorSane ==
  ASSUME NEW c, Sane(c), NEW col \in Int, NEW row \in Int
  PROVE  /\ Sane(console_setcursor(c, col, row))
         /\ OnScreen(console_setcursor(c, col, row))
BY SetCursorPlaces, PlacedSane

\* The column and the row changed, and the hardware cursor left alone.
MovedTo(c, x, y) == [c EXCEPT !.col = x, !.row = y]

LEMMA Moved ==
  ASSUME NEW c, Sane(c), NEW x \in 0 .. VCOLS, NEW y \in 0 .. VROWS
  PROVE  /\ Sane(MovedTo(c, x, y))
         /\ MovedTo(c, x, y).col = x
         /\ MovedTo(c, x, y).row = y
         /\ \A f \in Fields \ {"col", "row"} : MovedTo(c, x, y)[f] = c[f]
<1> DEFINE d == MovedTo(c, x, y)
<1>1. /\ IsConsole(d) /\ d.col = x /\ d.row = y /\ d.cursor = c.cursor
      /\ d.attr = c.attr /\ d.escaped = c.escaped /\ d.buffer = c.buffer
      /\ d.pos = c.pos /\ d.saved_col = c.saved_col /\ d.saved_row = c.saved_row
      /\ d.vram = c.vram /\ \A f \in Fields \ {"col", "row"} : d[f] = c[f]
  BY DEF Sane, IsConsole, Fields, MovedTo
<1> HIDE DEF d
<1>2. Sane(d)
  BY <1>1 DEF Sane
<1> QED BY SMTT(20), <1>1, <1>2 DEF d

LEMMA MoveCursorSane ==
  ASSUME NEW c, Sane(c), OnScreen(c), NEW amount \in Int, amount <= 0
  PROVE  Sane(console_mvcursor(c, amount)) /\ OnScreen(console_mvcursor(c, amount))
<1> DEFINE p == VPOS(c.col, c.row) + amount
           q == IF p < 0 THEN 0 ELSE p
           d == MovedTo(c, q % VCOLS, q \div VCOLS)
<1>1. c.col \in 0 .. VCOL_MAX /\ c.row \in 0 .. VROW_MAX
  BY DEF Sane, OnScreen
<1>2. VPOS(c.col, c.row) \in 0 .. VROWS * VCOLS - 1
  BY <1>1, CellOfPlace DEF Cells
<1>3. VROWS * VCOLS \in Int
  OBVIOUS
<1>4. q \in 0 .. VROWS * VCOLS - 1
  <2> DEFINE v == VPOS(c.col, c.row)  n == VROWS * VCOLS
  <2> HIDE DEF v, n
  <2>1. v \in 0 .. n - 1 /\ n \in Int
    BY <1>2, <1>3 DEF v, n
  <2>2. q = IF v + amount < 0 THEN 0 ELSE v + amount
    BY DEF v
  <2> QED BY <2>1, <2>2 DEF n
<1> HIDE DEF q
<1>5. q % VCOLS \in 0 .. VCOLS /\ q \div VCOLS \in 0 .. VROWS
  <2>1. q % VCOLS \in 0 .. VCOL_MAX /\ q \div VCOLS \in 0 .. VROW_MAX
    BY <1>4, DivideBelow
  <2> QED BY <2>1
<1>6. Sane(d)
  BY <1>5, Moved
<1>7. console_mvcursor(c, amount) = console_setcursor(d, -1, -1)
  BY DEF console_mvcursor, q, MovedTo
<1> HIDE DEF d
<1> QED BY <1>6, <1>7, SetCursorSane

(***************************************************************************)
(* Erasing and scrolling keep the console sane and its cursor on the       *)
(* screen.                                                                 *)
(***************************************************************************)
\* The cells replaced, whatever by.
WithCells(c, v) == [c EXCEPT !.vram = v]

LEMMA CellsReplaced ==
  ASSUME NEW c, Sane(c), NEW v, v = [i \in Cells |-> v[i]]
  PROVE  /\ Sane(WithCells(c, v))
         /\ OnScreen(c) => OnScreen(WithCells(c, v))
         /\ WithCells(c, v).vram = v
         /\ \A f \in Fields \ {"vram"} : WithCells(c, v)[f] = c[f]
<1> DEFINE d == WithCells(c, v)
<1>1. /\ IsConsole(d) /\ d.col = c.col /\ d.row = c.row /\ d.cursor = c.cursor
      /\ d.attr = c.attr /\ d.escaped = c.escaped /\ d.buffer = c.buffer
      /\ d.pos = c.pos /\ d.saved_col = c.saved_col /\ d.saved_row = c.saved_row
      /\ d.vram = v /\ \A f \in Fields \ {"vram"} : d[f] = c[f]
  BY DEF Sane, IsConsole, Fields, WithCells
<1> HIDE DEF d
<1>2. Sane(d)
  BY <1>1 DEF Sane
<1>3. OnScreen(c) => OnScreen(d)
  BY <1>1 DEF OnScreen
<1> QED BY SMTT(20), <1>1, <1>2, <1>3 DEF d

LEMMA BlankSane ==
  ASSUME NEW c, Sane(c), NEW S
  PROVE  /\ Sane(BlankCells(c, S))
         /\ OnScreen(c) => OnScreen(BlankCells(c, S))
<1> DEFINE v == [i \in Cells |-> IF i \in S THEN Blank ELSE c.vram[i]]
<1>1. BlankCells(c, S) = WithCells(c, v)
  BY DEF BlankCells, WithCells
<1>2. v = [i \in Cells |-> v[i]]
  OBVIOUS
<1> HIDE DEF v
<1> QED BY <1>1, <1>2, CellsReplaced

LEMMA ClearSane ==
  ASSUME NEW c, Sane(c), OnScreen(c), NEW amount \in {"ALL", "BEFORE", "AFTER"}
  PROVE  Sane(console_clear(c, amount)) /\ OnScreen(console_clear(c, amount))
<1>1. CASE amount = "ALL"
  <2>1. console_clear(c, amount) = console_setcursor(BlankCells(c, Cells), 0, 0)
    BY <1>1 DEF console_clear
  <2> QED BY <2>1, BlankSane, SetCursorSane
<1>2. CASE amount = "BEFORE"
  <2>1. console_clear(c, amount) = BlankCells(c, 0 .. c.row * c.col - 1)
    BY <1>2 DEF console_clear
  <2> QED BY <2>1, BlankSane
<1>3. CASE amount = "AFTER"
  <2>1. console_clear(c, amount) = BlankCells(c, c.row * c.col .. -1)
    BY <1>3 DEF console_clear
  <2> QED BY <2>1, BlankSane
<1> QED BY <1>1, <1>2, <1>3

LEMMA ClearLineSane ==
  ASSUME NEW c, Sane(c), OnScreen(c), NEW amount \in {"ALL", "BEFORE", "AFTER"}
  PROVE  Sane(console_clearln(c, amount)) /\ OnScreen(console_clearln(c, amount))
<1> DEFINE InRow(cols) == {VPOS(x, c.row) : x \in cols}
<1>1. CASE amount = "ALL"
  <2>1. console_clearln(c, amount)
          = console_setcursor(BlankCells(c, InRow(0 .. VCOL_MAX)), 0, c.row)
    BY <1>1 DEF console_clearln
  <2>2. c.row \in Int
    BY DEF Sane
  <2> HIDE DEF InRow
  <2> QED BY <2>1, <2>2, BlankSane, SetCursorSane
<1>2. CASE amount = "BEFORE"
  <2>1. console_clearln(c, amount) = BlankCells(c, InRow(0 .. c.col - 1))
    BY <1>2 DEF console_clearln
  <2> HIDE DEF InRow
  <2> QED BY <2>1, BlankSane
<1>3. CASE amount = "AFTER"
  <2>1. console_clearln(c, amount) = BlankCells(c, InRow(c.col .. VCOL_MAX))
    BY <1>3 DEF console_clearln
  <2> HIDE DEF InRow
  <2> QED BY <2>1, BlankSane
<1> QED BY <1>1, <1>2, <1>3

LEMMA ScrollSane ==
  ASSUME NEW c, Sane(c), NEW amount \in Int, OnScreen(c) \/ amount > 0
  PROVE  Sane(console_scroll(c, amount)) /\ OnScreen(console_scroll(c, amount))
<1> DEFINE Up == [i \in Cells |->
               IF i <= VPOS(VCOL_MAX, VROW_MAX - amount)
               THEN c.vram[i + VCOLS * amount] ELSE Blank]
           Down == [i \in Cells |->
                 IF i > VPOS(VCOL_MAX, -amount - 1)
                 THEN c.vram[i + VCOLS * amount] ELSE Blank]
<1>1. Up = [i \in Cells |-> Up[i]] /\ Down = [i \in Cells |-> Down[i]]
  OBVIOUS
<1>2. console_scroll(c, amount) =
        IF amount > 0
        THEN console_setcursor(WithCells(c, Up), 0, VROW_MAX)
        ELSE IF amount < 0
        THEN console_setcursor(WithCells(c, Down), 0, 0)
        ELSE c
  BY DEF console_scroll, WithCells
<1> HIDE DEF Up, Down
<1> DEFINE u == WithCells(c, Up)
           d == WithCells(c, Down)
<1>3. Sane(u) /\ Sane(d)
  BY <1>1, CellsReplaced
<1> HIDE DEF u, d
<1>4. CASE amount > 0
  <2>1. console_scroll(c, amount) = console_setcursor(u, 0, VROW_MAX)
    BY <1>2, <1>4 DEF u
  <2>2. 0 \in Int /\ VROW_MAX \in Int
    OBVIOUS
  <2> QED BY <1>3, <2>1, <2>2, SetCursorSane
<1>5. CASE amount < 0
  <2>1. ~(amount > 0)
    BY <1>5
  <2> QED BY <1>2, <1>3, <1>5, <2>1, SetCursorSane DEF d
<1> QED BY <1>2, <1>4, <1>5
(***************************************************************************)
(* ESC [ ... m: the parameters applied one after the other.                *)
(***************************************************************************)
LEMMA GraphicsKeeps ==
  ASSUME NEW a \in Attrs, NEW n
  PROVE  SetGraphics(a, n) \in Attrs
<1>1. \A k \in 1 .. 8 : Color[k] \in 0 .. 7
  BY DEF Color
<1>2. PlainAttr \in Attrs
  BY DEF PlainAttr, Attrs, BLACK, WHITE
<1>3. /\ [a EXCEPT !.bright = TRUE] \in Attrs /\ [a EXCEPT !.bright = FALSE] \in Attrs
      /\ [a EXCEPT !.reverse = TRUE] \in Attrs /\ [a EXCEPT !.reverse = FALSE] \in Attrs
      /\ [a EXCEPT !.conceal = TRUE] \in Attrs /\ [a EXCEPT !.conceal = FALSE] \in Attrs
  BY DEF Attrs
<1>4. ASSUME NEW m \in 0 .. 7
      PROVE  [a EXCEPT !.fg = m] \in Attrs /\ [a EXCEPT !.bg = m] \in Attrs
  BY DEF Attrs
<1>5. n \in 30 .. 37 => [a EXCEPT !.fg = Color[n - 29]] \in Attrs
  <2>1. n \in 30 .. 37 => n - 29 \in 1 .. 8
    OBVIOUS
  <2> QED BY <1>1, <1>4, <2>1
<1>6. n \in 40 .. 47 => [a EXCEPT !.bg = Color[n - 39]] \in Attrs
  <2>1. n \in 40 .. 47 => n - 39 \in 1 .. 8
    OBVIOUS
  <2> QED BY <1>1, <1>4, <2>1
<1>7. ASSUME NEW r, r = SetGraphics(a, n)
      PROVE  \/ r \in {PlainAttr, a,
                [a EXCEPT !.bright = TRUE], [a EXCEPT !.bright = FALSE],
                [a EXCEPT !.reverse = TRUE], [a EXCEPT !.reverse = FALSE],
                [a EXCEPT !.conceal = TRUE], [a EXCEPT !.conceal = FALSE]}
             \/ n \in 30 .. 37 /\ r = [a EXCEPT !.fg = Color[n - 29]]
             \/ n \in 40 .. 47 /\ r = [a EXCEPT !.bg = Color[n - 39]]
  BY <1>7 DEF SetGraphics
<1> QED BY <1>2, <1>3, <1>5, <1>6, <1>7

\* What the recursive function of Graphics is.
Painted(f, a, b, i) ==
  IF i = 0 THEN a ELSE LET x == f[i - 1] IN SetGraphics(x, b[i - 1])
IsPainting(f, a, b, N) == f = [i \in 0 .. N |-> Painted(f, a, b, i)]

LEMMA PaintingExists ==
  ASSUME NEW a, NEW b
  PROVE  \A N \in Nat : \E f : IsPainting(f, a, b, N)
<1> DEFINE T == {N \in Nat : \E f : IsPainting(f, a, b, N)}
<1>1. 0 \in T
  <2> DEFINE f == [i \in 0 .. 0 |-> a]
  <2>1. f = [i \in 0 .. 0 |-> Painted(f, a, b, i)]
    BY DEF Painted
  <2> QED BY <2>1 DEF IsPainting
<1>2. ASSUME NEW N \in Nat, N \in T
      PROVE  N + 1 \in T
  <2>1. PICK f : IsPainting(f, a, b, N)
    BY <1>2
  <2> DEFINE g == [i \in 0 .. N + 1 |-> IF i <= N THEN f[i] ELSE Painted(f, a, b, i)]
  <2>2. \A i \in 0 .. N : g[i] = f[i]
    OBVIOUS
  <2>3. \A i \in 0 .. N + 1 : g[i] = Painted(f, a, b, i)
    BY <2>1 DEF IsPainting
  <2>4. \A i \in 0 .. N + 1 : i # 0 => i - 1 \in 0 .. N
    OBVIOUS
  <2>5. \A i \in 0 .. N + 1 : Painted(g, a, b, i) = Painted(f, a, b, i)
    <3> HIDE DEF g
    <3> QED BY <2>2, <2>4 DEF Painted
  <2>6. g = [i \in 0 .. N + 1 |-> Painted(g, a, b, i)]
    <3>1. g = [i \in 0 .. N + 1 |-> g[i]]
      OBVIOUS
    <3> HIDE DEF g
    <3>2. \A i \in 0 .. N + 1 : g[i] = Painted(g, a, b, i)
      BY <2>3, <2>5
    <3> QED BY <3>1, <3>2
  <2>7. IsPainting(g, a, b, N + 1)
    BY <2>6 DEF IsPainting
  <2> HIDE DEF g
  <2> QED BY <2>7
<1> HIDE DEF T
<1>3. \A N \in Nat : N \in T
  BY <1>1, <1>2, Induction
<1> QED BY <1>3 DEF T

LEMMA GraphicsPaints ==
  ASSUME NEW a, NEW b, NEW pos \in Nat
  PROVE  \E f : IsPainting(f, a, b, pos + 1) /\ Graphics(a, b, pos) = f[pos + 1]
<1> DEFINE w == CHOOSE f : IsPainting(f, a, b, pos + 1)
<1>1. pos + 1 \in Nat
  OBVIOUS
<1>2. IsPainting(w, a, b, pos + 1)
  BY <1>1, PaintingExists
<1>3. Graphics(a, b, pos) = w[pos + 1]
  BY DEF Graphics, IsPainting, Painted
<1> QED BY <1>2, <1>3

LEMMA GraphicsSane ==
  ASSUME NEW a \in Attrs, NEW b, NEW pos \in Nat
  PROVE  Graphics(a, b, pos) \in Attrs
<1>1. PICK f : IsPainting(f, a, b, pos + 1) /\ Graphics(a, b, pos) = f[pos + 1]
  BY GraphicsPaints
<1> DEFINE T == {n \in Nat : n <= pos + 1 => f[n] \in Attrs}
<1>2. 0 \in T
  BY <1>1 DEF IsPainting, Painted
<1>3. ASSUME NEW n \in Nat, n \in T PROVE n + 1 \in T
  <2> SUFFICES ASSUME n + 1 <= pos + 1 PROVE f[n + 1] \in Attrs
    OBVIOUS
  <2>1. n + 1 \in 0 .. pos + 1 /\ n + 1 # 0 /\ (n + 1) - 1 = n /\ f[n] \in Attrs
    BY <1>3
  <2>2. f[n + 1] = SetGraphics(f[n], b[n])
    BY <1>1, <2>1 DEF IsPainting, Painted
  <2> QED BY <2>1, <2>2, GraphicsKeeps
<1> HIDE DEF T
<1>4. pos + 1 \in T
  BY <1>2, <1>3, Induction
<1> QED BY <1>1, <1>4 DEF T
(***************************************************************************)
(* The letter that ends an escape sequence.                                *)
(***************************************************************************)
LEMMA SaveSane ==
  ASSUME NEW c, Sane(c), OnScreen(c)
  PROVE  Sane(SaveCursor(c)) /\ OnScreen(SaveCursor(c))
<1> DEFINE d == SaveCursor(c)
<1>1. /\ IsConsole(d) /\ d.col = c.col /\ d.row = c.row /\ d.cursor = c.cursor
      /\ d.attr = c.attr /\ d.escaped = c.escaped /\ d.buffer = c.buffer
      /\ d.pos = c.pos /\ d.saved_col = c.col /\ d.saved_row = c.row
      /\ d.vram = c.vram
  BY DEF Sane, IsConsole, Fields, SaveCursor
<1> HIDE DEF d
<1>2. Sane(d) /\ OnScreen(d)
  BY <1>1 DEF Sane, OnScreen
<1> QED BY SMTT(20), <1>2 DEF d

LEMMA RestoreSane ==
  ASSUME NEW c, Sane(c), OnScreen(c)
  PROVE  Sane(RestoreCursor(c)) /\ OnScreen(RestoreCursor(c))
<1> DEFINE d == RestoreCursor(c)
<1>1. /\ IsConsole(d) /\ d.cursor = c.cursor
      /\ d.col = IF c.saved_col >= 0 THEN c.saved_col ELSE c.col
      /\ d.row = IF c.saved_row >= 0 THEN c.saved_row ELSE c.row
      /\ d.attr = c.attr /\ d.escaped = c.escaped /\ d.buffer = c.buffer
      /\ d.pos = c.pos /\ d.saved_col = -1 /\ d.saved_row = -1
      /\ d.vram = c.vram
  BY DEF Sane, IsConsole, Fields, RestoreCursor
<1> HIDE DEF d
<1>2. Sane(d) /\ OnScreen(d)
  BY <1>1 DEF Sane, OnScreen
<1> QED BY <1>2 DEF d

LEMMA PaintSane ==
  ASSUME NEW c, Sane(c), OnScreen(c), NEW a \in Attrs
  PROVE  Sane([c EXCEPT !.attr = a]) /\ OnScreen([c EXCEPT !.attr = a])
<1> DEFINE d == [c EXCEPT !.attr = a]
<1>1. /\ IsConsole(d) /\ d.col = c.col /\ d.row = c.row /\ d.cursor = c.cursor
      /\ d.attr = a /\ d.escaped = c.escaped /\ d.buffer = c.buffer
      /\ d.pos = c.pos /\ d.saved_col = c.saved_col /\ d.saved_row = c.saved_row
      /\ d.vram = c.vram
  BY SMTT(20) DEF Sane, IsConsole, Fields
<1> HIDE DEF d
<1>2. Sane(d) /\ OnScreen(d)
  BY <1>1 DEF Sane, OnScreen
<1> QED BY SMTT(20), <1>2 DEF d

\* A letter that moves the cursor asks for a column and a row.
LEMMA MovesAreIntegers ==
  ASSUME NEW c, c.col \in Int, c.row \in Int,
         c.buffer \in [0 .. 15 -> -128 .. 127], NEW k \in Moves
  PROVE  MoveCol(c, k) \in Int /\ MoveRow(c, k) \in Int
<1>1. c.buffer[0] \in -128 .. 127 /\ c.buffer[1] \in -128 .. 127
  OBVIOUS
<1> DEFINE n == Amount(c)
           x == Coord(c, 1)
           y == Coord(c, 0)
<1>2. n \in Int /\ x \in Int /\ y \in Int /\ c.buffer[0] \in Int
  <2> DEFINE p == c.buffer[0]
             q == c.buffer[1]
  <2>1. n = IF p < 0 THEN 1 ELSE p
    BY DEF Amount
  <2>2. x = (IF q <= 0 THEN 0 ELSE q - 1) /\ y = (IF p <= 0 THEN 0 ELSE p - 1)
    BY DEF Coord
  <2> HIDE DEF n, x, y
  <2>3. p \in -128 .. 127 /\ q \in -128 .. 127
    BY <1>1
  <2> HIDE DEF p, q
  <2>4. n \in Int /\ x \in Int /\ y \in Int /\ p \in Int
    BY <2>1, <2>2, <2>3
  <2> QED BY <2>4 DEF p
<1>3. MoveCol(c, k) \in {c.col, c.col + n, c.col - n, 0, c.buffer[0], x}
  BY DEF Moves, MoveCol
<1>5. MoveRow(c, k) \in {c.row - n, c.row + n, c.row, y}
  BY DEF Moves, MoveRow
<1> HIDE DEF n, x, y
<1>4. /\ c.col + n \in Int /\ c.col - n \in Int /\ 0 \in Int
      /\ c.row - n \in Int /\ c.row + n \in Int
  BY <1>2
<1> QED BY <1>2, <1>3, <1>4, <1>5, Zenon

LEMMA PerformSane ==
  ASSUME NEW c, Sane(c), OnScreen(c), NEW k \in Finals
  PROVE  Sane(Perform(c, k)) /\ OnScreen(Perform(c, k))
<1> DEFINE n == Amount(c)
           a == Graphics(c.attr, c.buffer, c.pos)
<1>1. c.attr \in Attrs /\ c.pos \in Nat
  BY DEF Sane
<1>2. n \in Int
  <2>1. c.buffer[0] \in -128 .. 127
    BY BufferTyped
  <2> QED BY <2>1 DEF Amount
<1>3. a \in Attrs
  BY <1>1, GraphicsSane
<1> HIDE DEF a, n
<1>4. CASE k \in Moves
  <2>1. Perform(c, k) = console_setcursor(c, MoveCol(c, k), MoveRow(c, k))
    BY <1>4 DEF Perform, Moves
  <2>2. MoveCol(c, k) \in Int /\ MoveRow(c, k) \in Int
    <3>1. c.col \in Int /\ c.row \in Int /\ c.buffer \in [0 .. 15 -> -128 .. 127]
      BY DEF Sane
    <3> QED BY <1>4, <3>1, MovesAreIntegers
  <2> QED BY <2>1, <2>2, SetCursorSane
<1>5. CASE k \in {"J", "K"}
  <2>1. EraseAmount(c.buffer[0]) \in {"ALL", "BEFORE", "AFTER"}
    BY DEF EraseAmount
  <2>2. Perform(c, k) \in {console_clear(c, EraseAmount(c.buffer[0])),
                            console_clearln(c, EraseAmount(c.buffer[0]))}
    BY <1>5 DEF Perform, Moves
  <2> QED BY <2>1, <2>2, ClearSane, ClearLineSane
<1>6. CASE k \in {"S", "T"}
  <2>1. Perform(c, k) \in {console_scroll(c, n), console_scroll(c, -n)}
    BY <1>6 DEF Perform, Moves, n
  <2>2. -n \in Int
    BY <1>2
  <2> QED BY <1>2, <2>1, <2>2, ScrollSane
<1>7. CASE k \in {"s", "u", "m"}
  <2>1. Perform(c, k) \in {SaveCursor(c), RestoreCursor(c), [c EXCEPT !.attr = a]}
    BY <1>7 DEF Perform, Moves, a
  <2> QED BY <1>3, <2>1, SaveSane, RestoreSane, PaintSane
<1> QED BY <1>4, <1>5, <1>6, <1>7 DEF Finals, Moves

(***************************************************************************)
(* One character of an escape sequence.                                    *)
(***************************************************************************)
\* A sequence that has ended leaves the parser cleared, and nothing else.
LEMMA EndEscapeKeeps ==
  ASSUME NEW c, Sane(c)
  PROVE  /\ Sane(EndEscape(c))
         /\ OnScreen(c) => OnScreen(EndEscape(c))
         /\ EndEscape(c).escaped = "NONE"
         /\ \A f \in Fields \ {"escaped", "buffer", "pos"} : EndEscape(c)[f] = c[f]
<1> DEFINE d == EndEscape(c)
<1>1. /\ IsConsole(d) /\ d.escaped = "NONE" /\ d.buffer = NoParams /\ d.pos = 0
      /\ \A f \in Fields \ {"escaped", "buffer", "pos"} : d[f] = c[f]
  BY DEF Sane, IsConsole, Fields, EndEscape
<1>2. /\ d.col = c.col /\ d.row = c.row /\ d.cursor = c.cursor /\ d.attr = c.attr
      /\ d.saved_col = c.saved_col /\ d.saved_row = c.saved_row /\ d.vram = c.vram
  BY <1>1 DEF Fields
<1>3. NoParams \in [0 .. 15 -> -128 .. 127] /\ NoParams \in Cleared
  BY DEF NoParams, Cleared
<1> HIDE DEF d
<1>4. Sane(d)
  BY <1>1, <1>2, <1>3 DEF Sane
<1>5. OnScreen(c) => OnScreen(d)
  BY <1>2 DEF OnScreen
<1> QED BY SMTT(20), <1>1, <1>4, <1>5 DEF d

\* A digit's value, and the value a parameter has after one.
LEMMA DigitsAre ==
  /\ Digit["0"] = 0 /\ Digit["1"] = 1 /\ Digit["2"] = 2 /\ Digit["3"] = 3
  /\ Digit["4"] = 4 /\ Digit["5"] = 5 /\ Digit["6"] = 6 /\ Digit["7"] = 7
  /\ Digit["8"] = 8 /\ Digit["9"] = 9
  /\ "0" \in Digits /\ "2" \in Digits /\ "7" \in Digits
<1>0. "0" \in Digits /\ Digit["0"] = 0
  BY DEF Digits, Digit
<1>1. "1" \in Digits /\ Digit["1"] = 1
  BY DEF Digits, Digit
<1>2. "2" \in Digits /\ Digit["2"] = 2
  BY DEF Digits, Digit
<1>3. "3" \in Digits /\ Digit["3"] = 3
  BY DEF Digits, Digit
<1>4. "4" \in Digits /\ Digit["4"] = 4
  BY DEF Digits, Digit
<1>5. "5" \in Digits /\ Digit["5"] = 5
  BY DEF Digits, Digit
<1>6. "6" \in Digits /\ Digit["6"] = 6
  BY DEF Digits, Digit
<1>7. "7" \in Digits /\ Digit["7"] = 7
  BY DEF Digits, Digit
<1>8. "8" \in Digits /\ Digit["8"] = 8
  BY DEF Digits, Digit
<1>9. "9" \in Digits /\ Digit["9"] = 9
  BY DEF Digits, Digit
<1> QED BY <1>0, <1>1, <1>2, <1>3, <1>4, <1>5, <1>6, <1>7, <1>8, <1>9

LEMMA DigitValue ==
  ASSUME NEW d \in Digits
  PROVE  Digit[d] \in 0 .. 9 /\ (d # "8" => Digit[d] # 8)
<1>1. d \in {"0", "1", "2", "3", "4", "5", "6", "7", "8", "9"}
  BY DEF Digits
<1> QED BY <1>1, DigitsAre

LEMMA Accumulated ==
  ASSUME NEW b, b \in [0 .. 15 -> -128 .. 127], NEW pos, NEW k \in Digits
  PROVE  [b EXCEPT ![pos] = IF b[pos] < 0 THEN Digit[k]
                            ELSE int8(b[pos] * 10 + Digit[k])]
           \in [0 .. 15 -> -128 .. 127]
<1> DEFINE v == IF b[pos] < 0 THEN Digit[k] ELSE int8(b[pos] * 10 + Digit[k])
<1>1. CASE pos \in 0 .. 15
  <2>1. b[pos] \in Int
    <3> HIDE DEF v
    <3>1. b[pos] \in -128 .. 127
      BY <1>1
    <3> QED BY <3>1
  <2>2. Digit[k] \in 0 .. 9
    BY DigitValue
  <2>3. b[pos] * 10 + Digit[k] \in Int
    BY <2>1, <2>2
  <2>4. int8(b[pos] * 10 + Digit[k]) \in -128 .. 127
    BY <2>3, Narrow
  <2>5. v \in -128 .. 127
    BY <2>1, <2>2, <2>4
  <2> HIDE DEF v
  <2>6. [b EXCEPT ![pos] = v] \in [0 .. 15 -> -128 .. 127]
    BY <2>5
  <2> QED BY <2>6 DEF v
<1>2. CASE pos \notin 0 .. 15
  <2> HIDE DEF v
  <2>1. [b EXCEPT ![pos] = v] \in [0 .. 15 -> -128 .. 127]
    BY ZenonT(40), <1>2
  <2> QED BY <2>1 DEF v
<1> QED BY <1>1, <1>2

LEMMA AccumulateKeeps ==
  ASSUME NEW c, Sane(c), c.escaped = "READ", NEW k \in Digits
  PROVE  /\ Sane(Accumulate(c, k))
         /\ OnScreen(c) => OnScreen(Accumulate(c, k))
         /\ \A f \in Fields \ {"buffer"} : Accumulate(c, k)[f] = c[f]
<1> DEFINE d == Accumulate(c, k)
           v == IF c.buffer[c.pos] < 0 THEN Digit[k]
                ELSE int8(c.buffer[c.pos] * 10 + Digit[k])
<1>1. /\ IsConsole(d) /\ d.buffer = [c.buffer EXCEPT ![c.pos] = v]
      /\ \A f \in Fields \ {"buffer"} : d[f] = c[f]
  BY DEF Sane, IsConsole, Fields, Accumulate
<1>2. /\ d.col = c.col /\ d.row = c.row /\ d.cursor = c.cursor /\ d.attr = c.attr
      /\ d.saved_col = c.saved_col /\ d.saved_row = c.saved_row /\ d.vram = c.vram
      /\ d.escaped = c.escaped /\ d.pos = c.pos
  BY <1>1 DEF Fields
<1>3. c.buffer \in [0 .. 15 -> -128 .. 127]
  BY SMTT(20) DEF Sane
<1>4. [c.buffer EXCEPT ![c.pos] = v] \in [0 .. 15 -> -128 .. 127]
  BY <1>3, Accumulated
<1> HIDE DEF d, v
<1>5. Sane(d)
  BY <1>1, <1>2, <1>4 DEF Sane
<1>6. OnScreen(c) => OnScreen(d)
  BY <1>2 DEF OnScreen
<1> QED BY SMTT(20), <1>1, <1>5, <1>6 DEF d

\* A console whose parser moved on.
LEMMA ParserMoves ==
  ASSUME NEW c, Sane(c)
  PROVE  /\ c.escaped = "START" =>
              /\ Sane([c EXCEPT !.escaped = "READ"])
              /\ OnScreen(c) => OnScreen([c EXCEPT !.escaped = "READ"])
         /\ c.escaped = "READ" =>
              /\ Sane([c EXCEPT !.pos = @ + 1])
              /\ OnScreen(c) => OnScreen([c EXCEPT !.pos = @ + 1])
<1> DEFINE d == [c EXCEPT !.escaped = "READ"]
           e == [c EXCEPT !.pos = @ + 1]
<1>1. /\ IsConsole(d) /\ d.col = c.col /\ d.row = c.row /\ d.cursor = c.cursor
      /\ d.attr = c.attr /\ d.escaped = "READ" /\ d.buffer = c.buffer
      /\ d.pos = c.pos /\ d.saved_col = c.saved_col /\ d.saved_row = c.saved_row
      /\ d.vram = c.vram
  BY DEF Sane, IsConsole, Fields
<1>2. /\ IsConsole(e) /\ e.col = c.col /\ e.row = c.row /\ e.cursor = c.cursor
      /\ e.attr = c.attr /\ e.escaped = c.escaped /\ e.buffer = c.buffer
      /\ e.pos = c.pos + 1 /\ e.saved_col = c.saved_col /\ e.saved_row = c.saved_row
      /\ e.vram = c.vram
  BY DEF Sane, IsConsole, Fields
<1> HIDE DEF d, e
<1>3. Sane(d) /\ (OnScreen(c) => OnScreen(d))
  BY SMTT(20), <1>1 DEF Sane, OnScreen
<1>4. c.escaped = "READ" => Sane(e) /\ (OnScreen(c) => OnScreen(e))
  BY <1>2 DEF Sane, OnScreen
<1> QED BY <1>3, <1>4 DEF d, e

LEMMA EscapeSane ==
  ASSUME NEW c, Sane(c), OnScreen(c), NEW k
  PROVE  Sane(proc_escape(c, k)) /\ OnScreen(proc_escape(c, k))
<1>1. CASE c.escaped = "START" /\ k = "["
  <2>1. proc_escape(c, k) = [c EXCEPT !.escaped = "READ"]
    BY <1>1 DEF proc_escape
  <2> QED BY <1>1, <2>1, ParserMoves
<1>2. CASE c.escaped = "READ" /\ k \in Finals
  <2>1. proc_escape(c, k) = EndEscape(Perform(c, k))
    BY <1>2 DEF proc_escape, Finals, Digits
  <2>2. Sane(Perform(c, k)) /\ OnScreen(Perform(c, k))
    BY <1>2, PerformSane
  <2> QED BY <2>1, <2>2, EndEscapeKeeps
<1>3. CASE c.escaped = "READ" /\ k = ";"
  <2>1. proc_escape(c, k) = [c EXCEPT !.pos = @ + 1]
    BY <1>3 DEF proc_escape, Finals, Digits
  <2> QED BY <1>3, <2>1, ParserMoves
<1>4. CASE c.escaped = "READ" /\ k \in Digits
  <2>1. proc_escape(c, k) = Accumulate(c, k)
    BY <1>4 DEF proc_escape, Finals, Digits
  <2> QED BY <1>4, <2>1, AccumulateKeeps
<1>5. CASE /\ ~(c.escaped = "START" /\ k = "[")
           /\ ~(c.escaped = "READ" /\ (k \in Finals \/ k = ";" \/ k \in Digits))
  <2>1. proc_escape(c, k) = EndEscape(c)
    BY <1>5 DEF proc_escape
  <2> QED BY <2>1, EndEscapeKeeps
<1> QED BY <1>1, <1>2, <1>3, <1>4, <1>5
(***************************************************************************)
(* console_write.                                                          *)
(***************************************************************************)
\* A character stored at the cursor.
LEMMA PutCellStores ==
  ASSUME NEW c, Sane(c), NEW k
  PROVE  /\ Sane(PutCell(c, k))
         /\ OnScreen(c) => OnScreen(PutCell(c, k))
         /\ PutCell(c, k).vram = [i \in Cells |-> IF i = VPOS(c.col, c.row)
                                                  THEN Cell(c.attr, k) ELSE c.vram[i]]
         /\ \A f \in Fields \ {"vram"} : PutCell(c, k)[f] = c[f]
<1> DEFINE x == Cell(c.attr, k)
           p == VPOS(c.col, c.row)
           v == [i \in Cells |-> IF i = p THEN x ELSE c.vram[i]]
<1>2. c.vram = [i \in Cells |-> c.vram[i]]
  BY DEF Sane
<1>4. v = [i \in Cells |-> v[i]]
  OBVIOUS
<1>5. PutCell(c, k) = WithCells(c, v)
  <2>1. CASE p \in Cells
    <3>1. PutCell(c, k) = [c EXCEPT !.vram = [@ EXCEPT ![p] = x]]
      BY <2>1 DEF PutCell
    <3>2. [c.vram EXCEPT ![p] = x] = v
      <4> HIDE DEF x, p
      <4> QED BY <1>2
    <3> QED BY <3>1, <3>2 DEF WithCells
  <2>2. CASE p \notin Cells
    <3>1. PutCell(c, k) = c
      BY <2>2 DEF PutCell
    <3>2. v = c.vram
      <4> HIDE DEF x, p
      <4>1. \A i \in Cells : i # p
        BY <2>2
      <4>2. v = [i \in Cells |-> c.vram[i]]
        BY <4>1
      <4> QED BY <1>2, <4>2
    <3> HIDE DEF v
    <3>3. WithCells(c, v) = c
      BY <3>2 DEF WithCells, Sane, IsConsole, Fields
    <3> QED BY <3>1, <3>3
  <2> QED BY <2>1, <2>2
<1> HIDE DEF v
<1>6. /\ Sane(PutCell(c, k))
      /\ OnScreen(c) => OnScreen(PutCell(c, k))
      /\ PutCell(c, k).vram = v
      /\ \A f \in Fields \ {"vram"} : PutCell(c, k)[f] = c[f]
  BY <1>4, <1>5, CellsReplaced
<1> QED BY <1>6 DEF v

LEMMA NextColMoves ==
  ASSUME NEW c, Sane(c), OnScreen(c)
  PROVE  /\ Sane(NextCol(c))
         /\ NextCol(c).col = c.col + 1
         /\ \A f \in Fields \ {"col"} : NextCol(c)[f] = c[f]
<1>1. c.col \in 0 .. VCOL_MAX /\ c.row \in 0 .. VROW_MAX
  BY DEF Sane, OnScreen
<1>2. NextCol(c) = MovedTo(c, c.col + 1, c.row)
  <2>1. int8(c.col + 1) = c.col + 1
    <3>1. c.col + 1 \in Int /\ c.col + 1 \in -128 .. 127
      BY <1>1
    <3> QED BY <3>1, Narrow
  <2> QED BY <2>1 DEF Sane, IsConsole, Fields, NextCol, MovedTo
<1> DEFINE x == c.col + 1
           y == c.row
           d == MovedTo(c, x, y)
<1>3. x \in 0 .. VCOLS /\ y \in 0 .. VROWS
  BY <1>1
<1> HIDE DEF x, y
<1>4. /\ Sane(d) /\ d.col = x /\ d.row = y
      /\ \A f \in Fields \ {"col", "row"} : d[f] = c[f]
  BY <1>3, Moved
<1> HIDE DEF d
<1>5. \A f \in Fields \ {"col"} : d[f] = c[f]
  BY <1>4 DEF Fields, y
<1> QED BY <1>2, <1>4, <1>5 DEF d, x, y

LEMMA NextLineMoves ==
  ASSUME NEW c, Sane(c), c.row <= VROW_MAX
  PROVE  /\ Sane(NextLine(c))
         /\ NextLine(c).col = 0 /\ NextLine(c).row = c.row + 1
         /\ \A f \in Fields \ {"col", "row"} : NextLine(c)[f] = c[f]
<1>1. c.row \in 0 .. VROW_MAX
  BY DEF Sane
<1>2. NextLine(c) = MovedTo(c, 0, c.row + 1)
  <2>1. int8(c.row + 1) = c.row + 1
    <3>1. c.row + 1 \in Int /\ c.row + 1 \in -128 .. 127
      BY <1>1
    <3> QED BY <3>1, Narrow
  <2> QED BY <2>1 DEF NextLine, MovedTo
<1> DEFINE x == 0
           y == c.row + 1
           d == MovedTo(c, x, y)
<1>3. x \in 0 .. VCOLS /\ y \in 0 .. VROWS
  BY <1>1
<1> HIDE DEF x, y
<1>4. /\ Sane(d) /\ d.col = x /\ d.row = y
      /\ \A f \in Fields \ {"col", "row"} : d[f] = c[f]
  BY <1>3, Moved
<1> QED BY <1>2, <1>4 DEF x, y

LEMMA ShowLineSane ==
  ASSUME NEW c, Sane(c)
  PROVE  Sane(ShowLine(c)) /\ OnScreen(ShowLine(c))
<1> DEFINE u == console_scroll(c, 1)
           w == [u EXCEPT !.row = VROW_MAX]
           d == IF c.row > VROW_MAX THEN w ELSE c
<1>1. Sane(u) /\ OnScreen(u)
  <2>1. 1 \in Int /\ 1 > 0
    BY SMTT(20)
  <2> QED BY <2>1, ScrollSane
<1> HIDE DEF u
<1>2. w = MovedTo(u, u.col, VROW_MAX)
  BY <1>1 DEF Sane, IsConsole, Fields, MovedTo
<1>3. u.col \in 0 .. VCOLS /\ VROW_MAX \in 0 .. VROWS
  BY <1>1 DEF Sane
<1>4. Sane(w)
  <2> HIDE DEF w
  <2> QED BY <1>1, <1>2, <1>3, Moved
<1> HIDE DEF w
<1>5. Sane(d)
  BY <1>4
<1>7. d.col \in Int /\ d.row \in Int
  <2> HIDE DEF d
  <2> QED BY <1>5 DEF Sane
<1>6. ShowLine(c) = console_setcursor(d, d.col, d.row)
  BY DEF ShowLine, w, u
<1> HIDE DEF d
<1> QED BY <1>5, <1>6, <1>7, SetCursorSane

LEMMA WritePrintableSane ==
  ASSUME NEW c, Sane(c), OnScreen(c), NEW k
  PROVE  Sane(WritePrintable(c, k)) /\ OnScreen(WritePrintable(c, k))
<1> DEFINE p == PutCell(c, k)
           d == NextCol(p)
<1>1. Sane(p) /\ OnScreen(p)
  BY PutCellStores
<1>2. Sane(d) /\ d.row = p.row
  BY <1>1, NextColMoves DEF Fields
<1>3. d.row <= VROW_MAX
  BY <1>1, <1>2 DEF OnScreen
<1>4. WritePrintable(c, k) = IF LineEnds(d) THEN ShowLine(NextLine(d)) ELSE d
  BY DEF WritePrintable
<1> HIDE DEF d
<1>5. CASE LineEnds(d)
  <2>1. Sane(NextLine(d))
    BY <1>2, <1>3, NextLineMoves
  <2> QED BY <1>4, <1>5, <2>1, ShowLineSane
<1>6. CASE ~LineEnds(d)
  <2>1. d.col <= VCOL_MAX
    BY <1>2, <1>6 DEF LineEnds, Sane
  <2> QED BY SMTT(20), <1>2, <1>3, <1>4, <1>6, <2>1 DEF OnScreen
<1> QED BY <1>5, <1>6
\* What the recursive function of WriteTab is.
Tabbed(f, c, i) ==
  IF i = 0 THEN c
  ELSE LET d == f[i - 1]
       IN  IF i > 1 /\ d.col = 0 THEN d ELSE WritePrintable(d, SPACE)
IsTab(f, c) == f = [i \in 0 .. TAB_WIDTH |-> Tabbed(f, c, i)]

LEMMA TabExists ==
  ASSUME NEW c
  PROVE  \E f : IsTab(f, c)
<1> DEFINE W(d, i) == IF i > 1 /\ d.col = 0 THEN d ELSE WritePrintable(d, SPACE)
           a == W(c, 1)
           b == W(a, 2)
           d == W(b, 3)
           e == W(d, 4)
           f == [i \in 0 .. 4 |-> IF i = 0 THEN c ELSE IF i = 1 THEN a
                                  ELSE IF i = 2 THEN b ELSE IF i = 3 THEN d ELSE e]
<1>1. \A i \in 0 .. 4 : Tabbed(f, c, i) = IF i = 0 THEN c ELSE W(f[i - 1], i)
  BY DEF Tabbed
<1> HIDE DEF W
<1>2. f[0] = c /\ f[1] = a /\ f[2] = b /\ f[3] = d /\ f[4] = e
  OBVIOUS
<1>3. f = [i \in 0 .. 4 |-> f[i]]
  OBVIOUS
<1> HIDE DEF f
<1>4. 1 - 1 = 0 /\ 2 - 1 = 1 /\ 3 - 1 = 2 /\ 4 - 1 = 3
  OBVIOUS
<1>5. /\ W(f[1 - 1], 1) = f[1] /\ W(f[2 - 1], 2) = f[2]
      /\ W(f[3 - 1], 3) = f[3] /\ W(f[4 - 1], 4) = f[4]
  BY <1>2, <1>4
<1>6. \A i \in 0 .. 4 : f[i] = Tabbed(f, c, i)
  BY <1>1, <1>2, <1>5
<1>7. f = [i \in 0 .. TAB_WIDTH |-> Tabbed(f, c, i)]
  BY <1>3, <1>6 DEF TAB_WIDTH
<1> QED BY <1>7 DEF IsTab

LEMMA WriteTabSane ==
  ASSUME NEW c, Sane(c), OnScreen(c)
  PROVE  Sane(WriteTab(c)) /\ OnScreen(WriteTab(c))
<1> DEFINE w == CHOOSE f : IsTab(f, c)
           Good(d) == Sane(d) /\ OnScreen(d)
<1>1. IsTab(w, c)
  BY TabExists
<1>2. WriteTab(c) = w[TabCount(c)]
  BY DEF WriteTab, IsTab, Tabbed
<1>3. TabCount(c) \in 1 .. 4
  BY SMTT(20) DEF TabCount, TAB_WIDTH, Sane
<1> HIDE DEF w
<1>4. w[0] = c
  BY <1>1 DEF IsTab, Tabbed, TAB_WIDTH
<1>5. ASSUME NEW i \in 1 .. 4, Good(w[i - 1])
      PROVE  Good(w[i])
  <2> DEFINE d == w[i - 1]
  <2>1. w[i] = IF i > 1 /\ d.col = 0 THEN d ELSE WritePrintable(d, SPACE)
    BY <1>1 DEF IsTab, Tabbed, TAB_WIDTH
  <2> HIDE DEF d
  <2>2. Sane(d) /\ OnScreen(d)
    BY <1>5 DEF d
  <2> QED BY <2>1, <2>2, WritePrintableSane
<1>6. Good(w[0])
  BY <1>4
<1> HIDE DEF Good
<1>7. Good(w[1])
  BY <1>5, <1>6
<1>8. Good(w[2])
  BY <1>5, <1>7
<1>9. Good(w[3])
  BY <1>5, <1>8
<1>10. Good(w[4])
  BY <1>5, <1>9
<1>11. Good(w[TabCount(c)])
  BY <1>3, <1>7, <1>8, <1>9, <1>10
<1> QED BY <1>2, <1>11 DEF Good

\* ESC brings the cursor back on the screen, wherever it was.
LEMMA StartEscapeSane ==
  ASSUME NEW c, Sane(c), c.escaped = "NONE"
  PROVE  Sane(StartEscape(c)) /\ OnScreen(StartEscape(c))
<1> DEFINE d == [c EXCEPT !.escaped = "START"]
<1>1. /\ IsConsole(d) /\ d.col = c.col /\ d.row = c.row /\ d.cursor = c.cursor
      /\ d.attr = c.attr /\ d.escaped = "START" /\ d.buffer = c.buffer
      /\ d.pos = c.pos /\ d.saved_col = c.saved_col /\ d.saved_row = c.saved_row
      /\ d.vram = c.vram
  BY SMTT(20) DEF Sane, IsConsole, Fields
<1>2. StartEscape(c) = console_setcursor(d, c.col, c.row)
  BY DEF StartEscape
<1> HIDE DEF d
<1>3. Sane(d)
  BY <1>1 DEF Sane
<1>4. c.col \in Int /\ c.row \in Int
  BY DEF Sane
<1> QED BY <1>2, <1>3, <1>4, SetCursorSane

LEMMA WriteCharSane ==
  ASSUME NEW c, Sane(c), OnScreen(c), NEW k
  PROVE  Sane(WriteChar(c, k)) /\ OnScreen(WriteChar(c, k))
<1>1. c.row <= VROW_MAX
  BY DEF OnScreen
<1>2. Sane(ShowLine(NextLine(c))) /\ OnScreen(ShowLine(NextLine(c)))
  BY <1>1, NextLineMoves, ShowLineSane
<1> QED BY <1>2, WriteTabSane, WritePrintableSane DEF WriteChar

\* One character, whatever it is and whatever the parser is reading.
LEMMA WriteSane ==
  ASSUME NEW c, Sane(c), NEW k,
         OnScreen(c) \/ (c.escaped = "NONE" /\ k = "ESC")
  PROVE  Sane(console_write(c, k)) /\ OnScreen(console_write(c, k))
<1>1. CASE c.escaped # "NONE"
  BY <1>1, EscapeSane DEF console_write
<1>2. CASE c.escaped = "NONE" /\ k = "ESC"
  BY <1>2, StartEscapeSane DEF console_write
<1>3. CASE c.escaped = "NONE" /\ k # "ESC"
  BY <1>3, WriteCharSane DEF console_write
<1> QED BY <1>1, <1>2, <1>3
(***************************************************************************)
(* What a character that is written changes: the cells and the cursor.     *)
(***************************************************************************)
Mode == {"attr", "escaped", "buffer", "pos", "saved_col", "saved_row"}
SameMode(c, d) == \A f \in Mode : d[f] = c[f]

LEMMA SetCursorMode ==
  ASSUME NEW c, Sane(c), NEW col \in Int, NEW row \in Int
  PROVE  /\ SameMode(c, console_setcursor(c, col, row))
         /\ console_setcursor(c, col, row).vram = c.vram
         /\ col \in 0 .. VCOL_MAX => console_setcursor(c, col, row).col = col
         /\ row \in 0 .. VROW_MAX => console_setcursor(c, col, row).row = row
         /\ col = -1 /\ c.col <= VCOL_MAX => console_setcursor(c, col, row).col = c.col
         /\ row = -1 /\ c.row <= VROW_MAX => console_setcursor(c, col, row).row = c.row
<1> DEFINE d == console_setcursor(c, col, row)
<1>1. PICK x \in 0 .. VCOL_MAX, y \in 0 .. VROW_MAX :
           /\ d = PlacedAt(c, x, y)
           /\ col \in 0 .. VCOL_MAX => x = col
           /\ row \in 0 .. VROW_MAX => y = row
           /\ col < 0 /\ col >= -128 /\ c.col <= VCOL_MAX => x = c.col
           /\ row < 0 /\ row >= -128 /\ c.row <= VROW_MAX => y = c.row
  BY SetCursorPlaces
<1> HIDE DEF d
<1>2. d.col = x /\ d.row = y /\ \A f \in Fields \ {"col", "row", "cursor"} : d[f] = c[f]
  BY <1>1, PlacedSane
<1>3. SameMode(c, d) /\ d.vram = c.vram
  BY <1>2 DEF SameMode, Mode, Fields
<1>4. /\ col = -1 => col < 0 /\ col >= -128
      /\ row = -1 => row < 0 /\ row >= -128
  OBVIOUS
<1> QED BY <1>1, <1>2, <1>3, <1>4 DEF d

\* The cells after a scroll by one line.
Scrolled(v) == [i \in Cells |-> IF i + VCOLS \in Cells THEN v[i + VCOLS] ELSE Blank]

LEMMA ScrollLine ==
  ASSUME NEW c, Sane(c)
  PROVE  /\ SameMode(c, console_scroll(c, 1))
         /\ console_scroll(c, 1).col = 0 /\ console_scroll(c, 1).row = VROW_MAX
         /\ console_scroll(c, 1).vram = Scrolled(c.vram)
<1> DEFINE v == Scrolled(c.vram)
           d == WithCells(c, v)
<1>1. v = [i \in Cells |-> v[i]]
  BY DEF Scrolled
<1>2. \A i \in Cells : (i <= VPOS(VCOL_MAX, VROW_MAX - 1)) <=> i + VCOLS \in Cells
  <2>1. VROWS * VCOLS \in Int /\ (VROW_MAX - 1) * VCOLS = VROWS * VCOLS - 2 * VCOLS
    OBVIOUS
  <2>2. VPOS(VCOL_MAX, VROW_MAX - 1) = VROWS * VCOLS - VCOLS - 1
    BY <2>1 DEF VPOS
  <2>3. ASSUME NEW n \in Int, n = VROWS * VCOLS, NEW i \in 0 .. n - 1
        PROVE  (i <= n - VCOLS - 1) <=> i + VCOLS \in 0 .. n - 1
    BY <2>3
  <2> QED BY <2>1, <2>2, <2>3 DEF Cells
<1>3. console_scroll(c, 1) = console_setcursor(d, 0, VROW_MAX)
  <2> DEFINE u == [i \in Cells |-> IF i <= VPOS(VCOL_MAX, VROW_MAX - 1)
                                   THEN c.vram[i + VCOLS * 1] ELSE Blank]
  <2>1. \A i \in Cells : i + VCOLS * 1 = i + VCOLS
    BY DEF Cells
  <2>2. u = v
    BY <1>2, <2>1 DEF Scrolled
  <2>3. 1 > 0
    OBVIOUS
  <2>4. console_scroll(c, 1) = console_setcursor([c EXCEPT !.vram = u], 0, VROW_MAX)
    BY <2>3 DEF console_scroll
  <2> HIDE DEF u, v
  <2> QED BY <2>2, <2>4 DEF WithCells
<1> HIDE DEF v
<1>4. Sane(d) /\ d.vram = v /\ \A f \in Fields \ {"vram"} : d[f] = c[f]
  BY <1>1, CellsReplaced
<1> HIDE DEF d
<1>5. SameMode(c, d)
  BY <1>4 DEF SameMode, Mode, Fields
<1> DEFINE e == console_setcursor(d, 0, VROW_MAX)
<1>6. SameMode(d, e) /\ e.vram = d.vram /\ e.col = 0 /\ e.row = VROW_MAX
  <2>1. 0 \in Int /\ VROW_MAX \in Int /\ 0 \in 0 .. VCOL_MAX /\ VROW_MAX \in 0 .. VROW_MAX
    OBVIOUS
  <2> QED BY <1>4, <2>1, SetCursorMode
<1> HIDE DEF e
<1>7. SameMode(c, e)
  BY <1>5, <1>6 DEF SameMode
<1> QED BY <1>3, <1>4, <1>6, <1>7 DEF e, v

\* The end of a line: the next one, or the last one again after a scroll.
LEMMA ShowLineIs ==
  ASSUME NEW c, Sane(c), c.col <= VCOL_MAX
  PROVE  /\ SameMode(c, ShowLine(c))
         /\ c.row <= VROW_MAX => /\ ShowLine(c).col = c.col /\ ShowLine(c).row = c.row
                                 /\ ShowLine(c).vram = c.vram
         /\ c.row > VROW_MAX => /\ ShowLine(c).col = 0 /\ ShowLine(c).row = VROW_MAX
                                /\ ShowLine(c).vram = Scrolled(c.vram)
<1> DEFINE u == console_scroll(c, 1)
           w == [u EXCEPT !.row = VROW_MAX]
           d == IF c.row > VROW_MAX THEN w ELSE c
           e == console_setcursor(d, d.col, d.row)
<1>1. /\ Sane(u) /\ SameMode(c, u) /\ u.col = 0 /\ u.row = VROW_MAX
      /\ u.vram = Scrolled(c.vram)
  <2>1. 1 \in Int /\ 1 > 0
    BY SMTT(20)
  <2> QED BY <2>1, ScrollSane, ScrollLine
<1> HIDE DEF u
<1>2. w = u
  BY <1>1 DEF Sane, IsConsole, Fields
<1> HIDE DEF w
<1>3. c.col \in 0 .. VCOL_MAX /\ c.row \in 0 .. VROWS
  BY DEF Sane
<1>4. ShowLine(c) = e
  BY DEF ShowLine, w, u
<1>5. CASE c.row > VROW_MAX
  <2>1. d = u
    BY <1>2, <1>5
  <2> HIDE DEF d
  <2>2. 0 \in Int /\ VROW_MAX \in Int /\ 0 \in 0 .. VCOL_MAX /\ VROW_MAX \in 0 .. VROW_MAX
    OBVIOUS
  <2>3. /\ e = console_setcursor(u, 0, VROW_MAX)
    BY <1>1, <2>1
  <2> HIDE DEF e
  <2>4. SameMode(u, e) /\ e.vram = u.vram /\ e.col = 0 /\ e.row = VROW_MAX
    BY <1>1, <2>2, <2>3, SetCursorMode
  <2>5. SameMode(c, e)
    BY <1>1, <2>4 DEF SameMode
  <2>6. ~(c.row <= VROW_MAX)
    BY <1>3, <1>5
  <2> QED BY <1>1, <1>4, <2>4, <2>5, <2>6
<1>6. CASE ~(c.row > VROW_MAX)
  <2>1. d = c
    BY <1>6
  <2> HIDE DEF d
  <2>2. e = console_setcursor(c, c.col, c.row)
    BY <2>1
  <2> HIDE DEF e
  <2>3. c.col \in Int /\ c.row \in Int /\ c.row \in 0 .. VROW_MAX
    BY <1>3, <1>6
  <2>4. SameMode(c, e) /\ e.vram = c.vram /\ e.col = c.col /\ e.row = c.row
    BY <1>3, <2>2, <2>3, SetCursorMode
  <2> QED BY <1>4, <1>6, <2>4
<1> QED BY <1>5, <1>6

LEMMA ShowLineMode ==
  ASSUME NEW c, Sane(c)
  PROVE  SameMode(c, ShowLine(c))
<1> DEFINE u == console_scroll(c, 1)
           w == [u EXCEPT !.row = VROW_MAX]
           d == IF c.row > VROW_MAX THEN w ELSE c
           e == console_setcursor(d, d.col, d.row)
<1>1. Sane(u) /\ SameMode(c, u) /\ u.row = VROW_MAX
  <2>1. 1 \in Int /\ 1 > 0
    OBVIOUS
  <2> QED BY SMTT(20), <2>1, ScrollSane, ScrollLine
<1> HIDE DEF u
<1>2. w = u
  BY <1>1 DEF Sane, IsConsole, Fields
<1> HIDE DEF w
<1>3. ShowLine(c) = e
  BY DEF ShowLine, w, u
<1>4. Sane(d) /\ SameMode(c, d)
  BY SMTT(20), <1>1, <1>2 DEF SameMode
<1> HIDE DEF d
<1>5. d.col \in Int /\ d.row \in Int
  BY <1>4 DEF Sane
<1>6. SameMode(d, e)
  BY <1>4, <1>5, SetCursorMode
<1> HIDE DEF e
<1> QED BY <1>3, <1>4, <1>6 DEF SameMode

\* A printable character: its cell, and the cursor one place on.
LEMMA WritePrintableIs ==
  ASSUME NEW c, Sane(c), OnScreen(c), NEW k
  PROVE  LET d == WritePrintable(c, k)
             v == [i \in Cells |-> IF i = VPOS(c.col, c.row)
                                   THEN Cell(c.attr, k) ELSE c.vram[i]]
         IN  /\ SameMode(c, d)
             /\ c.col < VCOL_MAX => d.col = c.col + 1 /\ d.row = c.row /\ d.vram = v
             /\ c.col = VCOL_MAX /\ c.row < VROW_MAX =>
                  d.col = 0 /\ d.row = c.row + 1 /\ d.vram = v
             /\ c.col = VCOL_MAX /\ c.row = VROW_MAX =>
                  d.col = 0 /\ d.row = VROW_MAX /\ d.vram = Scrolled(v)
<1> DEFINE v == [i \in Cells |-> IF i = VPOS(c.col, c.row)
                                 THEN Cell(c.attr, k) ELSE c.vram[i]]
           p == PutCell(c, k)
           q == NextCol(p)
           r == NextLine(q)
           s == ShowLine(r)
<1>1. /\ Sane(p) /\ OnScreen(p) /\ p.vram = v
      /\ \A f \in Fields \ {"vram"} : p[f] = c[f]
  BY PutCellStores
<1> HIDE DEF p, v
<1>2. Sane(q) /\ q.col = p.col + 1 /\ \A f \in Fields \ {"col"} : q[f] = p[f]
  BY <1>1, NextColMoves
<1> HIDE DEF q
<1>3. SameMode(c, q) /\ q.vram = v /\ q.col = c.col + 1 /\ q.row = c.row
  BY <1>1, <1>2 DEF SameMode, Mode, Fields
<1>4. c.col \in 0 .. VCOL_MAX /\ c.row \in 0 .. VROW_MAX
  BY DEF Sane, OnScreen
<1>5. /\ Sane(r) /\ r.col = 0 /\ r.row = q.row + 1
      /\ \A f \in Fields \ {"col", "row"} : r[f] = q[f]
  <2>1. q.row <= VROW_MAX
    BY <1>3, <1>4
  <2> QED BY <1>2, <2>1, NextLineMoves
<1> HIDE DEF r
<1>6. SameMode(c, r) /\ r.vram = v /\ r.col = 0 /\ r.row = c.row + 1
  BY <1>3, <1>5 DEF SameMode, Mode, Fields
<1>7. /\ SameMode(r, s)
      /\ r.row <= VROW_MAX => s.col = r.col /\ s.row = r.row /\ s.vram = r.vram
      /\ r.row > VROW_MAX => s.col = 0 /\ s.row = VROW_MAX /\ s.vram = Scrolled(r.vram)
  <2>1. r.col <= VCOL_MAX
    BY <1>6
  <2> QED BY <1>5, <2>1, ShowLineIs
<1> HIDE DEF s
<1>8. SameMode(c, s)
  BY <1>6, <1>7 DEF SameMode
<1>9. WritePrintable(c, k) = IF q.col > VCOL_MAX THEN s ELSE q
  BY DEF WritePrintable, LineEnds, p, q, r, s
<1>10. CASE c.col < VCOL_MAX
  <2>1. ~(q.col > VCOL_MAX) /\ ~(c.col = VCOL_MAX)
    BY <1>3, <1>4, <1>10
  <2> QED BY <1>3, <1>9, <1>10, <2>1 DEF v
<1>11. CASE c.col = VCOL_MAX
  <2>1. q.col > VCOL_MAX /\ ~(c.col < VCOL_MAX)
    BY <1>3, <1>4, <1>11
  <2>2. WritePrintable(c, k) = s
    BY <1>9, <2>1
  <2>3. c.row < VROW_MAX => r.row <= VROW_MAX
    BY <1>4, <1>6
  <2>4. c.row = VROW_MAX => r.row > VROW_MAX
    BY <1>4, <1>6
  <2>5. c.row < VROW_MAX => s.col = 0 /\ s.row = c.row + 1 /\ s.vram = v
    BY <1>6, <1>7, <2>3
  <2>6. c.row = VROW_MAX => s.col = 0 /\ s.row = VROW_MAX /\ s.vram = Scrolled(v)
    BY <1>6, <1>7, <2>4
  <2> QED BY <1>8, <1>11, <2>1, <2>2, <2>5, <2>6 DEF v
<1> QED BY <1>4, <1>10, <1>11
LEMMA WriteTabMode ==
  ASSUME NEW c, Sane(c), OnScreen(c)
  PROVE  SameMode(c, WriteTab(c))
<1> DEFINE w == CHOOSE f : IsTab(f, c)
           Good(d) == Sane(d) /\ OnScreen(d) /\ SameMode(c, d)
<1>1. IsTab(w, c)
  BY TabExists
<1>2. WriteTab(c) = w[TabCount(c)]
  BY DEF WriteTab, IsTab, Tabbed
<1>3. TabCount(c) \in 1 .. 4
  BY DEF TabCount, TAB_WIDTH, Sane
<1> HIDE DEF w
<1>4. w[0] = c
  BY <1>1 DEF IsTab, Tabbed, TAB_WIDTH
<1>5. ASSUME NEW i \in 1 .. 4, Good(w[i - 1])
      PROVE  Good(w[i])
  <2> DEFINE d == w[i - 1]
  <2>1. w[i] = IF i > 1 /\ d.col = 0 THEN d ELSE WritePrintable(d, SPACE)
    BY <1>1 DEF IsTab, Tabbed, TAB_WIDTH
  <2> HIDE DEF d
  <2>2. Sane(d) /\ OnScreen(d) /\ SameMode(c, d)
    BY <1>5 DEF d
  <2>3. /\ Sane(WritePrintable(d, SPACE)) /\ OnScreen(WritePrintable(d, SPACE))
        /\ SameMode(d, WritePrintable(d, SPACE))
    BY <2>2, WritePrintableSane, WritePrintableIs
  <2>4. SameMode(c, WritePrintable(d, SPACE))
    BY <2>2, <2>3 DEF SameMode
  <2> QED BY <2>1, <2>2, <2>3, <2>4
<1>6. Good(w[0])
  BY <1>4 DEF SameMode
<1> HIDE DEF Good
<1>7. Good(w[1])
  BY <1>5, <1>6
<1>8. Good(w[2])
  BY <1>5, <1>7
<1>9. Good(w[3])
  BY <1>5, <1>8
<1>10. Good(w[4])
  BY <1>5, <1>9
<1>11. Good(w[TabCount(c)])
  BY <1>3, <1>7, <1>8, <1>9, <1>10
<1> QED BY <1>2, <1>11 DEF Good

\* Text changes neither the colors, nor the parser, nor the saved position.
LEMMA WriteCharMode ==
  ASSUME NEW c, Sane(c), OnScreen(c), NEW k
  PROVE  SameMode(c, WriteChar(c, k))
<1> DEFINE n == NextLine(c)
<1>1. Sane(n) /\ n.col = 0 /\ \A f \in Fields \ {"col", "row"} : n[f] = c[f]
  BY NextLineMoves DEF OnScreen
<1> HIDE DEF n
<1>2. SameMode(c, n) /\ n.col <= VCOL_MAX
  BY <1>1 DEF SameMode, Mode, Fields
<1>3. SameMode(n, ShowLine(n))
  BY <1>1, <1>2, ShowLineIs
<1>4. SameMode(c, ShowLine(NextLine(c)))
  BY <1>2, <1>3 DEF SameMode, n
<1>5. SameMode(c, c)
  BY DEF SameMode
<1> QED BY <1>4, <1>5, WriteTabMode, WritePrintableIs DEF WriteChar

(***************************************************************************)
(* An escape sequence, from a parser at rest.                              *)
(***************************************************************************)
Body == {"col", "row", "attr", "saved_col", "saved_row", "vram"}
SameBody(c, d) == \A f \in Body : d[f] = c[f]

\* Between two characters, with no sequence begun.
AtRest(c) == Sane(c) /\ OnScreen(c) /\ c.escaped = "NONE"

LEMMA Opens ==
  ASSUME NEW c, AtRest(c)
  PROVE  LET d == console_write(console_write(c, "ESC"), "[")
         IN  /\ Sane(d) /\ OnScreen(d) /\ d.escaped = "READ"
             /\ d.pos = 0 /\ d.buffer \in Cleared
             /\ SameBody(c, d)
<1> DEFINE b == [c EXCEPT !.escaped = "START"]
           e == console_write(c, "ESC")
           d == console_write(e, "[")
<1>0. Sane(c) /\ OnScreen(c) /\ c.escaped = "NONE"
  BY SMTT(20) DEF AtRest
<1>1. /\ IsConsole(b) /\ b.escaped = "START" /\ \A f \in Fields \ {"escaped"} : b[f] = c[f]
  BY <1>0 DEF Sane, IsConsole, Fields
<1>2. e = console_setcursor(b, c.col, c.row)
  BY <1>0 DEF console_write, StartEscape
<1> HIDE DEF b, e
<1>3. c.col \in 0 .. VCOL_MAX /\ c.row \in 0 .. VROW_MAX
  BY SMTT(20), <1>0 DEF Sane, OnScreen
<1>4. Sane(b)
  <2>1. /\ b.col = c.col /\ b.row = c.row /\ b.cursor = c.cursor
      /\ b.attr = c.attr /\ b.buffer = c.buffer
      /\ b.pos = c.pos /\ b.saved_col = c.saved_col /\ b.saved_row = c.saved_row
      /\ b.vram = c.vram
    BY <1>1 DEF Fields
  <2> QED BY <1>0, <1>1, <2>1 DEF Sane
<1>5. Sane(e) /\ OnScreen(e) /\ SameMode(b, e) /\ e.vram = b.vram /\ e.col = c.col /\ e.row = c.row
  <2>1. c.col \in Int /\ c.row \in Int
    BY <1>3
  <2> QED BY <1>2, <1>3, <1>4, <2>1, SetCursorMode, SetCursorSane
<1>6. e.escaped = "START" /\ SameBody(c, e) /\ e.pos = 0 /\ e.buffer \in Cleared
  <2>1. e.escaped = "START"
    BY <1>1, <1>5 DEF SameMode, Mode
  <2>2. SameBody(c, e)
    BY <1>1, <1>5 DEF SameMode, Mode, SameBody, Body, Fields
  <2>3. e.pos = 0 /\ e.buffer \in Cleared
    BY <1>5, <2>1 DEF Sane
  <2> QED BY <2>1, <2>2, <2>3
<1>7. d = [e EXCEPT !.escaped = "READ"]
  BY <1>6 DEF console_write, proc_escape
<1>8. Sane(d) /\ OnScreen(d)
  BY <1>5, <1>6, <1>7, ParserMoves
<1>9. d.escaped = "READ" /\ \A f \in Fields \ {"escaped"} : d[f] = e[f]
  BY <1>5, <1>7 DEF Sane, IsConsole, Fields
<1> HIDE DEF d
<1>10. d.pos = 0 /\ d.buffer \in Cleared /\ SameBody(c, d)
  BY <1>6, <1>9 DEF SameBody, Body, Fields
<1> QED BY <1>8, <1>9, <1>10 DEF d, e

\* A digit of a parameter.
LEMMA ReadsDigit ==
  ASSUME NEW c, Sane(c), OnScreen(c), c.escaped = "READ", c.pos \in 0 .. 15,
         NEW k \in Digits
  PROVE  LET d == console_write(c, k)
         IN  /\ Sane(d) /\ OnScreen(d) /\ d.escaped = "READ" /\ d.pos = c.pos
             /\ d.buffer = [c.buffer EXCEPT ![c.pos] =
                              IF @ < 0 THEN Digit[k] ELSE int8(@ * 10 + Digit[k])]
             /\ SameBody(c, d)
<1> DEFINE d == Accumulate(c, k)
           v == IF c.buffer[c.pos] < 0 THEN Digit[k]
                ELSE int8(c.buffer[c.pos] * 10 + Digit[k])
<1>1. console_write(c, k) = d
  BY DEF console_write, proc_escape, Finals, Digits
<1>2. Sane(d) /\ OnScreen(d) /\ \A f \in Fields \ {"buffer"} : d[f] = c[f]
  BY AccumulateKeeps
<1>3. d.buffer = [c.buffer EXCEPT ![c.pos] =
                    IF @ < 0 THEN Digit[k] ELSE int8(@ * 10 + Digit[k])]
  BY DEF Sane, IsConsole, Fields, Accumulate
<1> HIDE DEF d
<1>4. d.escaped = "READ" /\ d.pos = c.pos /\ SameBody(c, d)
  BY <1>2 DEF SameBody, Body, Fields
<1> QED BY <1>1, <1>2, <1>3, <1>4

\* The semicolon after a parameter.
LEMMA ReadsSeparator ==
  ASSUME NEW c, Sane(c), OnScreen(c), c.escaped = "READ"
  PROVE  LET d == console_write(c, ";")
         IN  /\ Sane(d) /\ OnScreen(d) /\ d.escaped = "READ" /\ d.pos = c.pos + 1
             /\ d.buffer = c.buffer
             /\ SameBody(c, d)
<1> DEFINE d == [c EXCEPT !.pos = @ + 1]
<1>1. console_write(c, ";") = d
  BY DEF console_write, proc_escape, Finals, Digits
<1>2. Sane(d) /\ OnScreen(d)
  BY ParserMoves
<1>3. d.pos = c.pos + 1 /\ \A f \in Fields \ {"pos"} : d[f] = c[f]
  BY DEF Sane, IsConsole, Fields
<1> HIDE DEF d
<1>4. d.escaped = "READ" /\ d.buffer = c.buffer /\ SameBody(c, d)
  BY <1>3 DEF SameBody, Body, Fields
<1> QED BY <1>1, <1>2, <1>3, <1>4

\* The letter that ends a sequence.
LEMMA ReadsFinal ==
  ASSUME NEW c, Sane(c), OnScreen(c), c.escaped = "READ", NEW k \in Finals
  PROVE  /\ AtRest(console_write(c, k))
         /\ SameBody(Perform(c, k), console_write(c, k))
<1> DEFINE d == Perform(c, k)
           e == EndEscape(d)
<1>1. console_write(c, k) = e
  BY DEF console_write, proc_escape, Finals, Digits
<1>2. Sane(d) /\ OnScreen(d)
  BY PerformSane
<1> HIDE DEF d
<1>3. /\ Sane(e) /\ OnScreen(e) /\ e.escaped = "NONE"
      /\ \A f \in Fields \ {"escaped", "buffer", "pos"} : e[f] = d[f]
  BY <1>2, EndEscapeKeeps
<1> HIDE DEF e
<1>4. SameBody(d, e)
  BY <1>3 DEF SameBody, Body, Fields
<1> QED BY <1>1, <1>3, <1>4 DEF AtRest, d

LEMMA RestAfterWrite ==
  ASSUME NEW c, AtRest(c), NEW k, k # "ESC"
  PROVE  /\ AtRest(console_write(c, k))
         /\ console_write(c, k) = IF c.attr.conceal THEN c ELSE WriteChar(c, k)
<1>1. Sane(c) /\ OnScreen(c) /\ c.escaped = "NONE"
  BY DEF AtRest
<1>2. console_write(c, k) = IF c.attr.conceal THEN c ELSE WriteChar(c, k)
  BY <1>1 DEF console_write
<1>3. Sane(console_write(c, k)) /\ OnScreen(console_write(c, k))
  BY <1>1, WriteSane
<1>4. WriteChar(c, k).escaped = "NONE"
  BY <1>1, WriteCharMode DEF SameMode, Mode
<1> QED BY <1>1, <1>2, <1>3, <1>4 DEF AtRest

\* However a sequence of main's is torn, ESC [ u after it ends with the parser
\* at rest.
LEMMA RestoreEndsAtRest ==
  ASSUME NEW c, Sane(c), OnScreen(c)
  PROVE  AtRest(console_write(console_write(console_write(c, "ESC"), "["), "u"))
<1>1. CASE c.escaped = "NONE"
  <2> DEFINE d == console_write(console_write(c, "ESC"), "[")
  <2>1. AtRest(c)
    BY <1>1 DEF AtRest
  <2>2. Sane(d) /\ OnScreen(d) /\ d.escaped = "READ"
    BY <2>1, Opens
  <2> HIDE DEF d
  <2>3. "u" \in Finals
    BY DEF Finals
  <2>4. AtRest(console_write(d, "u"))
    BY <2>2, <2>3, ReadsFinal
  <2> QED BY <2>4 DEF d
<1>2. CASE c.escaped # "NONE"
  <2>1. console_write(c, "ESC") = EndEscape(c)
    BY <1>2 DEF console_write, proc_escape, Finals, Digits
  <2>2. AtRest(console_write(c, "ESC"))
    BY <2>1, EndEscapeKeeps DEF AtRest
  <2>3. AtRest(console_write(console_write(c, "ESC"), "["))
    BY <2>2, RestAfterWrite
  <2> QED BY <2>3, RestAfterWrite
<1> QED BY <1>1, <1>2

(***************************************************************************)
(* printf of a string.                                                     *)
(***************************************************************************)
Strung(f, c, s, n) ==
  IF n = 0 THEN c ELSE LET d == f[n - 1] IN console_write(d, s[n])
IsStrung(f, c, s, N) == f = [n \in 0 .. N |-> Strung(f, c, s, n)]

LEMMA StrungExists ==
  ASSUME NEW c, NEW s
  PROVE  \A N \in Nat : \E f : IsStrung(f, c, s, N)
<1> DEFINE T == {N \in Nat : \E f : IsStrung(f, c, s, N)}
<1>1. 0 \in T
  <2> DEFINE f == [i \in 0 .. 0 |-> c]
  <2>1. f = [i \in 0 .. 0 |-> Strung(f, c, s, i)]
    BY DEF Strung
  <2> QED BY <2>1 DEF IsStrung
<1>2. ASSUME NEW N \in Nat, N \in T
      PROVE  N + 1 \in T
  <2>1. PICK f : IsStrung(f, c, s, N)
    BY <1>2
  <2> DEFINE g == [i \in 0 .. N + 1 |-> IF i <= N THEN f[i] ELSE Strung(f, c, s, i)]
  <2>2. \A i \in 0 .. N : g[i] = f[i]
    OBVIOUS
  <2>3. \A i \in 0 .. N + 1 : g[i] = Strung(f, c, s, i)
    BY <2>1 DEF IsStrung
  <2>4. \A i \in 0 .. N + 1 : i # 0 => i - 1 \in 0 .. N
    OBVIOUS
  <2>5. \A i \in 0 .. N + 1 : Strung(g, c, s, i) = Strung(f, c, s, i)
    <3> HIDE DEF g
    <3> QED BY <2>2, <2>4 DEF Strung
  <2>6. g = [i \in 0 .. N + 1 |-> Strung(g, c, s, i)]
    <3>1. g = [i \in 0 .. N + 1 |-> g[i]]
      OBVIOUS
    <3> HIDE DEF g
    <3>2. \A i \in 0 .. N + 1 : g[i] = Strung(g, c, s, i)
      BY <2>3, <2>5
    <3> QED BY <3>1, <3>2
  <2>7. IsStrung(g, c, s, N + 1)
    BY <2>6 DEF IsStrung
  <2> HIDE DEF g
  <2> QED BY <2>7
<1> HIDE DEF T
<1>3. \A N \in Nat : N \in T
  BY <1>1, <1>2, Induction
<1> QED BY <1>3 DEF T

LEMMA WriteStringIs ==
  ASSUME NEW c, NEW s, Len(s) \in Nat
  PROVE  \E f : /\ f[0] = c
                /\ \A n \in 1 .. Len(s) : f[n] = console_write(f[n - 1], s[n])
                /\ WriteString(c, s) = f[Len(s)]
<1> DEFINE w == CHOOSE f : IsStrung(f, c, s, Len(s))
<1>1. IsStrung(w, c, s, Len(s))
  BY StrungExists
<1>2. WriteString(c, s) = w[Len(s)]
  BY DEF WriteString, IsStrung, Strung
<1> HIDE DEF w
<1>3. w[0] = c
  BY <1>1 DEF IsStrung, Strung
<1>4. \A n \in 1 .. Len(s) : w[n] = console_write(w[n - 1], s[n])
  BY <1>1 DEF IsStrung, Strung
<1> QED BY <1>2, <1>3, <1>4
(***************************************************************************)
(* The message of rtc_isr.                                                 *)
(***************************************************************************)
LEMMA MessageLength == Len(Message) = 26
BY DEF Message

\* The message's characters, one write after the other.
LEMMA MessageWrites ==
  ASSUME NEW c
  PROVE  \E f : /\ f[0] = c
                /\ \A n \in 1 .. 26 : f[n] = console_write(f[n - 1], Message[n])
                /\ WriteString(c, Message) = f[26]
<1> DEFINE s == Message
<1>1. Len(s) = 26
  BY MessageLength
<1> HIDE DEF s
<1>2. Len(s) \in Nat
  BY <1>1
<1>3. \E f : /\ f[0] = c
             /\ \A n \in 1 .. Len(s) : f[n] = console_write(f[n - 1], s[n])
             /\ WriteString(c, s) = f[Len(s)]
  BY <1>2, WriteStringIs
<1> QED BY <1>1, <1>3 DEF s

(***************************************************************************)
(* The message inside a move of main's: the cursor stored, and not yet     *)
(* limited.  The message's first characters may go off the screen; its own *)
(* ESC [ 0;0 H brings the cursor back.                                     *)
(***************************************************************************)
\* As Sane, with the cursor anywhere.
Astray(c) ==
  /\ IsConsole(c)
  /\ c.col \in -128 .. 127 /\ c.row \in -128 .. 127
  /\ c.attr \in Attrs
  /\ c.escaped \in {"NONE", "START", "READ"}
  /\ c.buffer \in [0 .. 15 -> -128 .. 127] /\ c.pos \in Nat
  /\ c.escaped # "READ" => c.pos = 0 /\ c.buffer \in Cleared
  /\ c.saved_col \in -1 .. VCOL_MAX /\ c.saved_row \in -1 .. VROW_MAX
  /\ c.vram = [i \in Cells |-> c.vram[i]]
  /\ c.cursor \in Int

\* The parser's state is the same.
SameParser(c, d) == d.escaped = c.escaped /\ d.pos = c.pos /\ d.buffer = c.buffer

LEMMA SaneIsAstray ==
  ASSUME NEW c, Sane(c)
  PROVE  Astray(c)
<1>1. c.col \in -128 .. 127 /\ c.row \in -128 .. 127
  <2>1. c.col \in 0 .. VCOLS /\ c.row \in 0 .. VROWS
    BY DEF Sane
  <2> DEFINE x == c.col
             y == c.row
  <2>2. x \in 0 .. VCOLS /\ y \in 0 .. VROWS
    BY <2>1
  <2> HIDE DEF x, y
  <2>3. VCOLS \in 2 .. 127 /\ VROWS \in 2 .. 127
    BY ScreenAssumption
  <2>4. x \in -128 .. 127 /\ y \in -128 .. 127
    BY <2>2, <2>3
  <2> QED BY <2>4 DEF x, y
<1>2. c.cursor \in Int
  <2>1. VROWS * VCOLS \in Int
    OBVIOUS
  <2>2. c.cursor \in 0 .. VROWS * VCOLS - 1
    BY DEF Sane, Cells
  <2> DEFINE n == VROWS * VCOLS
  <2> HIDE DEF n
  <2>3. n \in Int /\ c.cursor \in 0 .. n - 1
    BY <2>1, <2>2 DEF n
  <2> QED BY <2>3
<1> QED BY <1>1, <1>2 DEF Sane, Astray

\* The cursor put at a place on the screen.
LEMMA AstrayPlaced ==
  ASSUME NEW c, Astray(c), NEW x \in 0 .. VCOL_MAX, NEW y \in 0 .. VROW_MAX
  PROVE  Sane(PlacedAt(c, x, y)) /\ OnScreen(PlacedAt(c, x, y))
<1> DEFINE d == PlacedAt(c, x, y)
<1>1. /\ IsConsole(d) /\ d.col = x /\ d.row = y /\ d.cursor = VPOS(x, y)
      /\ d.attr = c.attr /\ d.escaped = c.escaped /\ d.buffer = c.buffer
      /\ d.pos = c.pos /\ d.saved_col = c.saved_col /\ d.saved_row = c.saved_row
      /\ d.vram = c.vram
  BY DEF Astray, IsConsole, Fields, PlacedAt
<1> HIDE DEF d
<1>2. d.cursor \in Cells
  BY <1>1, CellOfPlace
<1>3. OnScreen(d)
  BY <1>1 DEF OnScreen
<1>4. Sane(d)
  BY <1>1, <1>2 DEF Sane, Astray
<1> QED BY <1>3, <1>4 DEF d

\* console_setcursor limits what is too far right or down, and takes a column
\* and a row that are not negative to the screen.
LEMMA AstrayCursor ==
  ASSUME NEW c, Astray(c), NEW col \in Int, NEW row \in Int
  PROVE  LET d == console_setcursor(c, col, row)
         IN  /\ Astray(d) /\ SameParser(c, d)
             /\ (int8(col) >= 0 \/ c.col >= 0) /\ (int8(row) >= 0 \/ c.row >= 0)
                  => Sane(d) /\ OnScreen(d)
<1> DEFINE x == IF int8(col) >= 0 THEN int8(col) ELSE c.col
           y == IF int8(row) >= 0 THEN int8(row) ELSE c.row
           u == Smaller(x, VCOL_MAX)
           v == Smaller(y, VROW_MAX)
           d == console_setcursor(c, col, row)
<1>1. c.col \in -128 .. 127 /\ c.row \in -128 .. 127
  BY DEF Astray
<1>2. int8(col) \in -128 .. 127 /\ int8(row) \in -128 .. 127
  BY Narrow
<1>3. x \in -128 .. 127 /\ y \in -128 .. 127
  BY <1>1, <1>2
<1>4. d = PlacedAt(c, u, v)
  BY DEF console_setcursor, PlacedAt
<1>5. /\ (int8(col) >= 0 \/ c.col >= 0) => x >= 0
      /\ (int8(row) >= 0 \/ c.row >= 0) => y >= 0
  BY <1>1, <1>2
<1> HIDE DEF x, y
<1>6. /\ u \in -128 .. 127 /\ v \in -128 .. 127
      /\ x >= 0 => u \in 0 .. VCOL_MAX
      /\ y >= 0 => v \in 0 .. VROW_MAX
  BY <1>3 DEF Smaller
<1> HIDE DEF u, v, d
<1>7. /\ IsConsole(d) /\ d.col = u /\ d.row = v /\ d.cursor = VPOS(u, v)
      /\ d.attr = c.attr /\ d.escaped = c.escaped /\ d.buffer = c.buffer
      /\ d.pos = c.pos /\ d.saved_col = c.saved_col /\ d.saved_row = c.saved_row
      /\ d.vram = c.vram
  BY <1>4 DEF Astray, IsConsole, Fields, PlacedAt
<1>8. VPOS(u, v) \in Int
  BY <1>6 DEF VPOS
<1>9. Astray(d)
  BY <1>6, <1>7, <1>8 DEF Astray
<1>10. x >= 0 /\ y >= 0 => Sane(d) /\ OnScreen(d)
  BY <1>4, <1>6, AstrayPlaced
<1> QED BY <1>5, <1>7, <1>9, <1>10 DEF d, SameParser

\* The column, the row and the cells changed.
LEMMA AstrayMoved ==
  ASSUME NEW c, Astray(c), NEW x \in -128 .. 127, NEW y \in -128 .. 127,
         NEW v, v = [i \in Cells |-> v[i]]
  PROVE  LET d == [c EXCEPT !.col = x, !.row = y, !.vram = v]
         IN  Astray(d) /\ SameParser(c, d)
<1> DEFINE d == [c EXCEPT !.col = x, !.row = y, !.vram = v]
<1>1. /\ IsConsole(d) /\ d.col = x /\ d.row = y /\ d.cursor = c.cursor
      /\ d.attr = c.attr /\ d.escaped = c.escaped /\ d.buffer = c.buffer
      /\ d.pos = c.pos /\ d.saved_col = c.saved_col /\ d.saved_row = c.saved_row
      /\ d.vram = v
  BY DEF Astray, IsConsole, Fields
<1> HIDE DEF d
<1>2. Astray(d)
  BY <1>1 DEF Astray
<1> QED BY <1>1, <1>2 DEF d, SameParser

LEMMA AstrayCell ==
  ASSUME NEW c, Astray(c), NEW k
  PROVE  Astray(PutCell(c, k)) /\ SameParser(c, PutCell(c, k))
<1> DEFINE p == VPOS(c.col, c.row)
           x == Cell(c.attr, k)
           v == [c.vram EXCEPT ![p] = x]
           d == [c EXCEPT !.col = c.col, !.row = c.row, !.vram = v]
<1>1. c.col \in -128 .. 127 /\ c.row \in -128 .. 127
      /\ c.vram = [i \in Cells |-> c.vram[i]]
  BY DEF Astray
<1>2. CASE p \in Cells
  <2>1. PutCell(c, k) = [c EXCEPT !.vram[p] = x]
    BY <1>2 DEF PutCell
  <2>2. v = [i \in Cells |-> v[i]]
    <3> HIDE DEF p, x
    <3> QED BY <1>1
  <2>3. PutCell(c, k) = d
    <3> HIDE DEF p, x
    <3> QED BY <2>1 DEF Astray, IsConsole, Fields
  <2> HIDE DEF v
  <2>4. Astray(d) /\ SameParser(c, d)
    BY <1>1, <2>2, AstrayMoved
  <2> QED BY <2>3, <2>4
<1>3. CASE p \notin Cells
  BY <1>3 DEF PutCell, SameParser
<1> QED BY <1>2, <1>3

LEMMA AstrayOn ==
  ASSUME NEW c, Astray(c)
  PROVE  /\ Astray(NextCol(c)) /\ SameParser(c, NextCol(c))
         /\ Astray(NextLine(c)) /\ SameParser(c, NextLine(c))
<1> DEFINE x == int8(c.col + 1)
           y == int8(c.row + 1)
           v == c.vram
           d == [c EXCEPT !.col = x, !.row = c.row, !.vram = v]
           e == [c EXCEPT !.col = 0, !.row = y, !.vram = v]
<1>1. c.col \in -128 .. 127 /\ c.row \in -128 .. 127 /\ v = [i \in Cells |-> v[i]]
  BY DEF Astray
<1>2. x \in -128 .. 127 /\ y \in -128 .. 127
  <2>1. c.col + 1 \in Int /\ c.row + 1 \in Int
    BY <1>1
  <2> QED BY <2>1, Narrow
<1>3. 0 \in -128 .. 127
  OBVIOUS
<1> HIDE DEF x, y
<1>4. NextCol(c) = d /\ NextLine(c) = e
  BY DEF NextCol, NextLine, Astray, IsConsole, Fields, x, y
<1> HIDE DEF v
<1>5. Astray(d) /\ SameParser(c, d)
  BY <1>1, <1>2, AstrayMoved
<1>6. Astray(e) /\ SameParser(c, e)
  BY <1>1, <1>2, <1>3, AstrayMoved
<1> QED BY <1>4, <1>5, <1>6

LEMMA AstrayLine ==
  ASSUME NEW c, Astray(c)
  PROVE  Astray(ShowLine(c)) /\ SameParser(c, ShowLine(c))
<1> DEFINE Up == [i \in Cells |->
               IF i <= VPOS(VCOL_MAX, VROW_MAX - 1)
               THEN c.vram[i + VCOLS * 1] ELSE Blank]
           w == [c EXCEPT !.col = c.col, !.row = c.row, !.vram = Up]
           u == console_setcursor(w, 0, VROW_MAX)
           r == [u EXCEPT !.col = u.col, !.row = VROW_MAX, !.vram = u.vram]
           d == IF c.row > VROW_MAX THEN r ELSE c
<1>1. c.col \in -128 .. 127 /\ c.row \in -128 .. 127
  BY DEF Astray
<1>2. Up = [i \in Cells |-> Up[i]]
  OBVIOUS
<1>3. console_scroll(c, 1) = console_setcursor([c EXCEPT !.vram = Up], 0, VROW_MAX)
  BY SMTT(20) DEF console_scroll
<1> HIDE DEF Up
<1>4. w = [c EXCEPT !.vram = Up]
  BY DEF Astray, IsConsole, Fields
<1>5. Astray(w) /\ SameParser(c, w)
  BY <1>1, <1>2, AstrayMoved
<1> HIDE DEF w
<1>6. 0 \in Int /\ VROW_MAX \in Int
  OBVIOUS
<1>7. Astray(u) /\ SameParser(w, u)
  BY <1>5, <1>6, AstrayCursor
<1>8. console_scroll(c, 1) = u
  BY <1>3, <1>4
<1> HIDE DEF u
<1>9. r = [u EXCEPT !.row = VROW_MAX]
  BY <1>7 DEF Astray, IsConsole, Fields
<1>10. Astray(r) /\ SameParser(u, r)
  <2> DEFINE v == u.vram
  <2>1. u.col \in -128 .. 127 /\ VROW_MAX \in -128 .. 127 /\ v = [i \in Cells |-> v[i]]
    BY <1>7 DEF Astray
  <2> HIDE DEF v
  <2>2. LET a == [u EXCEPT !.col = u.col, !.row = VROW_MAX, !.vram = v]
        IN  Astray(a) /\ SameParser(u, a)
    BY <1>7, <2>1, AstrayMoved
  <2> QED BY <2>2 DEF v
<1> HIDE DEF r
<1>11. SameParser(c, r)
  BY <1>5, <1>7, <1>10 DEF SameParser
<1>12. Astray(d) /\ SameParser(c, d)
  BY <1>10, <1>11 DEF SameParser
<1>13. ShowLine(c) = console_setcursor(d, d.col, d.row)
  BY <1>8, <1>9 DEF ShowLine
<1> HIDE DEF d
<1>14. d.col \in Int /\ d.row \in Int
  <2>1. d.col \in -128 .. 127 /\ d.row \in -128 .. 127
    BY <1>12 DEF Astray
  <2> QED BY <2>1
<1>15. LET a == console_setcursor(d, d.col, d.row) IN Astray(a) /\ SameParser(d, a)
  BY <1>12, <1>14, AstrayCursor
<1> QED BY <1>12, <1>13, <1>15 DEF SameParser

\* A printable character of the message's.
LEMMA AstrayPrinted ==
  ASSUME NEW c, Astray(c), c.escaped = "NONE", NEW k \in {"[", "s"}
  PROVE  Astray(console_write(c, k)) /\ console_write(c, k).escaped = "NONE"
<1> DEFINE p == PutCell(c, k)
           q == NextCol(p)
           n == NextLine(q)
           w == WritePrintable(c, k)
<1>1. Astray(p) /\ SameParser(c, p)
  BY AstrayCell
<1> HIDE DEF p
<1>2. Astray(q) /\ SameParser(p, q)
  BY <1>1, AstrayOn
<1> HIDE DEF q
<1>3. Astray(n) /\ SameParser(q, n)
  BY <1>2, AstrayOn
<1> HIDE DEF n
<1>4. Astray(ShowLine(n)) /\ SameParser(n, ShowLine(n))
  BY <1>3, AstrayLine
<1>5. w = IF LineEnds(q) THEN ShowLine(n) ELSE q
  BY DEF WritePrintable, n, q, p
<1> HIDE DEF w
<1>6. Astray(w) /\ w.escaped = "NONE"
  BY <1>1, <1>2, <1>3, <1>4, <1>5 DEF SameParser
<1>7. console_write(c, k) = IF c.attr.conceal THEN c ELSE w
  BY DEF console_write, WriteChar, isprint, Controls, w
<1> QED BY <1>6, <1>7

\* The message's ESC [ 0;0 H puts the cursor on the screen.
LEMMA AstrayOpens ==
  ASSUME NEW c, Astray(c), c.escaped = "NONE"
  PROVE  LET d == console_write(console_write(c, "ESC"), "[")
         IN  Astray(d) /\ d.escaped = "READ"
<1> DEFINE b == [c EXCEPT !.escaped = "START"]
           e == console_write(c, "ESC")
           d == [e EXCEPT !.escaped = "READ"]
<1>1. /\ IsConsole(b) /\ b.col = c.col /\ b.row = c.row /\ b.cursor = c.cursor
      /\ b.attr = c.attr /\ b.escaped = "START" /\ b.buffer = c.buffer
      /\ b.pos = c.pos /\ b.saved_col = c.saved_col /\ b.saved_row = c.saved_row
      /\ b.vram = c.vram
  BY DEF Astray, IsConsole, Fields
<1>2. e = console_setcursor(b, c.col, c.row)
  BY DEF console_write, StartEscape
<1> HIDE DEF b, e
<1>3. Astray(b)
  BY <1>1 DEF Astray
<1>4. Astray(e) /\ e.escaped = "START"
  <2>1. c.col \in Int /\ c.row \in Int
    BY DEF Astray
  <2> QED BY <1>1, <1>2, <1>3, <2>1, AstrayCursor DEF SameParser
<1>5. console_write(e, "[") = d
  BY <1>4 DEF console_write, proc_escape
<1>6. /\ IsConsole(d) /\ d.col = e.col /\ d.row = e.row /\ d.cursor = e.cursor
      /\ d.attr = e.attr /\ d.escaped = "READ" /\ d.buffer = e.buffer
      /\ d.pos = e.pos /\ d.saved_col = e.saved_col /\ d.saved_row = e.saved_row
      /\ d.vram = e.vram
  BY <1>4 DEF Astray, IsConsole, Fields
<1> HIDE DEF d
<1>7. Astray(d)
  BY <1>4, <1>6 DEF Astray
<1> QED BY <1>5, <1>6, <1>7 DEF e

LEMMA NatGoesOn == \A i \in Nat : i + 1 \in Nat
OBVIOUS

LEMMA AstrayReads ==
  ASSUME NEW c, Astray(c), c.escaped = "READ", NEW k \in {"0", ";"}
  PROVE  Astray(console_write(c, k)) /\ console_write(c, k).escaped = "READ"
<1> DEFINE v == [c.buffer EXCEPT ![c.pos] = IF c.buffer[c.pos] < 0 THEN Digit[k]
                                 ELSE int8(c.buffer[c.pos] * 10 + Digit[k])]
           b == IF k = "0" THEN v ELSE c.buffer
           n == IF k = "0" THEN c.pos ELSE c.pos + 1
           d == console_write(c, k)
<1>1. b \in [0 .. 15 -> -128 .. 127]
  <2>1. c.buffer \in [0 .. 15 -> -128 .. 127]
    BY DEF Astray
  <2>2. CASE k = "0"
    <3>1. k \in Digits
      BY <2>2 DEF Digits
    <3>2. v \in [0 .. 15 -> -128 .. 127]
      BY <2>1, <3>1, Accumulated
    <3> HIDE DEF v
    <3> QED BY <2>2, <3>2
  <2>3. CASE k # "0"
    <3> HIDE DEF v
    <3> QED BY <2>1, <2>3
  <2> QED BY <2>2, <2>3
<1>2. n \in Nat
  <2>1. c.pos \in Nat
    BY DEF Astray
  <2>2. c.pos + 1 \in Nat
    BY <2>1, NatGoesOn, Zenon
  <2>3. n \in {c.pos, c.pos + 1}
    <3> HIDE DEF v
    <3> QED OBVIOUS
  <2> HIDE DEF n
  <2> QED BY <2>1, <2>2, <2>3
<1>3. d = [c EXCEPT !.buffer = b, !.pos = n]
  <2>1. CASE k = "0"
    <3>1. d = Accumulate(c, k)
      BY <2>1 DEF console_write, proc_escape, Finals, Digits
    <3>2. Accumulate(c, k) = [c EXCEPT !.buffer = v]
      BY DEF Accumulate, Astray, IsConsole, Fields
    <3>3. b = v /\ n = c.pos
      BY <2>1
    <3> HIDE DEF v, b, n, d
    <3> QED BY <3>1, <3>2, <3>3 DEF Astray, IsConsole, Fields
  <2>2. CASE k = ";"
    <3>1. d = [c EXCEPT !.pos = @ + 1]
      BY <2>2 DEF console_write, proc_escape, Finals, Digits
    <3>2. b = c.buffer /\ n = c.pos + 1
      BY <2>2
    <3> HIDE DEF v, b, n, d
    <3> QED BY <3>1, <3>2 DEF Astray, IsConsole, Fields
  <2> QED BY <2>1, <2>2
<1> HIDE DEF b, n, d
<1>4. /\ IsConsole(d) /\ d.col = c.col /\ d.row = c.row /\ d.cursor = c.cursor
      /\ d.attr = c.attr /\ d.escaped = "READ" /\ d.buffer = b
      /\ d.pos = n /\ d.saved_col = c.saved_col /\ d.saved_row = c.saved_row
      /\ d.vram = c.vram
  BY <1>3 DEF Astray, IsConsole, Fields
<1>5. Astray(d)
  BY <1>1, <1>2, <1>4 DEF Astray
<1> QED BY <1>4, <1>5 DEF d

LEMMA AstrayGoesHome ==
  ASSUME NEW c, Astray(c), c.escaped = "READ"
  PROVE  AtRest(console_write(c, "H"))
<1> DEFINE x == Coord(c, 1)
           y == Coord(c, 0)
           p == console_setcursor(c, x, y)
<1>1. c.buffer[0] \in -128 .. 127 /\ c.buffer[1] \in -128 .. 127
  BY DEF Astray
<1>2. x \in 0 .. 127 /\ y \in 0 .. 127
  BY <1>1 DEF Coord
<1> HIDE DEF x, y
<1>3. int8(x) >= 0 /\ int8(y) >= 0 /\ x \in Int /\ y \in Int
  BY <1>2, Narrow
<1>4. Sane(p) /\ OnScreen(p)
  BY <1>3, AstrayCursor
<1>5. console_write(c, "H") = EndEscape(p)
  <2>1. "H" \in Moves /\ "H" \in Finals
    BY DEF Moves, Finals
  <2>2. MoveCol(c, "H") = x
    BY DEF MoveCol, x
  <2>4. MoveRow(c, "H") = y
    BY DEF MoveRow, y
  <2>3. Perform(c, "H") = p
    BY <2>1, <2>2, <2>4 DEF Perform
  <2> HIDE DEF p
  <2> QED BY <2>1, <2>3 DEF console_write, proc_escape, Finals, Digits
<1> HIDE DEF p
<1> QED BY <1>4, <1>5, EndEscapeKeeps DEF AtRest

LEMMA AstrayEnds ==
  ASSUME NEW c, Astray(c), c.escaped = "READ"
  PROVE  LET d == console_write(c, "ESC") IN Astray(d) /\ d.escaped = "NONE"
<1> DEFINE d == EndEscape(c)
<1>1. console_write(c, "ESC") = d
  BY DEF console_write, proc_escape, Finals, Digits
<1>2. /\ IsConsole(d) /\ d.col = c.col /\ d.row = c.row /\ d.cursor = c.cursor
      /\ d.attr = c.attr /\ d.escaped = "NONE" /\ d.buffer = NoParams
      /\ d.pos = 0 /\ d.saved_col = c.saved_col /\ d.saved_row = c.saved_row
      /\ d.vram = c.vram
  BY DEF Astray, IsConsole, Fields, EndEscape
<1>3. NoParams \in [0 .. 15 -> -128 .. 127] /\ NoParams \in Cleared
  BY DEF NoParams, Cleared
<1> HIDE DEF d
<1>4. Astray(d)
  BY <1>2, <1>3 DEF Astray
<1> QED BY <1>1, <1>2, <1>4

\* A console that is astray as a sequence is read is home after nine characters.
LEMMA MessageHome ==
  ASSUME NEW f, Astray(f[0]), f[0].escaped = "READ",
         \A n \in 1 .. 26 : f[n] = console_write(f[n - 1], Message[n])
  PROVE  AtRest(f[9])
<1>1. /\ f[1] = console_write(f[0], "ESC") /\ f[2] = console_write(f[1], "[")
      /\ f[3] = console_write(f[2], "s") /\ f[4] = console_write(f[3], "ESC")
      /\ f[5] = console_write(f[4], "[") /\ f[6] = console_write(f[5], "0")
      /\ f[7] = console_write(f[6], ";") /\ f[8] = console_write(f[7], "0")
      /\ f[9] = console_write(f[8], "H")
  <2>1. /\ Message[1] = "ESC" /\ Message[2] = "[" /\ Message[3] = "s"
        /\ Message[4] = "ESC" /\ Message[5] = "[" /\ Message[6] = "0"
        /\ Message[7] = ";" /\ Message[8] = "0" /\ Message[9] = "H"
    BY DEF Message
  <2>2. /\ 1 \in 1 .. 26 /\ 2 \in 1 .. 26 /\ 3 \in 1 .. 26 /\ 4 \in 1 .. 26
        /\ 5 \in 1 .. 26 /\ 6 \in 1 .. 26 /\ 7 \in 1 .. 26 /\ 8 \in 1 .. 26
        /\ 9 \in 1 .. 26
        /\ 1 - 1 = 0 /\ 2 - 1 = 1 /\ 3 - 1 = 2 /\ 4 - 1 = 3 /\ 5 - 1 = 4
        /\ 6 - 1 = 5 /\ 7 - 1 = 6 /\ 8 - 1 = 7 /\ 9 - 1 = 8
    OBVIOUS
  <2>3. \A n \in 1 .. 26 : f[n] = console_write(f[n - 1], Message[n])
    OBVIOUS
  <2>4. f[1] = console_write(f[0], "ESC") /\ f[2] = console_write(f[1], "[")
    BY <2>1, <2>2, <2>3
  <2>5. f[3] = console_write(f[2], "s") /\ f[4] = console_write(f[3], "ESC")
    BY <2>1, <2>2, <2>3
  <2>6. f[5] = console_write(f[4], "[") /\ f[6] = console_write(f[5], "0")
    BY <2>1, <2>2, <2>3
  <2>7. f[7] = console_write(f[6], ";") /\ f[8] = console_write(f[7], "0")
    BY <2>1, <2>2, <2>3
  <2>8. f[9] = console_write(f[8], "H")
    BY <2>1, <2>2, <2>3
  <2> QED BY <2>4, <2>5, <2>6, <2>7, <2>8
<1> DEFINE printed == {"[", "s"}
           param == {"0", ";"}
<1>10. /\ "[" \in printed /\ "s" \in printed
       /\ "0" \in param /\ ";" \in param
  OBVIOUS
<1>11. \A c : \A k \in printed : Astray(c) /\ c.escaped = "NONE" =>
         Astray(console_write(c, k)) /\ console_write(c, k).escaped = "NONE"
  BY AstrayPrinted
<1>12. \A c : \A k \in param : Astray(c) /\ c.escaped = "READ" =>
         Astray(console_write(c, k)) /\ console_write(c, k).escaped = "READ"
  BY AstrayReads
<1> HIDE DEF printed, param
<1> DEFINE Plain(c) == Astray(c) /\ c.escaped = "NONE"
           Reads(c) == Astray(c) /\ c.escaped = "READ"
<1>13. \A c : Plain(c) =>
         Plain(console_write(c, "[")) /\ Plain(console_write(c, "s"))
  BY <1>10, <1>11, Zenon
<1>14. \A c : Reads(c) =>
         Reads(console_write(c, "0")) /\ Reads(console_write(c, ";"))
  BY <1>10, <1>12, Zenon
<1>2. Plain(f[1])
  BY <1>1, AstrayEnds
<1>19. \A c : Plain(c) => Reads(console_write(console_write(c, "ESC"), "["))
  BY AstrayOpens, Zenon
<1> HIDE DEF Plain, Reads
<1>3. Plain(f[2])
  BY ONLY <1>1, <1>2, <1>13, Zenon
<1>4. Plain(f[3])
  BY ONLY <1>1, <1>3, <1>13, Zenon
<1>5. Reads(f[5])
  BY ONLY <1>1, <1>4, <1>19, Zenon
<1>6. Reads(f[6])
  BY ONLY <1>1, <1>5, <1>14, Zenon
<1>7. Reads(f[7])
  BY ONLY <1>1, <1>6, <1>14, Zenon
<1>8. Reads(f[8])
  BY ONLY <1>1, <1>7, <1>14, Zenon
<1>9. Astray(f[8]) /\ f[8].escaped = "READ" /\ f[9] = console_write(f[8], "H")
  BY ONLY <1>1, <1>8, Zenon DEF Reads
<1> QED BY <1>9, AstrayGoesHome

\* From the first of its characters that leaves the console sane, with its
\* cursor on the screen, the message leaves the parser at rest.
LEMMA MessageEnds ==
  ASSUME NEW f, \A n \in 1 .. 26 : f[n] = console_write(f[n - 1], Message[n]),
         NEW m \in 1 .. 23, Sane(f[m]), OnScreen(f[m])
  PROVE  AtRest(f[26])
<1>0. \A n \in 1 .. 26 : f[n] = console_write(f[n - 1], Message[n])
  OBVIOUS
<1> DEFINE T == {n \in Nat : m + n <= 26 => Sane(f[m + n]) /\ OnScreen(f[m + n])}
<1>2. 0 \in T
  <2>1. m + 0 = m
    OBVIOUS
  <2> QED BY <2>1
<1>3. ASSUME NEW n \in Nat, n \in T PROVE n + 1 \in T
  <2> SUFFICES ASSUME m + (n + 1) <= 26
               PROVE  Sane(f[m + (n + 1)]) /\ OnScreen(f[m + (n + 1)])
    OBVIOUS
  <2> DEFINE i == m + n
             j == m + (n + 1)
  <2>1. i <= 26
    OBVIOUS
  <2>2. j \in 1 .. 26 /\ j - 1 = i
    OBVIOUS
  <2>3. Sane(f[i]) /\ OnScreen(f[i])
    BY <1>3, <2>1
  <2> HIDE DEF i, j
  <2>4. f[j] = console_write(f[i], Message[j])
    BY <1>0, <2>2
  <2>5. Sane(f[j]) /\ OnScreen(f[j])
    BY <2>3, <2>4, WriteSane
  <2> QED BY <2>5 DEF j
<1>4. \A n \in Nat : n \in T
  <2> HIDE DEF T
  <2> QED BY <1>2, <1>3, Induction
<1>5. Sane(f[23]) /\ OnScreen(f[23])
  <2>1. 23 - m \in Nat /\ m + (23 - m) = 23
    OBVIOUS
  <2>2. 23 - m \in T
    BY <1>4, <2>1
  <2> QED BY <2>1, <2>2
<1>6. /\ f[24] = console_write(f[23], "ESC")
      /\ f[25] = console_write(f[24], "[")
      /\ f[26] = console_write(f[25], "u")
  <2>1. Message[24] = "ESC" /\ Message[25] = "[" /\ Message[26] = "u"
    BY DEF Message
  <2>2. /\ 24 \in 1 .. 26 /\ 25 \in 1 .. 26 /\ 26 \in 1 .. 26
        /\ 24 - 1 = 23 /\ 25 - 1 = 24 /\ 26 - 1 = 25
    OBVIOUS
  <2> QED BY <1>0, <2>1, <2>2
<1> QED BY <1>5, <1>6, RestoreEndsAtRest

\* Wherever the message comes, it leaves the cursor on the screen and the parser
\* at rest: it finds the cursor on the screen, the parser at rest, or a move of
\* main's that is stored and not yet limited.
LEMMA MessageAtRest ==
  ASSUME NEW c, \/ Sane(c) /\ (OnScreen(c) \/ c.escaped = "NONE")
                \/ Astray(c) /\ c.escaped = "READ"
  PROVE  AtRest(WriteString(c, Message))
<1>1. PICK f : /\ f[0] = c
               /\ \A n \in 1 .. 26 : f[n] = console_write(f[n - 1], Message[n])
               /\ WriteString(c, Message) = f[26]
  BY MessageWrites
<1>2. CASE Sane(c) /\ (OnScreen(c) \/ c.escaped = "NONE")
  <2>1. f[1] = console_write(c, "ESC")
    <3>1. Message[1] = "ESC"
      BY DEF Message
    <3>2. 1 \in 1 .. 26 /\ 1 - 1 = 0
      OBVIOUS
    <3> QED BY <1>1, <3>1, <3>2
  <2>2. Sane(f[1]) /\ OnScreen(f[1])
    BY <1>2, <2>1, WriteSane
  <2>3. 1 \in 1 .. 23
    OBVIOUS
  <2> QED BY <1>1, <2>2, <2>3, MessageEnds
<1>3. CASE Astray(c) /\ c.escaped = "READ"
  <2>1. AtRest(f[9])
    BY <1>1, <1>3, MessageHome
  <2>2. Sane(f[9]) /\ OnScreen(f[9]) /\ 9 \in 1 .. 23
    BY <2>1 DEF AtRest
  <2> QED BY <1>1, <2>2, MessageEnds
<1> QED BY <1>2, <1>3

-----------------------------------------------------------------------------
(***************************************************************************)
(* The invariant: where main may be in console_write and what it may find  *)
(* there, with the handler's message between any two of its steps.         *)
(***************************************************************************)
Steps == {"idle", "start", "proc", "overrun", "limit", "load_col", "drop_col",
          "test_row", "load_row", "drop_row", "end", "newline", "newline_fit",
          "put", "advance", "wrap", "wrap_fit"}

\* The steps at which the cursor is on the screen, and those of a character
\* that is no part of a sequence.
ScreenSteps == Steps \ {"limit", "newline_fit", "wrap", "wrap_fit"}
PlainSteps == {"start", "newline", "newline_fit", "put", "advance", "wrap", "wrap_fit"}

Bounds == pc \in Steps /\ calls \in 0 .. MaxCalls /\ prints \in 0 .. MaxPrints

\* A move of main's is stored and not yet limited; or a message has come since.
Stored(c) ==
  /\ Astray(c) /\ c.col >= 0 /\ c.row >= 0 /\ c.cursor \in Cells
  /\ c.escaped = "READ" \/ AtRest(c)

ConsoleInv ==
  /\ Bounds
  /\ IF pc = "limit" THEN Stored(con) ELSE Sane(con)
  /\ left \in 0 .. TAB_WIDTH
  /\ pc \in ScreenSteps => OnScreen(con)
  /\ pc = "wrap" => con.row <= VROW_MAX
  /\ pc \in PlainSteps => con.escaped = "NONE"
  /\ pc = "load_col" => con.saved_col >= 0
  /\ pc = "load_row" => con.saved_row >= 0

LEMMA InitConsoleInv ==
  ASSUME Init
  PROVE  ConsoleInv
<1>1. con = Console0 /\ pc = "idle" /\ left = 0 /\ calls = 0 /\ prints = 0
  BY DEF Init
<1>2. IsConsole(con)
  BY <1>1 DEF Console0, IsConsole, Fields
<1>3. /\ con.col = 0 /\ con.row = 0 /\ con.attr = PlainAttr /\ con.escaped = "NONE"
      /\ con.buffer = [NoParams EXCEPT ![0] = -1] /\ con.pos = 0
      /\ con.saved_col = -1 /\ con.saved_row = -1 /\ con.cursor = 0
      /\ con.vram = [i \in Cells |-> Blank]
  BY <1>1 DEF Console0
<1>4. PlainAttr \in Attrs
  BY DEF PlainAttr, Attrs, BLACK, WHITE
<1>5. /\ [NoParams EXCEPT ![0] = -1] \in [0 .. 15 -> -128 .. 127]
      /\ [NoParams EXCEPT ![0] = -1] \in Cleared
  BY DEF NoParams, Cleared
<1>6. 0 \in Cells
  <2>1. 0 \in 0 .. VCOL_MAX /\ 0 \in 0 .. VROW_MAX /\ VPOS(0, 0) = 0
    BY DEF VPOS
  <2> QED BY <2>1, CellOfPlace
<1>7. Sane(con) /\ OnScreen(con)
  <2>1. con.vram = [i \in Cells |-> con.vram[i]]
    BY <1>3
  <2> QED BY <1>2, <1>3, <1>4, <1>5, <1>6, <2>1 DEF Sane, OnScreen
<1>8. Bounds
  BY <1>1, BoundsAssumption DEF Bounds, Steps
<1> QED BY <1>1, <1>7, <1>8 DEF ConsoleInv, TAB_WIDTH, ScreenSteps, PlainSteps

\* Main's step and the two counters stay in their ranges, whatever happens.
LEMMA NextBounds ==
  ASSUME Bounds, [Next]_vars
  PROVE  Bounds'
<1>1. ASSUME NEW items, Ask(items) PROVE Bounds'
  BY <1>1, BoundsAssumption DEF Ask, Bounds
<1>2. CASE console_write_main
  <2>1. UNCHANGED <<calls, prints>> /\ pc' \in Steps
    <3>1. CASE MoveCursor \/ Enter
      BY <3>1 DEF MoveCursor, Enter, Branch, Bounds, Steps
    <3>2. CASE Escape \/ Overrun \/ Move \/ Limit
      BY <3>2 DEF Escape, Overrun, Move, Limit, local, Steps
    <3>3. CASE Restore
      BY <3>3 DEF Restore, TestCol, LoadCol, DropCol, TestRow, LoadRow, DropRow,
                  EndRestore, local, Steps
    <3>4. CASE Newline \/ NewlineFit \/ PutChar \/ AdvanceCol \/ Wrap
      BY <3>4 DEF Newline, NewlineFit, PutChar, AdvanceCol, Wrap, local, Steps
    <3>5. CASE NoWrap \/ WrapFit
      BY <3>5 DEF NoWrap, WrapFit, Return, local, Steps
    <3> QED BY <1>2, <3>1, <3>2, <3>3, <3>4, <3>5 DEF console_write_main
  <2> QED BY <2>1 DEF Bounds
<1>3. CASE RtcPrint
  BY <1>3, BoundsAssumption DEF RtcPrint, Bounds
<1>4. CASE UNCHANGED vars
  BY <1>4 DEF vars, Bounds
<1> QED BY <1>1, <1>2, <1>3, <1>4
        DEF Next, PutText, PutColor, PutSequence, console_read

\* The steps of ESC [ u.
LEMMA RestoreStepsSane ==
  ASSUME NEW c, Sane(c), OnScreen(c)
  PROVE  /\ c.saved_col >= 0 => LET d == [c EXCEPT !.col = c.saved_col]
                                IN  Sane(d) /\ OnScreen(d)
         /\ c.saved_row >= 0 => LET d == [c EXCEPT !.row = c.saved_row]
                                IN  Sane(d) /\ OnScreen(d)
         /\ LET d == [c EXCEPT !.saved_col = -1] IN Sane(d) /\ OnScreen(d)
         /\ LET d == [c EXCEPT !.saved_row = -1] IN Sane(d) /\ OnScreen(d)
<1>1. ASSUME c.saved_col >= 0
      PROVE  LET d == [c EXCEPT !.col = c.saved_col] IN Sane(d) /\ OnScreen(d)
  <2> DEFINE d == [c EXCEPT !.col = c.saved_col]
  <2>1. /\ IsConsole(d) /\ d.col = c.saved_col /\ d.row = c.row /\ d.cursor = c.cursor
        /\ d.attr = c.attr /\ d.escaped = c.escaped /\ d.buffer = c.buffer
        /\ d.pos = c.pos /\ d.saved_col = c.saved_col /\ d.saved_row = c.saved_row
        /\ d.vram = c.vram
    BY DEF Sane, IsConsole, Fields
  <2> HIDE DEF d
  <2>2. Sane(d) /\ OnScreen(d)
    BY <1>1, <2>1 DEF Sane, OnScreen
  <2> QED BY <2>2 DEF d
<1>2. ASSUME c.saved_row >= 0
      PROVE  LET d == [c EXCEPT !.row = c.saved_row] IN Sane(d) /\ OnScreen(d)
  <2> DEFINE d == [c EXCEPT !.row = c.saved_row]
  <2>1. /\ IsConsole(d) /\ d.col = c.col /\ d.row = c.saved_row /\ d.cursor = c.cursor
        /\ d.attr = c.attr /\ d.escaped = c.escaped /\ d.buffer = c.buffer
        /\ d.pos = c.pos /\ d.saved_col = c.saved_col /\ d.saved_row = c.saved_row
        /\ d.vram = c.vram
    BY DEF Sane, IsConsole, Fields
  <2> HIDE DEF d
  <2>2. Sane(d) /\ OnScreen(d)
    BY <1>2, <2>1 DEF Sane, OnScreen
  <2> QED BY <2>2 DEF d
<1>3. LET d == [c EXCEPT !.saved_col = -1] IN Sane(d) /\ OnScreen(d)
  <2> DEFINE d == [c EXCEPT !.saved_col = -1]
  <2>1. /\ IsConsole(d) /\ d.col = c.col /\ d.row = c.row /\ d.cursor = c.cursor
        /\ d.attr = c.attr /\ d.escaped = c.escaped /\ d.buffer = c.buffer
        /\ d.pos = c.pos /\ d.saved_col = -1 /\ d.saved_row = c.saved_row
        /\ d.vram = c.vram
    BY DEF Sane, IsConsole, Fields
  <2> HIDE DEF d
  <2>2. Sane(d) /\ OnScreen(d)
    BY <2>1 DEF Sane, OnScreen
  <2> QED BY <2>2 DEF d
<1>4. LET d == [c EXCEPT !.saved_row = -1] IN Sane(d) /\ OnScreen(d)
  <2> DEFINE d == [c EXCEPT !.saved_row = -1]
  <2>1. /\ IsConsole(d) /\ d.col = c.col /\ d.row = c.row /\ d.cursor = c.cursor
        /\ d.attr = c.attr /\ d.escaped = c.escaped /\ d.buffer = c.buffer
        /\ d.pos = c.pos /\ d.saved_col = c.saved_col /\ d.saved_row = -1
        /\ d.vram = c.vram
    BY DEF Sane, IsConsole, Fields
  <2> HIDE DEF d
  <2>2. Sane(d) /\ OnScreen(d)
    BY <2>1 DEF Sane, OnScreen
  <2> QED BY <2>2 DEF d
<1> QED BY <1>1, <1>2, <1>3, <1>4

LEMMA RestoreKeepsInv ==
  ASSUME ConsoleInv, Restore, Bounds'
  PROVE  ConsoleInv'
<1>1. /\ Sane(con) /\ OnScreen(con) /\ left' = left /\ left \in 0 .. TAB_WIDTH
      /\ pc' \in {"load_col", "drop_col", "test_row", "load_row", "drop_row",
                  "end", "idle"}
      /\ pc' = "load_col" => con'.saved_col >= 0
      /\ pc' = "load_row" => con'.saved_row >= 0
  BY DEF ConsoleInv, ScreenSteps, Steps, Restore, TestCol, LoadCol, DropCol,
         TestRow, LoadRow, DropRow, EndRestore
<1>2. Sane(con') /\ OnScreen(con')
  <2>1. CASE TestCol \/ TestRow
    BY <1>1, <2>1 DEF TestCol, TestRow
  <2>2. CASE LoadCol
    <3>1. con.saved_col >= 0 /\ con' = [con EXCEPT !.col = con.saved_col]
      BY <2>2 DEF LoadCol, ConsoleInv
    <3> QED BY <1>1, <3>1, RestoreStepsSane
  <2>3. CASE LoadRow
    <3>1. con.saved_row >= 0 /\ con' = [con EXCEPT !.row = con.saved_row]
      BY <2>3 DEF LoadRow, ConsoleInv
    <3> QED BY <1>1, <3>1, RestoreStepsSane
  <2>4. CASE DropCol
    <3>1. con' = [con EXCEPT !.saved_col = -1]
      BY <2>4 DEF DropCol
    <3> QED BY <1>1, <3>1, RestoreStepsSane
  <2>5. CASE DropRow
    <3>1. con' = [con EXCEPT !.saved_row = -1]
      BY <2>5 DEF DropRow
    <3> QED BY <1>1, <3>1, RestoreStepsSane
  <2>6. CASE EndRestore
    <3>1. con' = EndEscape(con)
      BY <2>6 DEF EndRestore
    <3> QED BY <1>1, <3>1, EndEscapeKeeps
  <2> QED BY <2>1, <2>2, <2>3, <2>4, <2>5, <2>6 DEF Restore
<1> QED BY <1>1, <1>2 DEF ConsoleInv, ScreenSteps, PlainSteps

\* A letter that moves the cursor.
LEMMA MoveKeepsInv ==
  ASSUME ConsoleInv, Move \/ Limit, Bounds'
  PROVE  ConsoleInv'
<1>1. CASE Move
  <2> DEFINE x == MoveCol(con, ch)
             y == MoveRow(con, ch)
             d == StoreCursor(con, x, y)
  <2>1. /\ Sane(con) /\ con.escaped = "READ" /\ ch \in Moves
        /\ con' = d /\ pc' = "limit" /\ left' = left /\ left \in 0 .. TAB_WIDTH
    BY <1>1 DEF Move, ConsoleInv
  <2>2. x \in Int /\ y \in Int
    <3>1. con.col \in Int /\ con.row \in Int /\ con.buffer \in [0 .. 15 -> -128 .. 127]
      BY <2>1 DEF Sane
    <3> QED BY <2>1, <3>1, MovesAreIntegers
  <2> HIDE DEF x, y
  <2> DEFINE u == IF int8(x) >= 0 THEN int8(x) ELSE con.col
             v == IF int8(y) >= 0 THEN int8(y) ELSE con.row
             w == con.vram
             e == [con EXCEPT !.col = u, !.row = v, !.vram = w]
  <2>3. u \in 0 .. 127 /\ v \in 0 .. 127
    <3>1. int8(x) \in -128 .. 127 /\ int8(y) \in -128 .. 127
      BY <2>2, Narrow
    <3>2. con.col \in 0 .. VCOLS /\ con.row \in 0 .. VROWS
      BY <2>1 DEF Sane
    <3>3. con.col \in 0 .. 127 /\ con.row \in 0 .. 127
      BY <3>2, ScreenAssumption
    <3> QED BY <3>1, <3>3
  <2>4. d = [con EXCEPT !.col = u, !.row = v]
    BY DEF StoreCursor
  <2> HIDE DEF u, v, d
  <2>5. d = e
    BY <2>1, <2>4 DEF Sane, IsConsole, Fields
  <2>6. w = [i \in Cells |-> w[i]]
    BY <2>1 DEF Sane
  <2> HIDE DEF w
  <2>7. Astray(con) /\ u \in -128 .. 127 /\ v \in -128 .. 127
    BY <2>1, <2>3, SaneIsAstray
  <2>8. Astray(e) /\ SameParser(con, e)
    BY <2>6, <2>7, AstrayMoved
  <2>9. e.col = u /\ e.row = v /\ e.cursor = con.cursor
    BY <2>1 DEF Sane, IsConsole, Fields
  <2> HIDE DEF e
  <2>10. Stored(e)
    BY <2>1, <2>3, <2>8, <2>9 DEF Stored, SameParser, Sane
  <2> QED BY <2>1, <2>5, <2>10 DEF ConsoleInv, ScreenSteps, PlainSteps
<1>2. CASE Limit
  <2> DEFINE d == console_setcursor(con, -1, -1)
  <2>1. /\ Stored(con) /\ con' = EndEscape(d) /\ pc' = "idle"
        /\ left' = left /\ left \in 0 .. TAB_WIDTH
    BY <1>2 DEF Limit, ConsoleInv
  <2>2. -1 \in Int
    OBVIOUS
  <2>3. Sane(d) /\ OnScreen(d)
    BY <2>1, <2>2, AstrayCursor DEF Stored
  <2> HIDE DEF d
  <2>4. Sane(con') /\ OnScreen(con')
    BY <2>1, <2>3, EndEscapeKeeps
  <2> QED BY <2>1, <2>4 DEF ConsoleInv, ScreenSteps, PlainSteps
<1> QED BY <1>1, <1>2

LEMMA WriteKeepsInv ==
  ASSUME ConsoleInv, console_write_main, Bounds'
  PROVE  ConsoleInv'
<1>0. left \in 0 .. TAB_WIDTH
  BY DEF ConsoleInv, ScreenSteps, PlainSteps, Steps
<1>1. CASE MoveCursor
  <2>1. pc = "idle" /\ Sane(con) /\ OnScreen(con) /\ pc' = pc /\ left' = left
    BY <1>1 DEF MoveCursor, ConsoleInv, ScreenSteps, PlainSteps, Steps
  <2>2. Sane(con') /\ OnScreen(con')
    <3>1. -1 \in Int /\ -1 <= 0
      OBVIOUS
    <3>2. con' = console_setcursor(con, -1, -1) \/ con' = console_mvcursor(con, -1)
      BY <1>1 DEF MoveCursor
    <3> QED BY <1>0, <2>1, <3>1, <3>2, SetCursorSane, MoveCursorSane
  <2> QED BY <1>0, <2>1, <2>2 DEF ConsoleInv, ScreenSteps, PlainSteps, Steps
<1>2. CASE Enter
  <2>1. pc = "idle" /\ Sane(con) /\ OnScreen(con) /\ con' = con /\ con.row <= VROW_MAX
    BY <1>2 DEF Enter, ConsoleInv, OnScreen, ScreenSteps, PlainSteps, Steps
  <2>2. pc' = Branch(Head(out)) /\ left' \in {0, TabCount(con)}
    BY <1>2 DEF Enter
  <2>3. /\ pc' \in {"proc", "start", "idle", "newline", "put", "wrap"}
        /\ pc' \notin {"idle", "proc"} => con.escaped = "NONE"
    BY <2>2 DEF Branch
  <2>4. left' \in 0 .. TAB_WIDTH
    BY <2>1, <2>2 DEF TabCount, TAB_WIDTH, Sane
  <2> QED BY <1>0, <2>1, <2>3, <2>4 DEF ConsoleInv, OnScreen, ScreenSteps, PlainSteps, Steps
<1>3. CASE Escape
  <2>1. pc \in {"start", "proc"} /\ Sane(con) /\ OnScreen(con) /\ pc' = "idle" /\ left' = left
    BY <1>3 DEF Escape, ConsoleInv, ScreenSteps, PlainSteps, Steps
  <2>2. Sane(con') /\ OnScreen(con')
    <3>1. CASE pc = "start"
      BY <2>1, <1>3, <3>1, StartEscapeSane DEF Escape, ConsoleInv, ScreenSteps, PlainSteps, Steps
    <3>2. CASE pc = "proc"
      <4>1. con' = proc_escape(con, ch)
        BY <1>3, <3>2 DEF Escape
      <4> QED BY <2>1, <4>1, EscapeSane
    <3> QED BY <2>1, <3>1, <3>2
  <2> QED BY <1>0, <2>1, <2>2 DEF ConsoleInv, ScreenSteps, PlainSteps, Steps
<1>4. CASE Newline
  <2>1. /\ Sane(con) /\ pc = "newline" /\ OnScreen(con) /\ con.escaped = "NONE"
        /\ con' = NextLine(con) /\ pc' = "newline_fit" /\ left' = left
    BY <1>4 DEF Newline, ConsoleInv, ScreenSteps, PlainSteps, Steps
  <2>2. Sane(con') /\ con'.escaped = "NONE"
    BY <1>0, <2>1, NextLineMoves DEF OnScreen, Fields
  <2> QED BY <1>0, <2>1, <2>2 DEF ConsoleInv, ScreenSteps, PlainSteps, Steps
<1>5. CASE NewlineFit
  <2>1. /\ Sane(con) /\ pc = "newline_fit" /\ con.escaped = "NONE" /\ con' = ShowLine(con)
        /\ pc' = "wrap" /\ left' = left
    BY <1>5 DEF NewlineFit, ConsoleInv, ScreenSteps, PlainSteps, Steps
  <2>2. Sane(con') /\ OnScreen(con') /\ con'.escaped = "NONE"
    BY <1>0, <2>1, ShowLineSane, ShowLineMode DEF SameMode, Mode
  <2> QED BY <1>0, <2>1, <2>2 DEF ConsoleInv, OnScreen, ScreenSteps, PlainSteps, Steps
<1>6. CASE PutChar
  <2>1. /\ Sane(con) /\ pc = "put" /\ OnScreen(con) /\ con.escaped = "NONE"
        /\ con' = PutCell(con, ch) /\ pc' = "advance" /\ left' = left
    BY <1>6 DEF PutChar, ConsoleInv, ScreenSteps, PlainSteps, Steps
  <2>2. Sane(con') /\ OnScreen(con') /\ con'.escaped = "NONE"
    <3> DEFINE d == PutCell(con, ch)
    <3>1. Sane(d) /\ OnScreen(d) /\ \A f \in Fields \ {"vram"} : d[f] = con[f]
      BY <1>0, <2>1, PutCellStores
    <3> HIDE DEF d
    <3>2. d.escaped = con.escaped
      BY <3>1 DEF Fields
    <3> QED BY <2>1, <3>1, <3>2 DEF d
  <2> QED BY <1>0, <2>1, <2>2 DEF ConsoleInv, ScreenSteps, PlainSteps, Steps
<1>7. CASE AdvanceCol
  <2>1. /\ Sane(con) /\ pc = "advance" /\ OnScreen(con) /\ con.escaped = "NONE"
        /\ con' = NextCol(con) /\ pc' = "wrap" /\ left' = left
    BY <1>7 DEF AdvanceCol, ConsoleInv, ScreenSteps, PlainSteps, Steps
  <2>2. Sane(con') /\ con'.row = con.row /\ con'.escaped = "NONE"
    BY <1>0, <2>1, NextColMoves DEF Fields
  <2> QED BY <1>0, <2>1, <2>2 DEF ConsoleInv, OnScreen, ScreenSteps, PlainSteps, Steps
<1>8. CASE Wrap
  <2>1. /\ Sane(con) /\ pc = "wrap" /\ con.row <= VROW_MAX /\ con.escaped = "NONE"
        /\ con' = NextLine(con) /\ pc' = "wrap_fit" /\ left' = left
    BY <1>8 DEF Wrap, ConsoleInv, ScreenSteps, PlainSteps, Steps
  <2>2. Sane(con') /\ con'.escaped = "NONE"
    BY <1>0, <2>1, NextLineMoves DEF Fields
  <2> QED BY <1>0, <2>1, <2>2 DEF ConsoleInv, ScreenSteps, PlainSteps, Steps
<1>9. ASSUME Return(con')
      PROVE  /\ left' \in 0 .. TAB_WIDTH
             /\ pc' \in {"idle", "wrap", "put"}
  <2>1. left' \in {0, left - 1} /\ (left = 0 => left' = 0)
    BY <1>9 DEF Return
  <2>2. left' \in 0 .. TAB_WIDTH
    BY <1>0, <2>1 DEF TAB_WIDTH
  <2> QED BY <1>9, <2>2 DEF Return
<1>10. CASE NoWrap
  <2>1. /\ Sane(con) /\ pc = "wrap" /\ con.row <= VROW_MAX /\ con.escaped = "NONE"
        /\ con' = con /\ ~(con.col > VCOL_MAX) /\ Return(con')
    BY <1>10 DEF NoWrap, ConsoleInv, LineEnds, Return, ScreenSteps, PlainSteps, Steps
  <2>2. OnScreen(con')
    BY <1>0, <2>1 DEF Sane, OnScreen
  <2> QED BY <1>0, <1>9, <2>1, <2>2 DEF ConsoleInv, OnScreen, ScreenSteps, PlainSteps, Steps
<1>11. CASE WrapFit
  <2>1. /\ Sane(con) /\ pc = "wrap_fit" /\ con.escaped = "NONE" /\ con' = ShowLine(con)
        /\ Return(con')
    BY <1>11 DEF WrapFit, ConsoleInv, ScreenSteps, PlainSteps, Steps
  <2>2. Sane(con') /\ OnScreen(con') /\ con'.escaped = "NONE"
    BY <1>0, <2>1, ShowLineSane, ShowLineMode DEF SameMode, Mode
  <2> QED BY <1>0, <1>9, <2>1, <2>2 DEF ConsoleInv, OnScreen, ScreenSteps, PlainSteps, Steps
<1>12. CASE Overrun
  BY <1>12 DEF Overrun, ConsoleInv, ScreenSteps, PlainSteps, Steps
<1>13. CASE Move \/ Limit
  BY <1>13, MoveKeepsInv
<1>14. CASE Restore
  BY <1>14, RestoreKeepsInv
<1> QED BY <1>12, <1>13, <1>14, <1>1, <1>2, <1>3, <1>4, <1>5, <1>6, <1>7, <1>8, <1>10, <1>11
        DEF console_write_main

\* With a message between the test of a saved coordinate and its use, main's
\* column or row may become -1: the invariant promises nothing after that.
LEMMA NextConsoleInv ==
  ASSUME ConsoleInv, [Next]_vars
  PROVE  cut' \/ ConsoleInv'
<1>0. Bounds'
  BY NextBounds DEF ConsoleInv
<1>1. ASSUME NEW items, Ask(items), con' = con
      PROVE  ConsoleInv'
  <2>1. UNCHANGED <<pc, left>>
    BY <1>1 DEF Ask
  <2> QED BY <1>0, <1>1, <2>1 DEF ConsoleInv
<1>2. ASSUME NEW k \in Keys, console_read(k)
      PROVE  ConsoleInv'
  <2>1. /\ UNCHANGED <<pc, left>> /\ pc = "idle" /\ Sane(con)
        /\ con' = console_setcursor(con, -1, -1)
    BY <1>2 DEF console_read, Ask, ConsoleInv
  <2>2. Sane(con') /\ OnScreen(con')
    <3>1. -1 \in Int
      OBVIOUS
    <3> QED BY <2>1, <3>1, SetCursorSane
  <2> QED BY <1>0, <2>1, <2>2 DEF ConsoleInv, PlainSteps
<1>3. CASE RtcPrint
  <2>1. /\ UNCHANGED <<pc, left>> /\ con' = WriteString(con, Message)
        /\ pc # "overrun" /\ cut' = (cut \/ pc \in {"load_col", "load_row"})
    BY <1>3 DEF RtcPrint
  <2>2. AtRest(con')
    <3>1. CASE pc = "limit"
      <4>1. Astray(con) /\ (con.escaped = "READ" \/ AtRest(con))
        BY <3>1 DEF ConsoleInv, Stored
      <4> QED BY <2>1, <4>1, MessageAtRest DEF AtRest
    <3>2. CASE pc # "limit"
      <4>1. Sane(con) /\ (OnScreen(con) \/ con.escaped = "NONE")
        BY <3>2 DEF ConsoleInv, Bounds, ScreenSteps, PlainSteps, Steps
      <4> QED BY <2>1, <4>1, MessageAtRest
    <3> QED BY <3>1, <3>2
  <2>3. Stored(con')
    <3>1. Astray(con') /\ con'.col \in 0 .. VCOLS /\ con'.row \in 0 .. VROWS
          /\ con'.cursor \in Cells
      BY <2>2, SaneIsAstray DEF AtRest, Sane
    <3> QED BY <2>2, <3>1 DEF Stored
  <2>4. CASE pc \in {"load_col", "load_row"}
    BY <2>1, <2>4
  <2>5. CASE pc \notin {"load_col", "load_row"}
    BY <1>0, <2>1, <2>2, <2>3, <2>5 DEF ConsoleInv, AtRest, OnScreen
  <2> QED BY <2>4, <2>5
<1>4. CASE UNCHANGED vars
  BY <1>4 DEF vars, ConsoleInv, Bounds
<1>5. CASE console_write_main
  BY <1>0, <1>5, WriteKeepsInv
<1> QED BY <1>1, <1>2, <1>3, <1>4, <1>5
        DEF Next, PutText, PutColor, PutSequence

\* The invariant of the console: without such a message, ConsoleInv.
CutInv == Bounds /\ (cut \/ ConsoleInv)

LEMMA NextCutInv ==
  ASSUME CutInv, [Next]_vars
  PROVE  CutInv'
<1>1. Bounds'
  BY NextBounds DEF CutInv
<1>2. CASE cut
  <2>1. cut'
    <3>2. CASE console_write_main
      BY <1>2, <3>2 DEF console_write_main, MoveCursor, Enter, Escape, Overrun,
         Move, Limit, Restore, TestCol, LoadCol, DropCol, TestRow, LoadRow,
         DropRow, EndRestore, Newline, NewlineFit, PutChar, AdvanceCol, Wrap,
         NoWrap, WrapFit, local, histories
    <3> QED BY <1>2, <3>2 DEF Next, vars, PutText, PutColor, PutSequence,
                              console_read, RtcPrint, histories
  <2> QED BY <1>1, <2>1 DEF CutInv
<1>3. CASE ~cut
  BY <1>1, <1>3, NextConsoleInv DEF CutInv
<1> QED BY <1>2, <1>3

-----------------------------------------------------------------------------
(***************************************************************************)
(* The message at rest, sequence by sequence.                              *)
(***************************************************************************)
\* Before a digit, a cleared buffer reads as 0; so does one with -1 in it.
LEMMA ClearedReads ==
  ASSUME NEW b \in Cleared
  PROVE  /\ b \in [0 .. 15 -> -128 .. 127]
         /\ b[0] \in {-1, 0} /\ b[1] = 0
         /\ \A v : [b EXCEPT ![0] = v] = [NoParams EXCEPT ![0] = v]
<1>1. NoParams \in [0 .. 15 -> -128 .. 127] /\ NoParams[0] = 0 /\ NoParams[1] = 0
  BY DEF NoParams
<1>2. b = NoParams \/ b = [NoParams EXCEPT ![0] = -1]
  BY DEF Cleared
<1> QED BY <1>1, <1>2

\* ESC [ s saves the position.
LEMMA MessageSaves ==
  ASSUME NEW c, AtRest(c)
  PROVE  LET d == console_write(console_write(console_write(c, "ESC"), "["), "s")
         IN  /\ AtRest(d)
             /\ d.col = c.col /\ d.row = c.row /\ d.attr = c.attr /\ d.vram = c.vram
             /\ d.saved_col = c.col /\ d.saved_row = c.row
<1> DEFINE a == console_write(console_write(c, "ESC"), "[")
           d == console_write(a, "s")
           p == SaveCursor(a)
<1>1. Sane(a) /\ OnScreen(a) /\ a.escaped = "READ" /\ SameBody(c, a)
  BY Opens
<1> HIDE DEF a
<1>2. Perform(a, "s") = p /\ "s" \in Finals
  BY DEF Perform, Finals, Moves
<1>3. AtRest(d) /\ SameBody(p, d)
  BY <1>1, <1>2, ReadsFinal
<1>4. /\ p.col = a.col /\ p.row = a.row /\ p.attr = a.attr /\ p.vram = a.vram
      /\ p.saved_col = a.col /\ p.saved_row = a.row
  BY <1>1 DEF Sane, IsConsole, Fields, SaveCursor
<1> HIDE DEF d, p
<1>5. /\ d.col = c.col /\ d.row = c.row /\ d.attr = c.attr /\ d.vram = c.vram
      /\ d.saved_col = c.col /\ d.saved_row = c.row
  BY <1>1, <1>3, <1>4 DEF SameBody, Body
<1> QED BY <1>3, <1>5 DEF a, d

\* ESC [ 0 ; 0 H goes to the top left corner.
LEMMA MessageGoesHome ==
  ASSUME NEW c, AtRest(c)
  PROVE  LET d == console_write(console_write(console_write(console_write(
                    console_write(console_write(c, "ESC"), "["), "0"), ";"), "0"), "H")
         IN  /\ AtRest(d)
             /\ d.col = 0 /\ d.row = 0 /\ d.attr = c.attr /\ d.vram = c.vram
             /\ d.saved_col = c.saved_col /\ d.saved_row = c.saved_row
<1> DEFINE a == console_write(console_write(c, "ESC"), "[")
           b == console_write(a, "0")
           m == console_write(b, ";")
           e == console_write(m, "0")
           d == console_write(e, "H")
<1>1. /\ Sane(a) /\ OnScreen(a) /\ a.escaped = "READ" /\ SameBody(c, a)
      /\ a.pos = 0 /\ a.buffer \in Cleared
  BY Opens
<1> HIDE DEF a
<1>2. a.pos \in 0 .. 15
  BY <1>1
<1>3. /\ Sane(b) /\ OnScreen(b) /\ b.escaped = "READ" /\ b.pos = 0 /\ SameBody(a, b)
      /\ b.buffer = [a.buffer EXCEPT ![0] = IF @ < 0 THEN 0 ELSE int8(@ * 10 + 0)]
  BY <1>1, <1>2, ReadsDigit, DigitsAre
<1>4. b.buffer = [NoParams EXCEPT ![0] = 0]
  <2>1. (IF a.buffer[0] < 0 THEN 0 ELSE int8(a.buffer[0] * 10 + 0)) = 0
    BY <1>1, ClearedReads DEF int8
  <2>2. b.buffer = [a.buffer EXCEPT ![0] = 0]
    BY <1>3, <2>1
  <2>3. [a.buffer EXCEPT ![0] = 0] = [NoParams EXCEPT ![0] = 0]
    <3> DEFINE u == a.buffer
    <3>1. u \in Cleared
      BY <1>1
    <3> HIDE DEF u
    <3>2. [u EXCEPT ![0] = 0] = [NoParams EXCEPT ![0] = 0]
      BY <3>1, ClearedReads
    <3> QED BY <3>2 DEF u
  <2> QED BY <2>2, <2>3, Zenon
<1> HIDE DEF b
<1>5. b.buffer[0] = 0 /\ b.buffer[1] = 0
  BY <1>4 DEF NoParams
<1>7. Sane(m) /\ OnScreen(m)
  BY <1>3, ReadsSeparator
<1>8. m.escaped = "READ" /\ m.pos = 1 /\ m.buffer = b.buffer /\ SameBody(b, m)
  <2>1. m.escaped = "READ" /\ m.pos = b.pos + 1 /\ m.buffer = b.buffer /\ SameBody(b, m)
    BY <1>3, ReadsSeparator
  <2> HIDE DEF m
  <2> QED BY <1>3, <2>1
<1> HIDE DEF m
<1>9. m.pos \in 0 .. 15
  BY <1>8
<1>10. /\ Sane(e) /\ OnScreen(e) /\ e.escaped = "READ" /\ SameBody(m, e)
       /\ e.buffer = [m.buffer EXCEPT ![1] = IF @ < 0 THEN 0 ELSE int8(@ * 10 + 0)]
  BY <1>7, <1>8, <1>9, ReadsDigit, DigitsAre
<1>11. e.buffer[0] = 0 /\ e.buffer[1] = 0
  <2>1. m.buffer \in [0 .. 15 -> -128 .. 127]
    BY <1>7 DEF Sane
  <2>2. (IF m.buffer[1] < 0 THEN 0 ELSE int8(m.buffer[1] * 10 + 0)) = 0
    BY <1>5, <1>8 DEF int8
  <2>3. e.buffer = [m.buffer EXCEPT ![1] = 0]
    BY <1>10, <2>2
  <2> QED BY SMTT(20), <1>5, <1>8, <2>1, <2>3
<1> HIDE DEF e
<1> DEFINE p == console_setcursor(e, 0, 0)
<1>12. Perform(e, "H") = p /\ "H" \in Finals
  <2>1. "H" \in Moves /\ "H" \in Finals
    BY DEF Moves, Finals
  <2>2. MoveCol(e, "H") = 0
    BY <1>11 DEF MoveCol, Coord
  <2>3. MoveRow(e, "H") = 0
    BY <1>11 DEF MoveRow, Coord
  <2> QED BY <2>1, <2>2, <2>3 DEF Perform
<1>13. AtRest(d) /\ SameBody(p, d)
  BY <1>10, <1>12, ReadsFinal
<1>14. SameMode(e, p) /\ p.vram = e.vram /\ p.col = 0 /\ p.row = 0
  <2>1. 0 \in Int /\ 0 \in 0 .. VCOL_MAX /\ 0 \in 0 .. VROW_MAX
    OBVIOUS
  <2> QED BY <1>10, <2>1, SetCursorMode
<1> HIDE DEF d, p
<1>15. SameBody(c, e)
  BY <1>1, <1>3, <1>8, <1>10 DEF SameBody
<1>16. /\ d.col = 0 /\ d.row = 0 /\ d.attr = c.attr /\ d.vram = c.vram
       /\ d.saved_col = c.saved_col /\ d.saved_row = c.saved_row
  BY <1>13, <1>14, <1>15 DEF SameBody, Body, SameMode, Mode
<1> QED BY <1>13, <1>16 DEF a, b, m, e, d

\* The cells below the top line.
SameBelow(c, d) == \A i \in Cells : i >= VCOLS => d.vram[i] = c.vram[i]

\* ESC [ K in the top line erases nothing below it.
LEMMA MessageErases ==
  ASSUME NEW c, AtRest(c), c.row = 0
  PROVE  LET d == console_write(console_write(console_write(c, "ESC"), "["), "K")
         IN  /\ AtRest(d)
             /\ d.col = c.col /\ d.row = 0 /\ d.attr = c.attr /\ SameBelow(c, d)
             /\ d.saved_col = c.saved_col /\ d.saved_row = c.saved_row
<1> DEFINE a == console_write(console_write(c, "ESC"), "[")
           d == console_write(a, "K")
<1>1. /\ Sane(a) /\ OnScreen(a) /\ a.escaped = "READ" /\ SameBody(c, a)
      /\ a.buffer \in Cleared
  BY Opens
<1> HIDE DEF a
<1>2. EraseAmount(a.buffer[0]) = "AFTER"
  <2>1. a.buffer[0] \in {-1, 0}
    BY <1>1, ClearedReads
  <2> QED BY <2>1 DEF EraseAmount
<1> DEFINE R == {VPOS(x, a.row) : x \in a.col .. VCOL_MAX}
           p == BlankCells(a, R)
<1>3. Perform(a, "K") = p /\ "K" \in Finals
  <2>1. Perform(a, "K") = console_clearln(a, "AFTER")
    BY <1>2 DEF Perform, Moves
  <2>2. console_clearln(a, "AFTER") = p
    BY DEF console_clearln
  <2> HIDE DEF p
  <2> QED BY <2>1, <2>2 DEF Finals
<1>4. \A i \in R : i < VCOLS
  <2>1. a.row = 0 /\ a.col \in 0 .. VCOL_MAX
    BY <1>1 DEF SameBody, Body, Sane, OnScreen
  <2>2. \A x \in a.col .. VCOL_MAX : VPOS(x, a.row) < VCOLS
    BY <2>1 DEF VPOS
  <2> QED BY <2>2
<1> HIDE DEF R
<1> DEFINE v == [i \in Cells |-> IF i \in R THEN Blank ELSE a.vram[i]]
<1>5. p.vram = v /\ \A f \in Fields \ {"vram"} : p[f] = a[f]
  <2>1. p = WithCells(a, v)
    BY DEF BlankCells, WithCells
  <2>2. v = [i \in Cells |-> v[i]]
    OBVIOUS
  <2> HIDE DEF v, p
  <2> QED BY <1>1, <2>1, <2>2, CellsReplaced
<1>6. \A i \in Cells : i >= VCOLS => v[i] = a.vram[i]
  <2>1. \A i \in Cells : i >= VCOLS => i \notin R
    BY <1>4 DEF Cells
  <2> QED BY <2>1
<1> HIDE DEF v, p
<1>7. AtRest(d) /\ SameBody(p, d)
  BY <1>1, <1>3, ReadsFinal
<1> HIDE DEF d
<1>8. /\ d.col = c.col /\ d.row = 0 /\ d.attr = c.attr
      /\ d.saved_col = c.saved_col /\ d.saved_row = c.saved_row
  BY <1>1, <1>5, <1>7 DEF SameBody, Body, Fields
<1>9. d.vram = v /\ a.vram = c.vram
  BY <1>1, <1>5, <1>7 DEF SameBody, Body
<1>10. SameBelow(c, d)
  BY <1>6, <1>9 DEF SameBelow
<1> QED BY <1>7, <1>8, <1>10 DEF a, d
\* One parameter of ESC [ ... m.
LEMMA OneGraphic ==
  ASSUME NEW a, NEW b
  PROVE  Graphics(a, b, 0) = SetGraphics(a, b[0])
<1>0. 0 \in Nat /\ 0 + 1 = 1
  OBVIOUS
<1>1. PICK f : IsPainting(f, a, b, 1) /\ Graphics(a, b, 0) = f[1]
  BY <1>0, GraphicsPaints
<1>2. f[0] = a
  BY <1>1 DEF IsPainting, Painted
<1>3. 1 \in 0 .. 1 /\ 1 # 0 /\ 1 - 1 = 0
  OBVIOUS
<1>4. f[1] = SetGraphics(f[0], b[0])
  BY <1>1, <1>3 DEF IsPainting, Painted
<1> QED BY <1>1, <1>2, <1>4

\* The end of a sequence of one parameter that sets colors.
LEMMA ReadsGraphic ==
  ASSUME NEW c, Sane(c), OnScreen(c), c.escaped = "READ", c.pos = 0
  PROVE  LET d == console_write(c, "m")
         IN  /\ AtRest(d)
             /\ d.attr = SetGraphics(c.attr, c.buffer[0])
             /\ d.col = c.col /\ d.row = c.row /\ d.vram = c.vram
             /\ d.saved_col = c.saved_col /\ d.saved_row = c.saved_row
<1> DEFINE g == SetGraphics(c.attr, c.buffer[0])
           p == [c EXCEPT !.attr = g]
           d == console_write(c, "m")
<1>1. Perform(c, "m") = p /\ "m" \in Finals
  <2>1. Perform(c, "m") = [c EXCEPT !.attr = Graphics(@, c.buffer, c.pos)]
    BY DEF Perform, Moves
  <2>2. Graphics(c.attr, c.buffer, c.pos) = g
    BY OneGraphic
  <2> HIDE DEF g
  <2> QED BY <2>1, <2>2 DEF Finals
<1>2. AtRest(d) /\ SameBody(p, d)
  BY SMTT(20), <1>1, ReadsFinal
<1> HIDE DEF g, d
<1>3. p.attr = g /\ \A f \in Fields \ {"attr"} : p[f] = c[f]
  BY DEF Sane, IsConsole, Fields
<1> HIDE DEF p
<1>4. /\ d.attr = g /\ d.col = c.col /\ d.row = c.row /\ d.vram = c.vram
      /\ d.saved_col = c.saved_col /\ d.saved_row = c.saved_row
  BY <1>2, <1>3 DEF SameBody, Body, Fields
<1> QED BY <1>2, <1>4 DEF d, g

\* ESC [ 7 m reverses the colors.
LEMMA MessageReverses ==
  ASSUME NEW c, AtRest(c)
  PROVE  LET d == console_write(console_write(
                    console_write(console_write(c, "ESC"), "["), "7"), "m")
         IN  /\ AtRest(d)
             /\ d.attr = [c.attr EXCEPT !.reverse = TRUE]
             /\ d.col = c.col /\ d.row = c.row /\ d.vram = c.vram
             /\ d.saved_col = c.saved_col /\ d.saved_row = c.saved_row
<1> DEFINE a == console_write(console_write(c, "ESC"), "[")
           b == console_write(a, "7")
           d == console_write(b, "m")
<1>1. /\ Sane(a) /\ OnScreen(a) /\ a.escaped = "READ" /\ SameBody(c, a)
      /\ a.pos = 0 /\ a.buffer \in Cleared
  BY Opens
<1> HIDE DEF a
<1>2. a.pos \in 0 .. 15
  BY <1>1
<1>3. /\ Sane(b) /\ OnScreen(b) /\ b.escaped = "READ" /\ b.pos = 0 /\ SameBody(a, b)
      /\ b.buffer = [a.buffer EXCEPT ![0] = IF @ < 0 THEN 7 ELSE int8(@ * 10 + 7)]
  BY <1>1, <1>2, ReadsDigit, DigitsAre
<1>4. b.buffer[0] = 7
  <2>1. (IF a.buffer[0] < 0 THEN 7 ELSE int8(a.buffer[0] * 10 + 7)) = 7
    BY <1>1, ClearedReads DEF int8
  <2>2. b.buffer = [a.buffer EXCEPT ![0] = 7]
    BY <1>3, <2>1
  <2>3. a.buffer \in [0 .. 15 -> -128 .. 127]
    BY <1>1, ClearedReads
  <2> QED BY <2>2, <2>3
<1> HIDE DEF b
<1>5. /\ AtRest(d) /\ d.attr = SetGraphics(b.attr, b.buffer[0])
      /\ d.col = b.col /\ d.row = b.row /\ d.vram = b.vram
      /\ d.saved_col = b.saved_col /\ d.saved_row = b.saved_row
  BY <1>3, ReadsGraphic
<1> HIDE DEF d
<1>6. SetGraphics(b.attr, 7) = [b.attr EXCEPT !.reverse = TRUE]
  BY DEF SetGraphics
<1>7. SameBody(c, b)
  BY <1>1, <1>3 DEF SameBody
<1>8. /\ d.attr = [c.attr EXCEPT !.reverse = TRUE]
      /\ d.col = c.col /\ d.row = c.row /\ d.vram = c.vram
      /\ d.saved_col = c.saved_col /\ d.saved_row = c.saved_row
  BY <1>4, <1>5, <1>6, <1>7 DEF SameBody, Body
<1> QED BY <1>5, <1>8 DEF a, b, d

\* ESC [ 2 7 m ends that.
LEMMA MessageUnreverses ==
  ASSUME NEW c, AtRest(c)
  PROVE  LET d == console_write(console_write(console_write(
                    console_write(console_write(c, "ESC"), "["), "2"), "7"), "m")
         IN  /\ AtRest(d)
             /\ d.attr = [c.attr EXCEPT !.reverse = FALSE]
             /\ d.col = c.col /\ d.row = c.row /\ d.vram = c.vram
             /\ d.saved_col = c.saved_col /\ d.saved_row = c.saved_row
<1> DEFINE a == console_write(console_write(c, "ESC"), "[")
           b == console_write(a, "2")
           e == console_write(b, "7")
           d == console_write(e, "m")
<1>1. /\ Sane(a) /\ OnScreen(a) /\ a.escaped = "READ" /\ SameBody(c, a)
      /\ a.pos = 0 /\ a.buffer \in Cleared
  BY Opens
<1> HIDE DEF a
<1>2. a.pos \in 0 .. 15
  BY <1>1
<1>3. /\ Sane(b) /\ OnScreen(b) /\ b.escaped = "READ" /\ b.pos = 0 /\ SameBody(a, b)
      /\ b.buffer = [a.buffer EXCEPT ![0] = IF @ < 0 THEN 2 ELSE int8(@ * 10 + 2)]
  BY <1>1, <1>2, ReadsDigit, DigitsAre
<1>4. b.buffer[0] = 2
  <2>1. (IF a.buffer[0] < 0 THEN 2 ELSE int8(a.buffer[0] * 10 + 2)) = 2
    BY <1>1, ClearedReads DEF int8
  <2>2. b.buffer = [a.buffer EXCEPT ![0] = 2]
    BY <1>3, <2>1
  <2>3. a.buffer \in [0 .. 15 -> -128 .. 127]
    BY <1>1, ClearedReads
  <2> QED BY <2>2, <2>3
<1> HIDE DEF b
<1>5. b.pos \in 0 .. 15
  BY <1>3
<1>6. /\ Sane(e) /\ OnScreen(e) /\ e.escaped = "READ" /\ e.pos = 0 /\ SameBody(b, e)
      /\ e.buffer = [b.buffer EXCEPT ![0] = IF @ < 0 THEN 7 ELSE int8(@ * 10 + 7)]
  BY <1>3, <1>5, ReadsDigit, DigitsAre
<1>7. e.buffer[0] = 27
  <2>1. (IF b.buffer[0] < 0 THEN 7 ELSE int8(b.buffer[0] * 10 + 7)) = 27
    BY <1>4 DEF int8
  <2>2. e.buffer = [b.buffer EXCEPT ![0] = 27]
    BY <1>6, <2>1
  <2>3. b.buffer \in [0 .. 15 -> -128 .. 127]
    BY <1>3 DEF Sane
  <2> QED BY <2>2, <2>3
<1> HIDE DEF e
<1>8. /\ AtRest(d) /\ d.attr = SetGraphics(e.attr, e.buffer[0])
      /\ d.col = e.col /\ d.row = e.row /\ d.vram = e.vram
      /\ d.saved_col = e.saved_col /\ d.saved_row = e.saved_row
  BY <1>6, ReadsGraphic
<1> HIDE DEF d
<1>9. SetGraphics(e.attr, 27) = [e.attr EXCEPT !.reverse = FALSE]
  BY DEF SetGraphics
<1>10. SameBody(c, e)
  BY <1>1, <1>3, <1>6 DEF SameBody
<1>11. /\ d.attr = [c.attr EXCEPT !.reverse = FALSE]
       /\ d.col = c.col /\ d.row = c.row /\ d.vram = c.vram
       /\ d.saved_col = c.saved_col /\ d.saved_row = c.saved_row
  BY <1>7, <1>8, <1>9, <1>10 DEF SameBody, Body
<1> QED BY <1>8, <1>11 DEF a, b, e, d

\* The two characters that stand for the time are in the top line.
LEMMA MessagePrints ==
  ASSUME NEW c, AtRest(c), c.col = 0, c.row = 0
  PROVE  LET d == console_write(console_write(c, "t"), "t")
         IN  /\ AtRest(d)
             /\ d.attr = c.attr /\ SameBelow(c, d)
             /\ d.saved_col = c.saved_col /\ d.saved_row = c.saved_row
<1> DEFINE a == console_write(c, "t")
           d == console_write(a, "t")
<1>0. Sane(c) /\ OnScreen(c)
  BY DEF AtRest
<1>1. ASSUME NEW e, AtRest(e)
      PROVE  /\ AtRest(console_write(e, "t"))
             /\ console_write(e, "t") = IF e.attr.conceal THEN e ELSE WritePrintable(e, "t")
  <2>1. WriteChar(e, "t") = WritePrintable(e, "t")
    BY DEF WriteChar, isprint, Controls
  <2> QED BY <1>1, <2>1, RestAfterWrite
<1>2. CASE c.attr.conceal
  BY <1>1, <1>2 DEF SameBelow
<1>3. CASE ~c.attr.conceal
  <2> DEFINE v == [i \in Cells |-> IF i = VPOS(c.col, c.row)
                                   THEN Cell(c.attr, "t") ELSE c.vram[i]]
  <2>1. AtRest(a) /\ a = WritePrintable(c, "t")
    BY <1>1, <1>3
  <2>2. 0 < VCOL_MAX
    OBVIOUS
  <2>3. SameMode(c, a) /\ a.col = c.col + 1 /\ a.row = c.row /\ a.vram = v
    BY <1>0, <2>1, <2>2, WritePrintableIs
  <2> HIDE DEF a
  <2>4. a.col = 1 /\ a.row = 0 /\ a.attr = c.attr
        /\ a.saved_col = c.saved_col /\ a.saved_row = c.saved_row
    BY <2>3 DEF SameMode, Mode
  <2>5. SameBelow(c, a)
    <3>1. VPOS(c.col, c.row) = 0
      BY DEF VPOS
    <3>2. \A i \in Cells : i >= VCOLS => i # 0
      BY DEF Cells
    <3> QED BY <2>3, <3>1, <3>2 DEF SameBelow
  <2>6. AtRest(d) /\ d = WritePrintable(a, "t")
    BY <1>1, <1>3, <2>1, <2>4
  <2> DEFINE w == [i \in Cells |-> IF i = VPOS(a.col, a.row)
                                   THEN Cell(a.attr, "t") ELSE a.vram[i]]
  <2>7. SameMode(a, d) /\ d.vram = w
    <3>1. Sane(a) /\ OnScreen(a)
      BY <2>1 DEF AtRest
    <3>2. a.col < VCOL_MAX \/ (a.col = VCOL_MAX /\ a.row < VROW_MAX)
      BY <2>4
    <3> HIDE DEF d
    <3> QED BY <2>6, <3>1, <3>2, WritePrintableIs
  <2> HIDE DEF d
  <2>8. SameBelow(a, d)
    <3>1. VPOS(a.col, a.row) = 1
      BY <2>4 DEF VPOS
    <3>2. \A i \in Cells : i >= VCOLS => i # 1
      BY DEF Cells
    <3> QED BY <2>7, <3>1, <3>2 DEF SameBelow
  <2>9. /\ d.attr = c.attr /\ d.saved_col = c.saved_col /\ d.saved_row = c.saved_row
        /\ SameBelow(c, d)
    BY <2>4, <2>5, <2>7, <2>8 DEF SameMode, Mode, SameBelow
  <2> QED BY <2>6, <2>9 DEF a, d
<1> QED BY <1>2, <1>3

\* ESC [ u goes back to the position saved.
LEMMA MessageRestores ==
  ASSUME NEW c, AtRest(c)
  PROVE  LET d == console_write(console_write(console_write(c, "ESC"), "["), "u")
         IN  /\ AtRest(d)
             /\ c.saved_col >= 0 => d.col = c.saved_col
             /\ c.saved_row >= 0 => d.row = c.saved_row
             /\ d.attr = c.attr /\ d.vram = c.vram
<1> DEFINE a == console_write(console_write(c, "ESC"), "[")
           d == console_write(a, "u")
           p == RestoreCursor(a)
<1>1. Sane(a) /\ OnScreen(a) /\ a.escaped = "READ" /\ SameBody(c, a)
  BY Opens
<1> HIDE DEF a
<1>2. Perform(a, "u") = p /\ "u" \in Finals
  BY DEF Perform, Finals, Moves
<1>3. AtRest(d) /\ SameBody(p, d)
  BY <1>1, <1>2, ReadsFinal
<1>4. /\ p.col = (IF a.saved_col >= 0 THEN a.saved_col ELSE a.col)
      /\ p.row = (IF a.saved_row >= 0 THEN a.saved_row ELSE a.row)
      /\ p.attr = a.attr /\ p.vram = a.vram
  BY <1>1 DEF Sane, IsConsole, Fields, RestoreCursor
<1> HIDE DEF d, p
<1>5. /\ c.saved_col >= 0 => d.col = c.saved_col
      /\ c.saved_row >= 0 => d.row = c.saved_row
      /\ d.attr = c.attr /\ d.vram = c.vram
  BY <1>1, <1>3, <1>4 DEF SameBody, Body
<1> QED BY <1>3, <1>5 DEF a, d

\* The whole message.
LEMMA MessageKeepsMain ==
  ASSUME NEW c, AtRest(c), ~c.attr.reverse
  PROVE  KeepsMain(c, WriteString(c, Message))
<1>1. PICK f : /\ f[0] = c
               /\ \A n \in 1 .. 26 : f[n] = console_write(f[n - 1], Message[n])
               /\ WriteString(c, Message) = f[26]
  BY MessageWrites
<1>2. /\ f[3] = console_write(console_write(console_write(f[0], "ESC"), "["), "s")
      /\ f[9] = console_write(console_write(console_write(console_write(
                  console_write(console_write(f[3], "ESC"), "["), "0"), ";"), "0"), "H")
      /\ f[12] = console_write(console_write(console_write(f[9], "ESC"), "["), "K")
      /\ f[16] = console_write(console_write(
                   console_write(console_write(f[12], "ESC"), "["), "7"), "m")
      /\ f[18] = console_write(console_write(f[16], "t"), "t")
      /\ f[23] = console_write(console_write(console_write(
                   console_write(console_write(f[18], "ESC"), "["), "2"), "7"), "m")
      /\ f[26] = console_write(console_write(console_write(f[23], "ESC"), "["), "u")
  <2>1. /\ Message[1] = "ESC" /\ Message[2] = "[" /\ Message[3] = "s"
        /\ Message[4] = "ESC" /\ Message[5] = "[" /\ Message[6] = "0"
        /\ Message[7] = ";" /\ Message[8] = "0" /\ Message[9] = "H"
        /\ Message[10] = "ESC" /\ Message[11] = "[" /\ Message[12] = "K"
        /\ Message[13] = "ESC" /\ Message[14] = "[" /\ Message[15] = "7"
        /\ Message[16] = "m" /\ Message[17] = "t" /\ Message[18] = "t"
        /\ Message[19] = "ESC" /\ Message[20] = "[" /\ Message[21] = "2"
        /\ Message[22] = "7" /\ Message[23] = "m"
        /\ Message[24] = "ESC" /\ Message[25] = "[" /\ Message[26] = "u"
    BY DEF Message
  <2>2. \A n \in 0 .. 25 : f[n + 1] = console_write(f[n], Message[n + 1])
    <3>1. \A n \in 0 .. 25 : n + 1 \in 1 .. 26 /\ (n + 1) - 1 = n
      OBVIOUS
    <3> QED BY <1>1, <3>1
  <2>3. f[3] = console_write(console_write(console_write(f[0], "ESC"), "["), "s")
    <3>1. f[1] = console_write(f[0], "ESC")
      <4>1. 0 \in 0 .. 25 /\ 0 + 1 = 1
        OBVIOUS
      <4> QED BY ONLY <2>1, <2>2, <4>1
    <3>2. f[2] = console_write(f[1], "[")
      <4>1. 1 \in 0 .. 25 /\ 1 + 1 = 2
        OBVIOUS
      <4> QED BY ONLY <2>1, <2>2, <4>1
    <3>3. f[3] = console_write(f[2], "s")
      <4>1. 2 \in 0 .. 25 /\ 2 + 1 = 3
        OBVIOUS
      <4> QED BY ONLY <2>1, <2>2, <4>1
    <3> QED BY ONLY <3>1, <3>2, <3>3
  <2>4. f[9] = console_write(console_write(console_write(
              console_write(console_write(console_write(f[3], "ESC"), "["), "0"), ";"), "0"), "H")
    <3>1. f[4] = console_write(f[3], "ESC")
      <4>1. 3 \in 0 .. 25 /\ 3 + 1 = 4
        OBVIOUS
      <4> QED BY ONLY <2>1, <2>2, <4>1
    <3>2. f[5] = console_write(f[4], "[")
      <4>1. 4 \in 0 .. 25 /\ 4 + 1 = 5
        OBVIOUS
      <4> QED BY ONLY <2>1, <2>2, <4>1
    <3>3. f[6] = console_write(f[5], "0")
      <4>1. 5 \in 0 .. 25 /\ 5 + 1 = 6
        OBVIOUS
      <4> QED BY ONLY <2>1, <2>2, <4>1
    <3>4. f[7] = console_write(f[6], ";")
      <4>1. 6 \in 0 .. 25 /\ 6 + 1 = 7
        OBVIOUS
      <4> QED BY ONLY <2>1, <2>2, <4>1
    <3>5. f[8] = console_write(f[7], "0")
      <4>1. 7 \in 0 .. 25 /\ 7 + 1 = 8
        OBVIOUS
      <4> QED BY ONLY <2>1, <2>2, <4>1
    <3>6. f[9] = console_write(f[8], "H")
      <4>1. 8 \in 0 .. 25 /\ 8 + 1 = 9
        OBVIOUS
      <4> QED BY ONLY <2>1, <2>2, <4>1
    <3> QED BY ONLY <3>1, <3>2, <3>3, <3>4, <3>5, <3>6
  <2>5. f[12] = console_write(console_write(console_write(f[9], "ESC"), "["), "K")
    <3>1. f[10] = console_write(f[9], "ESC")
      <4>1. 9 \in 0 .. 25 /\ 9 + 1 = 10
        OBVIOUS
      <4> QED BY ONLY <2>1, <2>2, <4>1
    <3>2. f[11] = console_write(f[10], "[")
      <4>1. 10 \in 0 .. 25 /\ 10 + 1 = 11
        OBVIOUS
      <4> QED BY ONLY <2>1, <2>2, <4>1
    <3>3. f[12] = console_write(f[11], "K")
      <4>1. 11 \in 0 .. 25 /\ 11 + 1 = 12
        OBVIOUS
      <4> QED BY ONLY <2>1, <2>2, <4>1
    <3> QED BY ONLY <3>1, <3>2, <3>3
  <2>6. f[16] = console_write(console_write(console_write(
              console_write(f[12], "ESC"), "["), "7"), "m")
    <3>1. f[13] = console_write(f[12], "ESC")
      <4>1. 12 \in 0 .. 25 /\ 12 + 1 = 13
        OBVIOUS
      <4> QED BY ONLY <2>1, <2>2, <4>1
    <3>2. f[14] = console_write(f[13], "[")
      <4>1. 13 \in 0 .. 25 /\ 13 + 1 = 14
        OBVIOUS
      <4> QED BY ONLY <2>1, <2>2, <4>1
    <3>3. f[15] = console_write(f[14], "7")
      <4>1. 14 \in 0 .. 25 /\ 14 + 1 = 15
        OBVIOUS
      <4> QED BY ONLY ZenonT(40), <2>1, <2>2, <4>1
    <3>4. f[16] = console_write(f[15], "m")
      <4>1. 15 \in 0 .. 25 /\ 15 + 1 = 16
        OBVIOUS
      <4> QED BY ONLY ZenonT(40), <2>1, <2>2, <4>1
    <3> QED BY ONLY <3>1, <3>2, <3>3, <3>4
  <2>7. f[18] = console_write(console_write(f[16], "t"), "t")
    <3>1. f[17] = console_write(f[16], "t")
      <4>1. 16 \in 0 .. 25 /\ 16 + 1 = 17
        OBVIOUS
      <4> QED BY ONLY <2>1, <2>2, <4>1
    <3>2. f[18] = console_write(f[17], "t")
      <4>1. 17 \in 0 .. 25 /\ 17 + 1 = 18
        OBVIOUS
      <4> QED BY ONLY <2>1, <2>2, <4>1
    <3> QED BY ONLY <3>1, <3>2
  <2>8. f[23] = console_write(console_write(console_write(
              console_write(console_write(f[18], "ESC"), "["), "2"), "7"), "m")
    <3>1. f[19] = console_write(f[18], "ESC")
      <4>1. 18 \in 0 .. 25 /\ 18 + 1 = 19
        OBVIOUS
      <4> QED BY ONLY ZenonT(40), <2>1, <2>2, <4>1
    <3>2. f[20] = console_write(f[19], "[")
      <4>1. 19 \in 0 .. 25 /\ 19 + 1 = 20
        OBVIOUS
      <4> QED BY ONLY <2>1, <2>2, <4>1
    <3>3. f[21] = console_write(f[20], "2")
      <4>1. 20 \in 0 .. 25 /\ 20 + 1 = 21
        OBVIOUS
      <4> QED BY ONLY ZenonT(40), <2>1, <2>2, <4>1
    <3>4. f[22] = console_write(f[21], "7")
      <4>1. 21 \in 0 .. 25 /\ 21 + 1 = 22
        OBVIOUS
      <4> QED BY ONLY ZenonT(40), <2>1, <2>2, <4>1
    <3>5. f[23] = console_write(f[22], "m")
      <4>1. 22 \in 0 .. 25 /\ 22 + 1 = 23
        OBVIOUS
      <4> QED BY ONLY ZenonT(40), <2>1, <2>2, <4>1
    <3> QED BY ONLY <3>1, <3>2, <3>3, <3>4, <3>5
  <2>9. f[26] = console_write(console_write(console_write(f[23], "ESC"), "["), "u")
    <3>1. f[24] = console_write(f[23], "ESC")
      <4>1. 23 \in 0 .. 25 /\ 23 + 1 = 24
        OBVIOUS
      <4> QED BY ONLY <2>1, <2>2, <4>1
    <3>2. f[25] = console_write(f[24], "[")
      <4>1. 24 \in 0 .. 25 /\ 24 + 1 = 25
        OBVIOUS
      <4> QED BY ONLY <2>1, <2>2, <4>1
    <3>3. f[26] = console_write(f[25], "u")
      <4>1. 25 \in 0 .. 25 /\ 25 + 1 = 26
        OBVIOUS
      <4> QED BY ONLY <2>1, <2>2, <4>1
    <3> QED BY ONLY <3>1, <3>2, <3>3
  <2> QED BY ONLY <2>3, <2>4, <2>5, <2>6, <2>7, <2>8, <2>9
<1> DEFINE c1 == f[3]  c2 == f[9]  c3 == f[12]  c4 == f[16]  c5 == f[18]
           c6 == f[23]  c7 == f[26]
<1>a. /\ c1 = console_write(console_write(console_write(c, "ESC"), "["), "s")
      /\ c2 = console_write(console_write(console_write(console_write(
                 console_write(console_write(c1, "ESC"), "["), "0"), ";"), "0"), "H")
      /\ c3 = console_write(console_write(console_write(c2, "ESC"), "["), "K")
      /\ c4 = console_write(console_write(console_write(console_write(c3, "ESC"), "["), "7"), "m")
      /\ c5 = console_write(console_write(c4, "t"), "t")
      /\ c6 = console_write(console_write(console_write(
                 console_write(console_write(c5, "ESC"), "["), "2"), "7"), "m")
      /\ c7 = console_write(console_write(console_write(c6, "ESC"), "["), "u")
      /\ WriteString(c, Message) = c7
  BY <1>1, <1>2
<1> HIDE DEF c1, c2, c3, c4, c5, c6, c7
<1>3. /\ AtRest(c1) /\ c1.attr = c.attr /\ c1.vram = c.vram
      /\ c1.saved_col = c.col /\ c1.saved_row = c.row
  BY <1>a, MessageSaves
<1>4. /\ AtRest(c2) /\ c2.col = 0 /\ c2.row = 0 /\ c2.attr = c1.attr
      /\ c2.vram = c1.vram /\ c2.saved_col = c1.saved_col /\ c2.saved_row = c1.saved_row
  BY <1>a, <1>3, MessageGoesHome
<1>5. /\ AtRest(c3) /\ c3.col = 0 /\ c3.row = 0 /\ c3.attr = c2.attr
      /\ SameBelow(c2, c3) /\ c3.saved_col = c2.saved_col /\ c3.saved_row = c2.saved_row
  BY <1>a, <1>4, MessageErases
<1>6. /\ AtRest(c4) /\ c4.col = 0 /\ c4.row = 0
      /\ c4.attr = [c3.attr EXCEPT !.reverse = TRUE] /\ c4.vram = c3.vram
      /\ c4.saved_col = c3.saved_col /\ c4.saved_row = c3.saved_row
  BY <1>a, <1>5, MessageReverses
<1>7. /\ AtRest(c5) /\ c5.attr = c4.attr /\ SameBelow(c4, c5)
      /\ c5.saved_col = c4.saved_col /\ c5.saved_row = c4.saved_row
  BY ZenonT(40), <1>a, <1>6, MessagePrints
<1>8. /\ AtRest(c6) /\ c6.attr = [c5.attr EXCEPT !.reverse = FALSE]
      /\ c6.vram = c5.vram /\ c6.saved_col = c5.saved_col /\ c6.saved_row = c5.saved_row
  BY ZenonT(40), <1>a, <1>7, MessageUnreverses
<1>9. /\ AtRest(c7) /\ c7.attr = c6.attr /\ c7.vram = c6.vram
      /\ c6.saved_col >= 0 => c7.col = c6.saved_col
      /\ c6.saved_row >= 0 => c7.row = c6.saved_row
  <2>1. AtRest(c6) /\ c7 = console_write(console_write(console_write(c6, "ESC"), "["), "u")
    BY <1>a, <1>8
  <2> QED BY ONLY <2>1, MessageRestores
<1>10. c.col \in Nat /\ c.row \in Nat /\ c.attr \in Attrs /\ c.escaped = "NONE"
  BY DEF AtRest, Sane
<1>11. c6.saved_col = c.col /\ c6.saved_row = c.row
  BY <1>3, <1>4, <1>5, <1>6, <1>7, <1>8
<1>12. c7.col = c.col /\ c7.row = c.row
  BY <1>9, <1>10, <1>11
<1>13. SameBelow(c, c7)
  <2>1. /\ \A i \in Cells : i >= VCOLS => c3.vram[i] = c2.vram[i]
        /\ \A i \in Cells : i >= VCOLS => c5.vram[i] = c4.vram[i]
    BY <1>5, <1>7 DEF SameBelow
  <2>2. c2.vram = c.vram /\ c4.vram = c3.vram /\ c7.vram = c5.vram
    BY <1>3, <1>4, <1>6, <1>8, <1>9
  <2> QED BY ONLY <2>1, <2>2 DEF SameBelow
<1>14. c7.attr = c.attr
  <2>1. c7.attr = [[c.attr EXCEPT !.reverse = TRUE] EXCEPT !.reverse = FALSE]
    BY <1>3, <1>4, <1>5, <1>6, <1>7, <1>8, <1>9
  <2>2. c.attr.reverse = FALSE
    BY <1>10 DEF Attrs
  <2> QED BY <1>10, <2>1, <2>2 DEF Attrs
<1>15. c7.escaped = "NONE"
  BY <1>9 DEF AtRest
<1> QED BY <1>a, <1>10, <1>12, <1>13, <1>14, <1>15 DEF KeepsMain, SameBelow

-----------------------------------------------------------------------------
(***************************************************************************)
(* The theorems.                                                           *)
(***************************************************************************)
\* Where main may be in console_write and what it finds there, with the
\* handler's message between any two of its steps, until a message cuts the
\* test of a saved coordinate from its use.
THEOREM ConsoleStays == Spec => []CutInv
<1>1. Init => CutInv
  BY InitConsoleInv DEF CutInv, ConsoleInv
<1>2. CutInv /\ [Next]_vars => CutInv'
  BY NextCutInv
<1> QED BY <1>1, <1>2, PTL DEF Spec

\* Whatever main writes, a typed line with any escape sequences included, and
\* wherever the message of rtc_isr falls, a character is stored in a cell of
\* the screen, unless a message came between the test of a saved coordinate
\* and its use.
THEOREM CursorStaysOnScreen == Spec => []CursorOnScreen
<1>1. ASSUME CutInv PROVE CursorOnScreen
  <2> SUFFICES ASSUME ~cut, pc \in {"idle", "put", "advance"}
               PROVE  con.col \in 0 .. VCOL_MAX /\ con.row \in 0 .. VROW_MAX
    BY DEF CursorOnScreen
  <2>1. Sane(con) /\ OnScreen(con)
    BY <1>1 DEF CutInv, ConsoleInv, ScreenSteps, Steps
  <2> QED BY <2>1 DEF Sane, OnScreen
<1> QED BY <1>1, ConsoleStays, PTL

\* The message of rtc_isr leaves main's console as it was, but for the top
\* line, when it does not come inside a sequence or the end of a line.
THEOREM MessageIsTransparent == Spec => MessageTransparent
<1>1. ASSUME CutInv, RtcPrint, Undisturbed
      PROVE  KeepsMain(con, con')
  <2>1. AtRest(con) /\ ~con.attr.reverse
    <3>1. ConsoleInv /\ con.escaped = "NONE" /\ OnScreen(con) /\ ~con.attr.reverse
      BY <1>1 DEF CutInv, Undisturbed, OnScreen
    <3> QED BY <3>1 DEF ConsoleInv, Stored, AtRest
  <2>2. con' = WriteString(con, Message)
    BY <1>1 DEF RtcPrint
  <2> QED BY <2>1, <2>2, MessageKeepsMain
<1>2. ASSUME [Next]_vars, prints' # prints
      PROVE  RtcPrint
  BY <1>2 DEF Next, vars, PutText, PutColor, PutSequence, console_read, Ask,
       console_write_main, MoveCursor, Enter, Escape, Overrun, Move, Limit,
       Restore, TestCol, LoadCol, DropCol, TestRow, LoadRow, DropRow, EndRestore,
       Newline, NewlineFit, PutChar, AdvanceCol, Wrap, NoWrap, WrapFit, local
<1>3. CutInv /\ [Next]_vars
        => [prints' # prints /\ Undisturbed => KeepsMain(con, con')]_vars
  BY <1>1, <1>2
<1>4. Spec => [][Next]_vars
  BY DEF Spec
<1>5. []CutInv /\ [][Next]_vars => MessageTransparent
  BY <1>3, PTL DEF MessageTransparent
<1> QED BY <1>4, <1>5, ConsoleStays

-----------------------------------------------------------------------------
(***************************************************************************)
(* The parser: until main writes what a user typed, what it has still to   *)
(* write never takes the parser out of its buffer of parameters.           *)
(***************************************************************************)
\* What main has to do: characters and moves of the cursor.
Symbols == STRING \union {SPACE, "SHOW", "LEFT"}

\* The rest of a sequence of the kernel's, and text.
Still(k) == k \notin Moves \union {"u"}
SequenceTail(s) ==
  /\ s \in Seq(Symbols) /\ s # <<>>
  /\ Len(s) <= 16 /\ s[Len(s)] \in Finals
  /\ \A n \in 1 .. Len(s) : Still(s[n])
NoEscape(s) ==
  /\ s \in Seq(Symbols)
  /\ \A n \in 1 .. Len(s) : s[n] # "ESC"

Parsing ==
  /\ ~cut
  /\ pc \in {"idle", "start", "proc", "newline", "newline_fit", "put",
             "advance", "wrap", "wrap_fit"}
  /\ NoEscape(out) \/ SequenceTail(out)
  /\ pc = "proc" => Still(ch)
  /\ pc = "start" => SequenceTail(out) /\ Len(out) <= 15
  /\ con.escaped # "NONE" =>
       \/ pc = "idle" /\ SequenceTail(out) /\ con.pos + Len(out) <= 15
       \/ pc = "proc" /\ SequenceTail(out) /\ con.pos + Len(out) <= 14
       \/ pc = "proc" /\ out = <<>> /\ ch \in Finals /\ con.pos <= 15

ParserInv == ~typed => Parsing

\* The first of what is left, and the others.
LEMMA Chopped ==
  ASSUME NEW S, NEW s \in Seq(S), s # <<>>
  PROVE  /\ Len(s) \in Nat /\ Len(s) >= 1 /\ Head(s) = s[1]
         /\ Tail(s) \in Seq(S) /\ Len(Tail(s)) = Len(s) - 1
         /\ \A n \in 1 .. Len(s) - 1 : Tail(s)[n] = s[n + 1]
         /\ Len(s) = 1 => Tail(s) = <<>>
         /\ Len(s) # 1 => Tail(s) # <<>>
<1>1. Len(s) \in Nat \ {0}
  BY EmptySeq
<1>2. /\ Tail(s) \in Seq(S) /\ Len(Tail(s)) = Len(s) - 1
      /\ \A n \in 1 .. Len(Tail(s)) : Tail(s)[n] = s[n + 1]
  BY HeadTailProperties
<1>3. Tail(s) # <<>> => Len(Tail(s)) \in Nat \ {0}
  BY <1>2, EmptySeq
<1>4. Len(<<>>) = 0
  BY EmptySeq
<1>5. Head(s) = s[1]
  OBVIOUS
<1> DEFINE n == Len(s)
           t == Tail(s)
<1>6. n \in Nat /\ n >= 1
  BY <1>1
<1> HIDE DEF n, t
<1>7. (n = 1 => t = <<>>) /\ (n # 1 => t # <<>>)
  <2>1. Len(t) = n - 1 /\ Len(<<>>) = 0
    BY <1>2, <1>4 DEF n, t
  <2>2. t # <<>> => Len(t) # 0
    BY <1>3 DEF t
  <2>3. n = 1 <=> Len(t) = 0
    BY <1>6, <2>1
  <2> QED BY <2>1, <2>2, <2>3, Zenon
<1> QED BY <1>2, <1>5, <1>6, <1>7 DEF n, t

LEMMA TailOfSequence ==
  ASSUME NEW s, SequenceTail(s)
  PROVE  /\ Len(s) \in 1 .. 16 /\ Len(Tail(s)) = Len(s) - 1
         /\ Still(Head(s))
         /\ \/ Tail(s) = <<>> /\ Head(s) \in Finals
            \/ SequenceTail(Tail(s))
<1>1. /\ s \in Seq(Symbols) /\ s # <<>> /\ Len(s) <= 16 /\ s[Len(s)] \in Finals
      /\ \A n \in 1 .. Len(s) : Still(s[n])
  BY DEF SequenceTail
<1> DEFINE L == Seq(Symbols)
           t == Tail(s)
<1>2. /\ Len(s) \in Nat /\ Len(s) >= 1 /\ Head(s) = s[1]
      /\ t \in L /\ Len(t) = Len(s) - 1
      /\ \A n \in 1 .. Len(s) - 1 : t[n] = s[n + 1]
      /\ Len(s) = 1 => t = <<>>
      /\ Len(s) # 1 => t # <<>>
  BY <1>1, Chopped
<1> HIDE DEF t, L
<1>5. Still(Head(s))
  <2>1. 1 \in 1 .. Len(s)
    BY <1>2
  <2> QED BY <1>1, <1>2, <2>1
<1>3. CASE Len(s) = 1
  BY <1>1, <1>2, <1>3, <1>5 DEF t
<1>4. CASE Len(s) # 1
  <2>6. \A n \in 1 .. Len(t) : Still(t[n])
    <3>1. \A n \in 1 .. Len(s) - 1 : n + 1 \in 1 .. Len(s)
      BY <1>2
    <3> QED BY <1>1, <1>2, <3>1
  <2>1. Len(s) - 1 \in 1 .. Len(s) - 1 /\ (Len(s) - 1) + 1 = Len(s)
    BY <1>2, <1>4
  <2>2. t[Len(t)] = s[Len(s)]
    BY <1>2, <2>1
  <2>3. Len(t) <= 16
    BY <1>1, <1>2
  <2>4. SequenceTail(t)
    BY <1>1, <1>2, <1>4, <2>2, <2>3, <2>6 DEF SequenceTail, L
  <2>5. Len(s) \in 1 .. 16
    <3> DEFINE n == Len(s)
    <3>1. n \in Nat /\ n >= 1 /\ n <= 16
      BY <1>1, <1>2, Zenon
    <3> HIDE DEF n
    <3>2. n \in 1 .. 16
      BY <3>1
    <3> QED BY <3>2 DEF n
  <2> QED BY <1>2, <1>5, <2>4, <2>5, Zenon DEF t
<1> QED BY <1>3, <1>4

LEMMA TailOfText ==
  ASSUME NEW s, NoEscape(s), s # <<>>
  PROVE  NoEscape(Tail(s)) /\ Head(s) # "ESC"
<1> DEFINE S == Symbols
<1>1. s \in Seq(S) /\ \A n \in 1 .. Len(s) : s[n] # "ESC"
  BY DEF NoEscape
<1> HIDE DEF S
<1>2. /\ Len(s) \in Nat /\ Len(s) >= 1 /\ Head(s) = s[1]
      /\ Tail(s) \in Seq(S) /\ Len(Tail(s)) = Len(s) - 1
      /\ \A n \in 1 .. Len(s) - 1 : Tail(s)[n] = s[n + 1]
  BY <1>1, Chopped
<1>3. \A n \in 1 .. Len(s) - 1 : n + 1 \in 1 .. Len(s)
  BY <1>2
<1>4. 1 \in 1 .. Len(s)
  BY <1>2
<1>5. \A n \in 1 .. Len(Tail(s)) : Tail(s)[n] # "ESC"
  BY <1>1, <1>2, <1>3
<1> QED BY <1>1, <1>2, <1>4, <1>5 DEF NoEscape, S

LEMMA EmptyIsText == NoEscape(<<>>) /\ ~SequenceTail(<<>>)
<1>1. \A S : <<>> \in Seq(S) /\ Len(<<>>) = 0
  BY EmptySeq
<1> QED BY <1>1 DEF NoEscape, SequenceTail

\* One character takes the parser at most one parameter further, and a letter
\* that ends a sequence ends it in any state.
LEMMA EscapeGoesOn ==
  ASSUME NEW c, Sane(c), OnScreen(c), NEW k
  PROVE  LET d == proc_escape(c, k)
         IN  \/ d.escaped = "NONE"
             \/ c.escaped # "NONE" /\ k \notin Finals /\ d.pos \in {c.pos, c.pos + 1}
<1>1. CASE c.escaped = "START" /\ k = "["
  <2> DEFINE d == [c EXCEPT !.escaped = "READ"]
  <2>1. proc_escape(c, k) = d
    BY <1>1 DEF proc_escape
  <2>2. d.pos = c.pos
    BY DEF Sane, IsConsole, Fields
  <2>3. k \notin Finals
    BY <1>1 DEF Finals
  <2> QED BY <1>1, <2>1, <2>2, <2>3
<1>2. CASE c.escaped = "READ" /\ k \in Finals
  <2>1. proc_escape(c, k) = EndEscape(Perform(c, k))
    BY <1>2 DEF proc_escape, Finals, Digits
  <2>2. Sane(Perform(c, k))
    BY <1>2, PerformSane
  <2> QED BY <2>1, <2>2, EndEscapeKeeps
<1>3. CASE c.escaped = "READ" /\ k = ";"
  <2> DEFINE d == [c EXCEPT !.pos = @ + 1]
  <2>1. proc_escape(c, k) = d
    BY <1>3 DEF proc_escape, Finals, Digits
  <2>2. d.pos = c.pos + 1
    BY DEF Sane, IsConsole, Fields
  <2>3. k \notin Finals
    BY <1>3 DEF Finals
  <2> QED BY <1>3, <2>1, <2>2, <2>3
<1>4. CASE c.escaped = "READ" /\ k \in Digits
  <2>1. proc_escape(c, k) = Accumulate(c, k)
    BY <1>4 DEF proc_escape, Finals, Digits
  <2>2. Accumulate(c, k).pos = c.pos
    BY <1>4, AccumulateKeeps DEF Fields
  <2>3. k \notin Finals
    BY <1>4 DEF Finals, Digits
  <2> QED BY <1>4, <2>1, <2>2, <2>3
<1>5. CASE /\ ~(c.escaped = "START" /\ k = "[")
           /\ ~(c.escaped = "READ" /\ (k \in Finals \/ k = ";" \/ k \in Digits))
  <2>1. proc_escape(c, k) = EndEscape(c)
    BY <1>5 DEF proc_escape
  <2> QED BY <2>1, EndEscapeKeeps
<1> QED BY <1>1, <1>2, <1>3, <1>4, <1>5

\* ESC from a parser at rest.
LEMMA StartEscapeIs ==
  ASSUME NEW c, AtRest(c)
  PROVE  LET d == StartEscape(c)
         IN  Sane(d) /\ OnScreen(d) /\ d.escaped = "START" /\ SameBody(c, d)
<1> DEFINE b == [c EXCEPT !.escaped = "START"]
           d == StartEscape(c)
<1>0. Sane(c) /\ OnScreen(c) /\ c.escaped = "NONE"
  BY DEF AtRest
<1>1. /\ IsConsole(b) /\ b.escaped = "START" /\ \A f \in Fields \ {"escaped"} : b[f] = c[f]
  BY <1>0 DEF Sane, IsConsole, Fields
<1>2. d = console_setcursor(b, c.col, c.row)
  BY SMTT(20) DEF StartEscape
<1> HIDE DEF b, d
<1>3. c.col \in 0 .. VCOL_MAX /\ c.row \in 0 .. VROW_MAX
  BY <1>0 DEF Sane, OnScreen
<1>4. Sane(b)
  <2>1. /\ b.col = c.col /\ b.row = c.row /\ b.cursor = c.cursor
        /\ b.attr = c.attr /\ b.buffer = c.buffer
        /\ b.pos = c.pos /\ b.saved_col = c.saved_col /\ b.saved_row = c.saved_row
        /\ b.vram = c.vram
    BY <1>1 DEF Fields
  <2> QED BY <1>0, <1>1, <2>1 DEF Sane
<1>5. /\ Sane(d) /\ OnScreen(d) /\ SameMode(b, d) /\ d.vram = b.vram
      /\ d.col = c.col /\ d.row = c.row
  <2>1. c.col \in Int /\ c.row \in Int
    BY <1>3
  <2> QED BY <1>2, <1>3, <1>4, <2>1, SetCursorMode, SetCursorSane
<1>6. d.escaped = "START"
  BY <1>1, <1>5 DEF SameMode, Mode
<1>7. SameBody(c, d)
  BY <1>1, <1>5 DEF SameMode, Mode, SameBody, Body, Fields
<1> QED BY <1>5, <1>6, <1>7 DEF d

\* console_mvcursor(-1): one place back, but not off the screen.
LEMMA MoveLeftIs ==
  ASSUME NEW c, Sane(c), OnScreen(c)
  PROVE  LET d == console_mvcursor(c, -1)
             v == VPOS(c.col, c.row)
         IN  /\ SameMode(c, d) /\ d.vram = c.vram
             /\ VPOS(d.col, d.row) = IF v = 0 THEN 0 ELSE v - 1
<1> DEFINE v == VPOS(c.col, c.row)
           n == VROWS * VCOLS
           q == IF v + (-1) < 0 THEN 0 ELSE v + (-1)
           x == q % VCOLS
           y == q \div VCOLS
           b == MovedTo(c, x, y)
           d == console_mvcursor(c, -1)
<1>1. c.col \in 0 .. VCOL_MAX /\ c.row \in 0 .. VROW_MAX
  BY DEF Sane, OnScreen
<1>2. v \in 0 .. n - 1 /\ n \in Int
  BY <1>1, CellOfPlace DEF Cells
<1>3. d = console_setcursor(b, -1, -1)
  BY DEF console_mvcursor, MovedTo
<1> HIDE DEF v, n, b, d
<1>4. q \in 0 .. n - 1 /\ q = IF v = 0 THEN 0 ELSE v - 1
  BY <1>2
<1> HIDE DEF q
<1>5. x \in 0 .. VCOL_MAX /\ y \in 0 .. VROW_MAX
  BY <1>4, DivideBelow DEF n
<1>6. VPOS(x, y) = q
  <2>1. q \in Nat
    BY <1>2, <1>4
  <2>2. q = VCOLS * (q \div VCOLS) + (q % VCOLS)
    BY <2>1
  <2> QED BY <1>5, <2>2 DEF VPOS
<1> HIDE DEF x, y
<1>7. Sane(b) /\ b.col = x /\ b.row = y /\ \A f \in Fields \ {"col", "row"} : b[f] = c[f]
  <2>1. x \in 0 .. VCOLS /\ y \in 0 .. VROWS
    BY <1>5
  <2> QED BY <2>1, Moved DEF b
<1>8. SameMode(c, b) /\ b.vram = c.vram /\ b.col <= VCOL_MAX /\ b.row <= VROW_MAX
  BY <1>5, <1>7 DEF SameMode, Mode, Fields
<1>9. SameMode(b, d) /\ d.vram = b.vram /\ d.col = b.col /\ d.row = b.row
  <2>1. -1 \in Int
    OBVIOUS
  <2> QED BY <1>3, <1>7, <1>8, <2>1, SetCursorMode
<1>10. SameMode(c, d)
  BY <1>8, <1>9 DEF SameMode
<1>11. VPOS(d.col, d.row) = q
  BY <1>6, <1>7, <1>9
<1> QED BY <1>4, <1>8, <1>9, <1>10, <1>11 DEF v, d

\* The steps after the first of a character that is not part of a sequence.
Ending ==
  \/ Newline \/ NewlineFit \/ PutChar \/ AdvanceCol
  \/ Wrap \/ NoWrap \/ WrapFit

LEMMA EndingKeepsMode ==
  ASSUME ConsoleInv, Ending
  PROVE  SameMode(con, con')
<1>0. Sane(con)
  BY DEF ConsoleInv, Ending, Newline, NewlineFit, PutChar, AdvanceCol, Wrap,
         NoWrap, WrapFit
<1>1. CASE con' = NextLine(con) /\ con.row <= VROW_MAX
  <2>1. \A f \in Fields \ {"col", "row"} : con'[f] = con[f]
    BY <1>0, <1>1, NextLineMoves
  <2> QED BY <2>1 DEF SameMode, Mode, Fields
<1>2. CASE con' = ShowLine(con)
  BY <1>0, <1>2, ShowLineMode
<1>3. CASE con' = PutCell(con, ch)
  <2> DEFINE d == PutCell(con, ch)
  <2>1. \A f \in Fields \ {"vram"} : d[f] = con[f]
    BY <1>0, PutCellStores
  <2> HIDE DEF d
  <2>2. SameMode(con, d)
    BY <2>1 DEF SameMode, Mode, Fields
  <2> QED BY <1>3, <2>2 DEF d
<1>4. CASE con' = NextCol(con) /\ OnScreen(con)
  <2>1. \A f \in Fields \ {"col"} : con'[f] = con[f]
    BY <1>0, <1>4, NextColMoves
  <2> QED BY <2>1 DEF SameMode, Mode, Fields
<1>5. CASE con' = con
  BY <1>5 DEF SameMode
<1>6. \/ con' = NextLine(con) /\ con.row <= VROW_MAX
      \/ con' = ShowLine(con)
      \/ con' = PutCell(con, ch)
      \/ con' = NextCol(con) /\ OnScreen(con)
      \/ con' = con
  BY DEF Ending, Newline, NewlineFit, PutChar, AdvanceCol, Wrap, NoWrap, WrapFit,
         ConsoleInv, OnScreen, ScreenSteps, Steps
<1> QED BY <1>1, <1>2, <1>3, <1>4, <1>5, <1>6

LEMMA InitParserInv ==
  ASSUME Init
  PROVE  ParserInv
<1>1. out = <<>> /\ pc = "idle" /\ con.escaped = "NONE" /\ ~cut
  BY DEF Init, Console0
<1> QED BY <1>1, EmptyIsText DEF ParserInv, Parsing

\* Main asks for something more: the parser is at rest.
LEMMA AskKeepsParser ==
  ASSUME Parsing, NEW items, Ask(items), con'.escaped = con.escaped, cut' = cut,
         NoEscape(items) \/ SequenceTail(items)
  PROVE  Parsing'
<1>1. out = <<>> /\ pc = "idle" /\ pc' = "idle" /\ out' = items
  BY DEF Ask
<1>2. con.escaped = "NONE"
  BY <1>1, EmptyIsText DEF Parsing
<1> QED BY <1>1, <1>2 DEF Parsing
\* The kernel's own sequences stay in the buffer and move nothing.
LEMMA OnlyColors ==
  ASSUME ConsoleInv, Parsing
  PROVE  ~Overrun /\ ~Move /\ ~Limit /\ ~Restore
<1>0. Sane(con)
  BY DEF ConsoleInv, Parsing
<1>1. ~Overrun
  <2> SUFFICES ASSUME pc = "proc", Overruns(con, ch) PROVE FALSE
    BY DEF Overrun
  <2>1. con.escaped = "READ" /\ con.pos > 15
    BY DEF Overruns
  <2>2. con.pos <= 15
    <3>1. \/ SequenceTail(out) /\ con.pos + Len(out) <= 14
          \/ con.pos <= 15
      BY <2>1 DEF Parsing
    <3>2. SequenceTail(out) => Len(out) \in 1 .. 16
      BY TailOfSequence
    <3>3. con.pos \in Nat
      BY <1>0 DEF Sane
    <3> QED BY <3>1, <3>2, <3>3
  <2> QED BY <1>0, <2>1, <2>2 DEF Sane
<1>2. ~Move /\ ~Limit
  BY DEF Move, Limit, Parsing, Still
<1>3. ~Restore
  BY DEF Restore, TestCol, LoadCol, DropCol, TestRow, LoadRow, DropRow,
         EndRestore, Parsing, Still
<1> QED BY <1>1, <1>2, <1>3

LEMMA ParsingGoesOn ==
  ASSUME ConsoleInv, Parsing, ~typed', [Next]_vars
  PROVE  Parsing'
<1>0. Sane(con) /\ (pc \in {"idle", "start", "proc"} => OnScreen(con))
  BY DEF ConsoleInv, Parsing, ScreenSteps, Steps
<1>1. ASSUME NEW s \in Texts
      PROVE  NoEscape(s)
  <2> DEFINE S == STRING \ {"ESC", "BS", "SHOW", "LEFT"}
  <2>1. s \in Seq(S)
    BY <1>1, TextsAssumption
  <2>2. S \subseteq Symbols /\ "ESC" \notin S
    BY DEF Symbols
  <2> HIDE DEF S
  <2>3. s \in Seq(Symbols)
    BY <2>1, <2>2, SeqMonotonic
  <2>4. \A n \in 1 .. Len(s) : s[n] \in S
    BY <2>1, ElementOfSeq
  <2> QED BY <2>2, <2>3, <2>4, Zenon DEF NoEscape
<1>2. ASSUME NEW s \in Colors
      PROVE  SequenceTail(s)
  <2>1. /\ s \in Seq(STRING) /\ Len(s) \in 3 .. 16
        /\ s[1] = "ESC" /\ s[2] = "[" /\ s[Len(s)] = "m"
        /\ \A n \in 3 .. Len(s) - 1 : s[n] \in (Digits \ {"8"}) \union {";"}
    BY <1>2, ColorsAssumption, Zenon
  <2>2. s \in Seq(Symbols)
    <3>1. STRING \subseteq Symbols
      BY DEF Symbols
    <3>2. s \in Seq(STRING)
      BY <2>1, Zenon
    <3> QED BY <3>1, <3>2, SeqMonotonic
  <2> DEFINE l == Len(s)
  <2>3. l \in 3 .. 16
    BY <2>1, Zenon
  <2>4. Len(<<>>) = 0
    BY EmptySeq
  <2>5. s # <<>>
    <3>1. l # 0
      <4> HIDE DEF l
      <4> QED BY <2>3
    <3> QED BY <2>4, <3>1, Zenon
  <2>6. s[l] \in Finals
    BY <2>1, Zenon DEF Finals
  <2>7. \A n \in 1 .. l : Still(s[n])
    <3>1. Still("ESC") /\ Still("[") /\ Still("m") /\ Still(";")
      BY Zenon DEF Still, Moves
    <3>2. \A d \in Digits : Still(d)
      BY Zenon DEF Still, Moves, Digits
    <3>3. \A n \in 3 .. l - 1 : Still(s[n])
      BY <2>1, <3>1, <3>2, Zenon
    <3>4. \A n \in 1 .. l : n = 1 \/ n = 2 \/ n = l \/ n \in 3 .. l - 1
      <4> HIDE DEF l
      <4> QED BY <2>3
    <3>5. Still(s[1]) /\ Still(s[2]) /\ Still(s[l])
      BY <2>1, <3>1, Zenon
    <3> QED BY <3>3, <3>4, <3>5, Zenon
  <2>8. l <= 16
    <3> HIDE DEF l
    <3> QED BY <2>3
  <2> QED BY <2>2, <2>5, <2>6, <2>7, <2>8, Zenon DEF SequenceTail
<1>3. CASE \E s \in Texts : PutText(s)
  BY <1>1, <1>3, AskKeepsParser DEF PutText
<1>4. CASE \E s \in Colors : PutColor(s)
  BY <1>2, <1>4, AskKeepsParser DEF PutColor, histories
<1>12. ASSUME NEW s \in Sequences PROVE ~PutSequence(s)
  BY DEF PutSequence
<1>5. ASSUME NEW k \in Keys, console_read(k)
      PROVE  Parsing'
  <2>1. k \in STRING /\ k # "ESC"
    BY TextsAssumption
  <2> DEFINE items == IF k = "BS" THEN <<"LEFT", SPACE, "LEFT">> ELSE <<k, "SHOW">>
  <2> DEFINE S == Symbols
             s == <<"LEFT", SPACE, "LEFT">>
             t == <<k, "SHOW">>
  <2>2. SPACE # "ESC" /\ SPACE \in S /\ "LEFT" \in S /\ "SHOW" \in S /\ k \in S
    <3>1. SPACE # "ESC"
      BY Zenon DEF SPACE
    <3>2. SPACE \in S /\ "LEFT" \in S /\ "SHOW" \in S /\ k \in S
      BY <2>1 DEF Symbols
    <3> QED BY <3>1, <3>2, Zenon
  <2> HIDE DEF S
  <2>3. NoEscape(s)
    <3>1. s \in Seq(S) /\ Len(s) = 3 /\ s[1] = "LEFT" /\ s[2] = SPACE /\ s[3] = "LEFT"
      BY <2>2
    <3>2. \A n \in 1 .. 3 : s[n] # "ESC"
      BY <2>2, <3>1
    <3> HIDE DEF s
    <3> QED BY <3>1, <3>2, Zenon DEF NoEscape, S
  <2>a. NoEscape(t)
    <3>1. t \in Seq(S) /\ Len(t) = 2 /\ t[1] = k /\ t[2] = "SHOW"
      BY <2>2
    <3>2. \A n \in 1 .. 2 : t[n] # "ESC"
      BY <2>1, <3>1
    <3> HIDE DEF t
    <3> QED BY <3>1, <3>2, Zenon DEF NoEscape, S
  <2>4. con'.escaped = con.escaped
    <3>1. -1 \in Int /\ con' = console_setcursor(con, -1, -1)
      BY <1>5 DEF console_read
    <3> QED BY <1>0, <3>1, SetCursorMode DEF SameMode, Mode
  <2>5. Ask(items) /\ cut' = cut
    BY <1>5 DEF console_read
  <2>6. NoEscape(items)
    BY <2>3, <2>a
  <2> HIDE DEF items
  <2> QED BY <2>4, <2>5, <2>6, AskKeepsParser
<1>6. CASE MoveCursor
  <2>1. /\ pc = "idle" /\ pc' = "idle" /\ out # <<>> /\ out' = Tail(out)
        /\ Head(out) \in {"SHOW", "LEFT"} /\ cut' = cut
    BY <1>6 DEF MoveCursor, histories
  <2>2. con'.escaped = con.escaped /\ con'.pos = con.pos
    <3>1. -1 \in Int
      OBVIOUS
    <3>2. con' = console_setcursor(con, -1, -1) \/ con' = console_mvcursor(con, -1)
      BY <1>6 DEF MoveCursor
    <3>3. SameMode(con, con')
      BY <1>0, <2>1, <3>1, <3>2, SetCursorMode, MoveLeftIs
    <3> QED BY <3>3 DEF SameMode, Mode
  <2>3. Head(out) \notin Finals
    BY <2>1 DEF Finals
  <2>4. NoEscape(out) => NoEscape(out')
    BY <2>1, TailOfText
  <2>5. SequenceTail(out) =>
          Len(out) \in 1 .. 16 /\ Len(out') = Len(out) - 1 /\ SequenceTail(out')
    BY <2>1, <2>3, TailOfSequence
  <2>6. con.escaped # "NONE" => SequenceTail(out) /\ con.pos + Len(out) <= 15
    BY <2>1 DEF Parsing
  <2>7. con.pos \in Nat
    BY <1>0 DEF Sane
  <2>8. con'.escaped # "NONE" => SequenceTail(out') /\ con'.pos + Len(out') <= 15
    BY <2>2, <2>5, <2>6, <2>7
  <2> QED BY <2>1, <2>4, <2>5, <2>8 DEF Parsing
<1>7. CASE Enter
  <2>1. /\ pc = "idle" /\ out # <<>> /\ out' = Tail(out) /\ con' = con
        /\ pc' = Branch(Head(out)) /\ (pc' # "put" => ch' = Head(out))
        /\ cut' = cut
    BY <1>7 DEF Enter, histories
  <2>a. pc' \in {"proc", "start", "idle", "newline", "put", "wrap"}
    BY <2>1 DEF Branch
  <2>2. /\ pc' = "proc" <=> con.escaped # "NONE"
        /\ pc' = "start" => Head(out) = "ESC"
    BY <2>1 DEF Branch
  <2>3. NoEscape(out) => NoEscape(out') /\ Head(out) # "ESC"
    BY <2>1, TailOfText
  <2>4. SequenceTail(out) =>
          /\ Len(out) \in 1 .. 16 /\ Len(out') = Len(out) - 1
          /\ Still(Head(out))
          /\ (out' = <<>> /\ Head(out) \in Finals) \/ SequenceTail(out')
    BY <2>1, TailOfSequence
  <2>5. con.escaped # "NONE" => SequenceTail(out) /\ con.pos + Len(out) <= 15
    BY <2>1 DEF Parsing
  <2>6. con.pos \in Nat /\ "ESC" \notin Finals
    BY <1>0 DEF Sane, Finals
  <2>7. NoEscape(out') \/ SequenceTail(out')
    BY <2>3, <2>4, EmptyIsText DEF Parsing
  <2>8. pc' = "start" => SequenceTail(out') /\ Len(out') <= 15
    <3> SUFFICES ASSUME pc' = "start" PROVE SequenceTail(out') /\ Len(out') <= 15
      OBVIOUS
    <3>1. SequenceTail(out)
      BY <2>2, <2>3 DEF Parsing
    <3>2. SequenceTail(out')
      BY <2>2, <2>4, <2>6, <3>1
    <3>3. Len(out') <= 15
      <4>1. Len(out) \in 1 .. 16 /\ Len(out') = Len(out) - 1
        BY <2>4, <3>1
      <4> QED BY ONLY SMTT(20), <4>1
    <3> QED BY <3>2, <3>3
  <2>9. ASSUME con'.escaped # "NONE"
        PROVE  \/ pc' = "proc" /\ SequenceTail(out') /\ con'.pos + Len(out') <= 14
               \/ pc' = "proc" /\ out' = <<>> /\ ch' \in Finals /\ con'.pos <= 15
    <3>1. /\ pc' = "proc" /\ ch' = Head(out) /\ SequenceTail(out)
          /\ con.pos + Len(out) <= 15
      BY <2>1, <2>2, <2>5, <2>9
    <3>2. Len(out) \in 1 .. 16 /\ Len(out') = Len(out) - 1
      BY <2>4, <3>1
    <3>3. con'.pos + Len(out') <= 14 /\ con'.pos <= 15
      BY <2>1, <2>6, <3>1, <3>2
    <3> QED BY <2>4, <3>1, <3>3
  <2>b. pc' = "proc" => Still(ch')
    BY <2>1, <2>2, <2>4, <2>5
  <2>c. ~cut'
    BY <2>1 DEF Parsing
  <2> QED BY <2>7, <2>8, <2>9, <2>a, <2>b, <2>c DEF Parsing
<1>8. CASE Escape
  <2>1. pc \in {"start", "proc"} /\ pc' = "idle" /\ out' = out /\ cut' = cut
    BY <1>8 DEF Escape, local, histories
  <2>2. CASE pc = "start"
    <3>1. con' = StartEscape(con) /\ AtRest(con)
      BY <1>0, <1>8, <2>2 DEF Escape, ConsoleInv, AtRest, PlainSteps
    <3>2. con'.pos = 0
      <4>1. Sane(con') /\ con'.escaped = "START"
        BY <3>1, StartEscapeIs
      <4> QED BY <4>1 DEF Sane
    <3>3. SequenceTail(out) /\ Len(out) <= 15 /\ Len(out) \in Nat
      <4>1. SequenceTail(out) /\ Len(out) <= 15
        BY <2>2 DEF Parsing
      <4>2. Len(out) \in 1 .. 16
        BY <4>1, TailOfSequence
      <4> QED BY <4>1, <4>2
    <3>4. con'.pos + Len(out) <= 15
      BY <3>2, <3>3
    <3> QED BY <2>1, <3>3, <3>4 DEF Parsing
  <2>3. CASE pc = "proc"
    <3>1. con' = proc_escape(con, ch) /\ OnScreen(con)
      BY <1>0, <1>8, <2>3 DEF Escape
    <3>2. \/ con'.escaped = "NONE"
          \/ con.escaped # "NONE" /\ ch \notin Finals /\ con'.pos \in {con.pos, con.pos + 1}
      BY <1>0, <3>1, EscapeGoesOn
    <3>3. CASE con'.escaped = "NONE"
      BY <2>1, <3>3 DEF Parsing
    <3>4. CASE con'.escaped # "NONE"
      <4>1. SequenceTail(out) /\ con.pos + Len(out) <= 14
        BY <2>3, <3>2, <3>4 DEF Parsing
      <4>2. Len(out) \in 1 .. 16 /\ con.pos \in Nat
        BY <1>0, <4>1, TailOfSequence DEF Sane
      <4>3. con'.pos + Len(out) <= 15
        BY <3>2, <3>4, <4>1, <4>2
      <4> QED BY <2>1, <4>1, <4>3 DEF Parsing
    <3> QED BY <3>3, <3>4
  <2> QED BY <2>1, <2>2, <2>3
<1>9. CASE Ending
  <2>1. /\ pc \in PlainSteps /\ out' = out /\ cut' = cut
        /\ pc' \in {"idle", "newline_fit", "advance", "wrap", "wrap_fit", "put"}
    BY <1>9 DEF Ending, Newline, NewlineFit, PutChar, AdvanceCol, Wrap, NoWrap,
         WrapFit, Return, local, histories, PlainSteps
  <2>2. con'.escaped = "NONE"
    <3>1. con.escaped = "NONE" /\ SameMode(con, con')
      BY <1>9, <2>1, EndingKeepsMode DEF ConsoleInv
    <3> QED BY <3>1 DEF SameMode, Mode
  <2> QED BY <2>1, <2>2 DEF Parsing
<1>10. CASE RtcPrint
  <2>1. out' = out /\ pc' = pc /\ ch' = ch /\ con' = WriteString(con, Message)
    BY <1>10 DEF RtcPrint
  <2>a. ~cut'
    BY <1>10 DEF RtcPrint, Parsing
  <2>2. con'.escaped = "NONE"
    <3>1. OnScreen(con) \/ con.escaped = "NONE"
      BY DEF ConsoleInv, Parsing, ScreenSteps, PlainSteps, Steps
    <3> QED BY <1>0, <2>1, <3>1, MessageAtRest DEF AtRest
  <2> QED BY <2>1, <2>2, <2>a DEF Parsing
<1>11. CASE UNCHANGED vars
  BY <1>11 DEF vars, Parsing
<1>13. ~Overrun /\ ~Move /\ ~Limit /\ ~Restore
  BY OnlyColors
<1> QED BY <1>3, <1>4, <1>5, <1>6, <1>7, <1>8, <1>9, <1>10, <1>11, <1>12, <1>13
        DEF Next, console_write_main, Ending

LEMMA NextParserInv ==
  ASSUME CutInv, ParserInv, [Next]_vars
  PROVE  ParserInv'
<1> SUFFICES ASSUME ~typed' PROVE Parsing'
  BY DEF ParserInv
<1>1. ~typed
  <2>1. CASE console_write_main
    BY <2>1 DEF console_write_main, MoveCursor, Enter, Escape, Overrun, Move,
       Limit, Restore, TestCol, LoadCol, DropCol, TestRow, LoadRow, DropRow,
       EndRestore, Newline, NewlineFit, PutChar, AdvanceCol, Wrap, NoWrap,
       WrapFit, local, histories
  <2> QED BY <2>1 DEF Next, vars, PutText, PutColor, PutSequence, console_read,
                      RtcPrint, histories
<1>2. Parsing /\ ConsoleInv
  BY <1>1 DEF ParserInv, Parsing, CutInv
<1> QED BY <1>2, ParsingGoesOn
LEMMA StaticsTyped ==
  ASSUME ConsoleInv
  PROVE  Statics(con, pc) /\ left \in 0 .. TAB_WIDTH
<1> DEFINE far == IF pc = "limit" THEN 0 .. 127 ELSE 0 .. VCOLS
           low == IF pc = "limit" THEN 0 .. 127 ELSE 0 .. VROWS
<1>1. CASE pc = "limit"
  <2>1. Astray(con) /\ con.col >= 0 /\ con.row >= 0 /\ con.cursor \in Cells
    BY <1>1 DEF ConsoleInv, Stored
  <2>2. con.col \in -128 .. 127 /\ con.row \in -128 .. 127
    BY <2>1 DEF Astray
  <2>3. con.col \in 0 .. 127 /\ con.row \in 0 .. 127
    BY <2>1, <2>2
  <2>4. con.col \in far /\ con.row \in low
    BY <1>1, <2>3
  <2>5. DOMAIN con.vram = Cells
    <3>1. con.vram = [i \in Cells |-> con.vram[i]]
      BY SMTT(20), <2>1 DEF Astray
    <3> QED BY <3>1
  <2>6. /\ con.attr \in Attrs /\ con.escaped \in {"NONE", "START", "READ"}
        /\ con.buffer \in [0 .. 15 -> -128 .. 127]
        /\ con.saved_col \in -1 .. VCOL_MAX /\ con.saved_row \in -1 .. VROW_MAX
    BY <2>1 DEF Astray
  <2> HIDE DEF VCOL_MAX, VROW_MAX
  <2> QED BY <2>1, <2>4, <2>5, <2>6, Zenon DEF Statics, ConsoleInv
<1>2. CASE pc # "limit"
  <2>1. Sane(con)
    BY <1>2 DEF ConsoleInv
  <2>2. /\ con.col \in 0 .. VCOLS /\ con.row \in 0 .. VROWS
        /\ con.attr \in Attrs /\ con.escaped \in {"NONE", "START", "READ"}
        /\ con.buffer \in [0 .. 15 -> -128 .. 127]
        /\ con.saved_col \in -1 .. VCOL_MAX /\ con.saved_row \in -1 .. VROW_MAX
        /\ con.cursor \in Cells
    BY <2>1 DEF Sane
  <2>4. con.col \in far /\ con.row \in low
    BY <1>2, <2>2
  <2>5. DOMAIN con.vram = Cells
    <3>1. con.vram = [i \in Cells |-> con.vram[i]]
      BY SMTT(20), <2>1 DEF Sane
    <3> QED BY <3>1
  <2> HIDE DEF VCOL_MAX, VROW_MAX
  <2> QED BY <2>2, <2>4, <2>5, Zenon DEF Statics, ConsoleInv
<1> QED BY <1>1, <1>2

\* Of the kernel's own strings, none takes the parser out of its buffer.
LEMMA StaysInBuffer ==
  ASSUME ConsoleInv, Parsing
  PROVE  con.pos \in 0 .. 15 /\ pc # "overrun"
<1>1. Sane(con)
  BY DEF ConsoleInv, Parsing
<1>2. con.pos \in Nat /\ (con.escaped = "NONE" => con.pos = 0)
  BY <1>1 DEF Sane
<1>3. con.escaped # "NONE" => con.pos <= 15
  <2>1. \/ con.escaped = "NONE"
        \/ SequenceTail(out) /\ con.pos + Len(out) <= 15
        \/ SequenceTail(out) /\ con.pos + Len(out) <= 14
        \/ con.pos <= 15
    BY DEF Parsing
  <2>2. SequenceTail(out) => Len(out) \in 1 .. 16
    BY TailOfSequence
  <2> QED BY <1>2, <2>1, <2>2
<1>4. con.pos \in 0 .. 15
  BY <1>2, <1>3
<1> QED BY <1>4 DEF Parsing

LEMMA ConsoleTyped ==
  ASSUME CutInv, ParserInv
  PROVE  TypeOK
<1>1. cut \/ (Statics(con, pc) /\ left \in 0 .. TAB_WIDTH)
  BY StaticsTyped DEF CutInv
<1>2. typed \/ (con.pos \in 0 .. 15 /\ pc # "overrun")
  BY StaysInBuffer DEF CutInv, ParserInv, Parsing
<1>3. Bounds
  BY DEF CutInv
<1> QED BY <1>1, <1>2, <1>3, Zenon DEF TypeOK, Bounds, Steps

\* The parser's buffer of parameters is large enough for all that main and the
\* handler of the clock write, however the message tears main's sequences,
\* until main writes what a user typed.
THEOREM ParserStays == Spec => [](CutInv /\ ParserInv)
<1>1. Init => CutInv /\ ParserInv
  BY InitConsoleInv, InitParserInv DEF CutInv, ConsoleInv
<1>2. CutInv /\ ParserInv /\ [Next]_vars => CutInv' /\ ParserInv'
  BY NextCutInv, NextParserInv
<1> QED BY <1>1, <1>2, PTL DEF Spec

\* The static variables of console.c stay in their ranges: the cursor at most
\* one place off the screen, or limited next, until a message cuts the test of
\* a saved coordinate from its use; the parser in its buffer, until main writes
\* what a user typed.
THEOREM ConsoleIsTyped == Spec => []TypeOK
<1>1. CutInv /\ ParserInv => TypeOK
  BY ConsoleTyped
<1> QED BY <1>1, ParserStays, PTL

-----------------------------------------------------------------------------
(***************************************************************************)
(* The page.                                                               *)
(***************************************************************************)
PageFields == {"cells", "at", "top"}
IsPage(p) == p = [f \in PageFields |-> p[f]]

Well(p) ==
  /\ IsPage(p)
  /\ Len(p.cells) \in Nat /\ p.at \in Nat /\ p.top \in Nat

\* The same characters at the same positions.
SameChars(p, q) == \A i \in Nat : P!CharAt(q, i) = P!CharAt(p, i)

LEMMA LenOfFunction ==
  ASSUME NEW n \in Nat, NEW f, f = [i \in 1 .. n |-> f[i]]
  PROVE  Len(f) = n
<1> DEFINE S == {f[i] : i \in 1 .. n}
<1>1. f \in [1 .. n -> S]
  OBVIOUS
<1> HIDE DEF S
<1>2. f \in Seq(S)
  BY <1>1, SeqDef, Zenon
<1>3. Len(f) \in Nat /\ DOMAIN f = 1 .. Len(f)
  BY <1>2, LenProperties
<1>4. 1 .. Len(f) = 1 .. n
  BY <1>1, <1>3
<1> DEFINE m == Len(f)
<1>5. m \in Nat /\ 1 .. m = 1 .. n
  BY <1>3, <1>4
<1> HIDE DEF m
<1>6. m = n
  <2>1. n \in 1 .. n => n \in 1 .. m
    BY <1>5
  <2>2. m \in 1 .. m => m \in 1 .. n
    BY <1>5
  <2> QED BY <1>5, <2>1, <2>2
<1> QED BY <1>6 DEF m

LEMMA LargerOf ==
  ASSUME NEW m \in Int, NEW n \in Int
  PROVE  /\ P!Larger(m, n) \in {m, n}
         /\ P!Larger(m, n) >= m /\ P!Larger(m, n) >= n
         /\ P!Larger(m, n) \in Int
BY DEF P!Larger

\* The position moved: the screen may move down, the characters stay.
LEMMA MoveToIs ==
  ASSUME NEW p, Well(p), NEW q \in Nat
  PROVE  LET r == P!MoveTo(p, q)
             n == q \div VCOLS
         IN  /\ Well(r) /\ r.at = q /\ r.cells = p.cells
             /\ n <= p.top + VROW_MAX => r.top = p.top
             /\ n > p.top + VROW_MAX => r.top = n - VROW_MAX
             /\ SameChars(p, r)
<1> DEFINE n == q \div VCOLS
           t == P!Larger(p.top, n - (VROWS - 1))
           r == P!MoveTo(p, q)
<1>0. IsPage(p) /\ Len(p.cells) \in Nat /\ p.top \in Nat
  BY DEF Well
<1>1. n \in Nat
  OBVIOUS
<1>2. r.at = q /\ r.cells = p.cells /\ r.top = t /\ IsPage(r)
  BY <1>0 DEF P!MoveTo, IsPage, PageFields
<1> HIDE DEF n
<1>3. /\ t \in Nat
      /\ n <= p.top + VROW_MAX => t = p.top
      /\ n > p.top + VROW_MAX => t = n - VROW_MAX
  BY <1>0, <1>1 DEF P!Larger
<1> HIDE DEF t, r
<1>4. Well(r)
  BY <1>0, <1>2, <1>3 DEF Well
<1>5. SameChars(p, r)
  BY <1>2 DEF SameChars, P!CharAt
<1> QED BY <1>2, <1>3, <1>4, <1>5 DEF n, r

\* A character put on the page.
LEMMA PutIs ==
  ASSUME NEW p, Well(p), NEW q \in Nat, NEW k
  PROVE  LET r == P!Put(p, q, k)
         IN  /\ Well(r) /\ r.at = p.at /\ r.top = p.top
             /\ \A i \in Nat : P!CharAt(r, i) = IF i = q THEN k ELSE P!CharAt(p, i)
<1> DEFINE m == P!Larger(Len(p.cells), q + 1)
           f == [i \in 1 .. m |-> IF i = q + 1 THEN k ELSE P!CharAt(p, i - 1)]
           r == P!Put(p, q, k)
<1>1. IsPage(p) /\ Len(p.cells) \in Nat /\ p.at \in Nat /\ p.top \in Nat
  BY DEF Well
<1>2. m \in Nat /\ m >= Len(p.cells) /\ m >= q + 1
  BY <1>1 DEF P!Larger
<1>3. r = [p EXCEPT !.cells = f]
  BY DEF P!Put
<1> HIDE DEF m, f, r
<1>a. r.at = p.at /\ r.top = p.top /\ r.cells = f /\ IsPage(r)
  BY <1>1, <1>3 DEF IsPage, PageFields
<1> USE DEF f
<1>4. f = [i \in 1 .. m |-> f[i]]
  OBVIOUS
<1>5. \A i \in 1 .. m : f[i] = IF i = q + 1 THEN k ELSE P!CharAt(p, i - 1)
  OBVIOUS
<1> HIDE DEF f
<1>6. Len(f) = m
  BY <1>2, <1>4, LenOfFunction
<1>7. Well(r)
  BY <1>1, <1>2, <1>a, <1>6 DEF Well
<1>8. ASSUME NEW i \in Nat
      PROVE  P!CharAt(r, i) = IF i = q THEN k ELSE P!CharAt(p, i)
  <2>1. P!CharAt(r, i) = IF i < m THEN f[i + 1] ELSE P!SPACE
    BY <1>a, <1>6 DEF P!CharAt
  <2>2. CASE i < m
    <3>1. i + 1 \in 1 .. m /\ (i + 1) - 1 = i /\ (i + 1 = q + 1 <=> i = q)
      BY <1>2, <2>2
    <3>2. f[i + 1] = IF i + 1 = q + 1 THEN k ELSE P!CharAt(p, (i + 1) - 1)
      BY <1>5, <3>1
    <3> QED BY <2>1, <2>2, <3>1, <3>2
  <2>3. CASE ~(i < m)
    <3>1. i # q /\ ~(i < Len(p.cells))
      BY <1>1, <1>2, <2>3
    <3>2. P!CharAt(p, i) = P!SPACE
      BY <3>1 DEF P!CharAt
    <3> QED BY <2>1, <2>3, <3>1, <3>2
  <2> QED BY <2>2, <2>3
<1> QED BY <1>a, <1>7, <1>8 DEF r

\* The spaces of a tab put on the page.
LEMMA BlanksIs ==
  ASSUME NEW p, Well(p), NEW n \in Nat
  PROVE  LET r == P!Blanks(p, n)
         IN  /\ Well(r) /\ r.at = p.at /\ r.top = p.top
             /\ r.cells = [i \in 1 .. P!Larger(Len(p.cells), p.at + n) |->
                             IF i > p.at /\ i <= p.at + n
                             THEN P!SPACE ELSE P!CharAt(p, i - 1)]
<1> DEFINE m == P!Larger(Len(p.cells), p.at + n)
           f == [i \in 1 .. m |-> IF i > p.at /\ i <= p.at + n
                                  THEN P!SPACE ELSE P!CharAt(p, i - 1)]
           r == P!Blanks(p, n)
<1>1. IsPage(p) /\ Len(p.cells) \in Nat /\ p.at \in Nat /\ p.top \in Nat
  BY DEF Well
<1>2. m \in Nat
  BY <1>1 DEF P!Larger
<1>3. r = [p EXCEPT !.cells = f]
  BY DEF P!Blanks
<1> HIDE DEF m, f, r
<1>a. r.at = p.at /\ r.top = p.top /\ r.cells = f /\ IsPage(r)
  BY <1>1, <1>3 DEF IsPage, PageFields
<1> USE DEF f
<1>4. f = [i \in 1 .. m |-> f[i]]
  OBVIOUS
<1> HIDE DEF f
<1>5. Len(f) = m
  BY <1>2, <1>4, LenOfFunction
<1>6. Well(r)
  BY <1>1, <1>2, <1>a, <1>5 DEF Well
<1> QED BY <1>a, <1>6 DEF r, f, m

(***************************************************************************)
(* The console shows a page: the cells, the blank rest of the page below   *)
(* them, and the cursor.                                                   *)
(***************************************************************************)
ShowsCells(v, p) ==
  /\ \A i \in Cells : v[i].ch = P!CharAt(p, p.top * VCOLS + i)
  /\ \A i \in Nat : i >= (p.top + VROWS) * VCOLS => P!CharAt(p, i) = SPACE

Shows(c, p) ==
  /\ Sane(c) /\ OnScreen(c) /\ Well(p)
  /\ ShowsCells(c.vram, p)
  /\ p.at = p.top * VCOLS + VPOS(c.col, c.row)

LEMMA SameSpace == P!SPACE = SPACE
BY Zenon DEF P!SPACE, SPACE

\* Lines of the page: where one begins, and which one a position is in.
LEMMA Lines ==
  ASSUME NEW t \in Nat
  PROVE  /\ t * VCOLS \in Nat
         /\ (t + 1) * VCOLS = t * VCOLS + VCOLS
         /\ (t + VROWS) * VCOLS = t * VCOLS + VROWS * VCOLS
         /\ ((t + 1) + VROWS) * VCOLS = t * VCOLS + VCOLS + VROWS * VCOLS
         /\ VROWS * VCOLS \in Nat
OBVIOUS

LEMMA LineOf ==
  ASSUME NEW n \in Nat, NEW x \in 0 .. VCOL_MAX
  PROVE  (n * VCOLS + x) \div VCOLS = n /\ (n * VCOLS + x) \in Nat
<1> DEFINE a == n * VCOLS + x
           m == a \div VCOLS
           z == a % VCOLS
<1>1. a \in Nat
  OBVIOUS
<1>2. a = n * VCOLS + x
  OBVIOUS
<1> HIDE DEF a
<1>3. m \in Nat /\ z \in 0 .. VCOL_MAX /\ a = VCOLS * m + z
  BY <1>1
<1> HIDE DEF m, z
<1>4. n * VCOLS + x = m * VCOLS + z
  BY <1>2, <1>3
<1>5. ~(n >= m + 1)
  <2> SUFFICES ASSUME n >= m + 1 PROVE FALSE
    OBVIOUS
  <2>1. n * VCOLS >= (m + 1) * VCOLS /\ (m + 1) * VCOLS = m * VCOLS + VCOLS
    BY <1>3
  <2> QED BY <1>3, <1>4, <2>1
<1>6. ~(m >= n + 1)
  <2> SUFFICES ASSUME m >= n + 1 PROVE FALSE
    OBVIOUS
  <2>1. m * VCOLS >= (n + 1) * VCOLS /\ (n + 1) * VCOLS = n * VCOLS + VCOLS
    BY <1>3
  <2> QED BY <1>3, <1>4, <2>1
<1>7. m = n
  BY <1>3, <1>5, <1>6
<1> QED BY <1>1, <1>7 DEF a, m

\* The same screen shows a page with the same characters.
LEMMA SameShown ==
  ASSUME NEW v, NEW p, NEW r, Well(p), ShowsCells(v, p), SameChars(p, r), r.top = p.top
  PROVE  ShowsCells(v, r)
<1>1. \A i \in Cells : p.top * VCOLS + i \in Nat
  <2>1. p.top \in Nat /\ \A i \in Cells : i \in Nat
    BY DEF Well, Cells
  <2>2. p.top * VCOLS \in Nat
    BY <2>1, Lines
  <2> HIDE DEF Cells
  <2> QED BY <2>1, <2>2
<1> QED BY <1>1 DEF ShowsCells, SameChars

\* One line further down.
LEMMA DownShown ==
  ASSUME NEW v, NEW p, NEW r, Well(p), ShowsCells(v, p), SameChars(p, r),
         r.top = p.top + 1
  PROVE  ShowsCells(Scrolled(v), r)
<1> DEFINE b == p.top * VCOLS
           s == VROWS * VCOLS
<1>1. p.top \in Nat
  BY DEF Well
<1>2. /\ b \in Nat /\ s \in Nat /\ r.top * VCOLS = b + VCOLS
      /\ (p.top + VROWS) * VCOLS = b + s
      /\ (r.top + VROWS) * VCOLS = b + VCOLS + s
  BY <1>1, Lines
<1>3. /\ \A i \in 0 .. s - 1 : v[i].ch = P!CharAt(p, b + i)
      /\ \A i \in Nat : i >= b + s => P!CharAt(p, i) = SPACE
  BY <1>2 DEF ShowsCells, Cells
<1>4. Scrolled(v) = [i \in 0 .. s - 1 |-> IF i + VCOLS \in 0 .. s - 1
                                          THEN v[i + VCOLS] ELSE Blank]
  BY DEF Scrolled, Cells
<1> HIDE DEF b, s
<1>5. ASSUME NEW i \in 0 .. s - 1
      PROVE  Scrolled(v)[i].ch = P!CharAt(r, b + VCOLS + i)
  <2>1. b + VCOLS + i \in Nat /\ b + VCOLS + i = b + (i + VCOLS)
    BY <1>2
  <2>2. P!CharAt(r, b + VCOLS + i) = P!CharAt(p, b + VCOLS + i)
    BY <2>1 DEF SameChars
  <2>3. CASE i + VCOLS \in 0 .. s - 1
    <3>1. Scrolled(v)[i] = v[i + VCOLS]
      BY <1>4, <2>3
    <3>2. v[i + VCOLS].ch = P!CharAt(p, b + (i + VCOLS))
      BY <1>3, <2>3
    <3> QED BY <2>1, <2>2, <3>1, <3>2
  <2>4. CASE i + VCOLS \notin 0 .. s - 1
    <3>1. Scrolled(v)[i] = Blank
      BY <1>4, <2>4
    <3>2. b + VCOLS + i >= b + s
      BY <1>2, <2>4
    <3>3. P!CharAt(p, b + VCOLS + i) = SPACE
      BY <1>3, <2>1, <3>2
    <3> QED BY <2>2, <3>1, <3>3 DEF Blank
  <2> QED BY <2>3, <2>4
<1>6. ASSUME NEW i \in Nat, i >= b + VCOLS + s
      PROVE  P!CharAt(r, i) = SPACE
  <2>1. i >= b + s
    BY <1>2, <1>6
  <2> QED BY <1>3, <2>1 DEF SameChars
<1>7. /\ \A i \in Cells : Scrolled(v)[i].ch = P!CharAt(r, r.top * VCOLS + i)
      /\ \A i \in Nat : i >= (r.top + VROWS) * VCOLS => P!CharAt(r, i) = SPACE
  BY <1>2, <1>5, <1>6 DEF Cells, s
<1> QED BY <1>7 DEF ShowsCells

\* A character in a cell.
LEMMA PutShown ==
  ASSUME NEW v, NEW p, Well(p), ShowsCells(v, p), NEW j \in Cells, NEW e
  PROVE  LET w == [i \in Cells |-> IF i = j THEN e ELSE v[i]]
             r == P!Put(p, p.top * VCOLS + j, e.ch)
         IN  Well(r) /\ r.at = p.at /\ r.top = p.top /\ ShowsCells(w, r)
<1> DEFINE b == p.top * VCOLS
           s == VROWS * VCOLS
           q == p.top * VCOLS + j
           k == e.ch
           w == [i \in Cells |-> IF i = j THEN e ELSE v[i]]
           r == P!Put(p, q, k)
<1>1. p.top \in Nat /\ j \in 0 .. s - 1
  BY DEF Well, Cells
<1>2. b \in Nat /\ s \in Nat /\ (p.top + VROWS) * VCOLS = b + s
  BY <1>1, Lines
<1>a. q = b + j
  OBVIOUS
<1>3. q \in Nat /\ q = b + j
  <2> HIDE DEF q, b, s
  <2> QED BY <1>1, <1>2, <1>a
<1> HIDE DEF q, k, r
<1>4. /\ Well(r) /\ r.at = p.at /\ r.top = p.top
      /\ \A i \in Nat : P!CharAt(r, i) = IF i = q THEN k ELSE P!CharAt(p, i)
  BY <1>3, PutIs DEF r
<1>5. /\ \A i \in Cells : v[i].ch = P!CharAt(p, b + i)
      /\ \A i \in Nat : i >= b + s => P!CharAt(p, i) = SPACE
  BY <1>2 DEF ShowsCells
<1>6. Cells = 0 .. s - 1
  BY DEF Cells
<1> HIDE DEF b, s
<1>7. ASSUME NEW i \in Cells
      PROVE  w[i].ch = P!CharAt(r, b + i)
  <2>1. b + i \in Nat /\ (b + i = q <=> i = j)
    BY <1>2, <1>3, <1>6, <1>1
  <2>2. P!CharAt(r, b + i) = IF b + i = q THEN k ELSE P!CharAt(p, b + i)
    BY <1>4, <2>1
  <2>3. w[i] = IF i = j THEN e ELSE v[i]
    OBVIOUS
  <2> HIDE DEF w
  <2> QED BY <1>5, <2>1, <2>2, <2>3 DEF k
<1>8. ASSUME NEW i \in Nat, i >= b + s
      PROVE  P!CharAt(r, i) = SPACE
  <2>1. i # q
    BY <1>1, <1>2, <1>3, <1>8
  <2> QED BY <1>4, <1>5, <1>8, <2>1
<1> HIDE DEF w
<1>9. ShowsCells(w, r)
  <2>1. r.top * VCOLS = b /\ (r.top + VROWS) * VCOLS = b + s
    BY <1>2, <1>4 DEF b
  <2> QED BY <1>7, <1>8, <2>1 DEF ShowsCells
<1> QED BY <1>4, <1>9 DEF w, r, q, k

\* The place after one on the screen, and the next line's beginning.
LEMMA NextPlace ==
  ASSUME NEW t \in Nat, NEW x \in 0 .. VCOL_MAX, NEW y \in 0 .. VROW_MAX
  PROVE  LET a == t * VCOLS + VPOS(x, y)
             b == P!NextMultiple(a, VCOLS)
         IN  /\ a \in Nat /\ a + 1 \in Nat /\ b \in Nat
             /\ a \div VCOLS = t + y
             /\ x < VCOL_MAX =>
                  (a + 1) \div VCOLS = t + y /\ a + 1 = t * VCOLS + VPOS(x + 1, y)
             /\ x = VCOL_MAX => a + 1 = b
             /\ b \div VCOLS = t + y + 1
             /\ b = t * VCOLS + VPOS(0, y + 1)
             /\ y = VROW_MAX => b = (t + 1) * VCOLS + VPOS(0, VROW_MAX)
<1> DEFINE a == t * VCOLS + VPOS(x, y)
           b == P!NextMultiple(a, VCOLS)
           n == t + y
<1>1. n \in Nat /\ n + 1 \in Nat
  OBVIOUS
<1>2. a = n * VCOLS + x
  BY DEF VPOS
<1>3. a \div VCOLS = n /\ a \in Nat
  <2> HIDE DEF n, a
  <2> QED BY <1>1, <1>2, LineOf
<1>4. b = (n + 1) * VCOLS
  <2> HIDE DEF n, a
  <2> QED BY <1>3 DEF P!NextMultiple
<1>5. b \div VCOLS = n + 1 /\ b \in Nat
  <2>1. 0 \in 0 .. VCOL_MAX /\ (n + 1) * VCOLS + 0 = (n + 1) * VCOLS
    OBVIOUS
  <2> DEFINE m == n + 1
  <2> HIDE DEF n, b
  <2>2. (m * VCOLS + 0) \div VCOLS = m /\ (m * VCOLS + 0) \in Nat
    <3> HIDE DEF m
    <3>1. m \in Nat
      BY <1>1 DEF m
    <3> QED BY <2>1, <3>1, LineOf
  <2> QED BY <1>4, <2>1, <2>2
<1>6. x < VCOL_MAX =>
        (a + 1) \div VCOLS = n /\ a + 1 = t * VCOLS + VPOS(x + 1, y)
  <2> SUFFICES ASSUME x < VCOL_MAX
               PROVE  (a + 1) \div VCOLS = n /\ a + 1 = t * VCOLS + VPOS(x + 1, y)
    OBVIOUS
  <2> DEFINE z == x + 1
  <2>1. z \in 0 .. VCOL_MAX /\ a + 1 = n * VCOLS + z
    BY <1>2
  <2>2. a + 1 = t * VCOLS + VPOS(z, y)
    BY DEF VPOS
  <2> HIDE DEF z, a, n
  <2>3. (n * VCOLS + z) \div VCOLS = n
    BY <1>1, <2>1, LineOf
  <2> QED BY <2>1, <2>2, <2>3 DEF z
<1>7. x = VCOL_MAX => a + 1 = b
  <2> HIDE DEF a, b, n
  <2>1. (n + 1) * VCOLS = n * VCOLS + VCOLS /\ n * VCOLS \in Nat
    BY <1>1
  <2> QED BY <1>2, <1>3, <1>4, <2>1
<1>8. b = t * VCOLS + VPOS(0, y + 1)
  <2> HIDE DEF b
  <2> QED BY <1>4 DEF VPOS
<1>9. y = VROW_MAX => b = (t + 1) * VCOLS + VPOS(0, VROW_MAX)
  <2> HIDE DEF b
  <2> QED BY <1>4 DEF VPOS
<1>10. a + 1 \in Nat
  <2> HIDE DEF a
  <2> QED BY <1>3
<1> QED BY <1>3, <1>5, <1>6, <1>7, <1>8, <1>9, <1>10

\* The same about the position of a page that is shown.
LEMMA NextPlaceOf ==
  ASSUME NEW c, NEW p, Shows(c, p)
  PROVE  LET a == p.at
             b == P!NextMultiple(a, VCOLS)
         IN  /\ a \in Nat /\ a + 1 \in Nat /\ b \in Nat
             /\ a \div VCOLS = p.top + c.row
             /\ c.col < VCOL_MAX =>
                  /\ (a + 1) \div VCOLS = p.top + c.row
                  /\ a + 1 = p.top * VCOLS + VPOS(c.col + 1, c.row)
             /\ c.col = VCOL_MAX => a + 1 = b
             /\ b \div VCOLS = p.top + c.row + 1
             /\ b = p.top * VCOLS + VPOS(0, c.row + 1)
             /\ c.row = VROW_MAX => b = (p.top + 1) * VCOLS + VPOS(0, VROW_MAX)
<1> DEFINE t == p.top
           x == c.col
           y == c.row
           a == t * VCOLS + VPOS(x, y)
           b == P!NextMultiple(a, VCOLS)
<1>1. t \in Nat /\ x \in 0 .. VCOL_MAX /\ y \in 0 .. VROW_MAX
  BY DEF Shows, Sane, OnScreen, Well
<1>2. p.at = a
  BY DEF Shows
<1>3. /\ a \in Nat /\ a + 1 \in Nat /\ b \in Nat
      /\ a \div VCOLS = t + y
      /\ x < VCOL_MAX =>
           (a + 1) \div VCOLS = t + y /\ a + 1 = t * VCOLS + VPOS(x + 1, y)
      /\ x = VCOL_MAX => a + 1 = b
      /\ b \div VCOLS = t + y + 1
      /\ b = t * VCOLS + VPOS(0, y + 1)
      /\ y = VROW_MAX => b = (t + 1) * VCOLS + VPOS(0, VROW_MAX)
  <2> HIDE DEF t, x, y
  <2> QED BY ONLY <1>1, NextPlace DEF a, b
<1>4. b = P!NextMultiple(p.at, VCOLS)
  BY <1>2
<1> HIDE DEF a, b
<1> QED BY <1>2, <1>3, <1>4, Zenon DEF t, x, y

\* The position moved to a place on the screen, or to the line after it.
LEMMA Arrives ==
  ASSUME NEW q, Well(q), NEW v, ShowsCells(v, q), NEW d, Sane(d), OnScreen(d),
         NEW a \in Nat,
         \/ /\ a \div VCOLS <= q.top + VROW_MAX
            /\ d.vram = v /\ a = q.top * VCOLS + VPOS(d.col, d.row)
         \/ /\ a \div VCOLS = q.top + VROWS
            /\ d.vram = Scrolled(v) /\ a = (q.top + 1) * VCOLS + VPOS(d.col, d.row)
  PROVE  Shows(d, P!MoveTo(q, a))
<1> DEFINE r == P!MoveTo(q, a)
           n == a \div VCOLS
<1>1. /\ Well(r) /\ r.at = a
      /\ n <= q.top + VROW_MAX => r.top = q.top
      /\ n > q.top + VROW_MAX => r.top = n - VROW_MAX
      /\ SameChars(q, r)
  BY MoveToIs
<1>2. q.top \in Nat
  BY DEF Well
<1>3. \/ /\ n <= q.top + VROW_MAX
         /\ d.vram = v /\ a = q.top * VCOLS + VPOS(d.col, d.row)
      \/ /\ n = q.top + VROWS
         /\ d.vram = Scrolled(v) /\ a = (q.top + 1) * VCOLS + VPOS(d.col, d.row)
  OBVIOUS
<1> HIDE DEF r, n
<1>4. CASE /\ n <= q.top + VROW_MAX
           /\ d.vram = v /\ a = q.top * VCOLS + VPOS(d.col, d.row)
  <2>1. r.top = q.top
    BY <1>1, <1>4
  <2>2. ShowsCells(v, r)
    BY <1>1, <2>1, SameShown
  <2> QED BY <1>1, <1>4, <2>1, <2>2 DEF Shows, r
<1>5. CASE /\ n = q.top + VROWS
           /\ d.vram = Scrolled(v) /\ a = (q.top + 1) * VCOLS + VPOS(d.col, d.row)
  <2>1. r.top = q.top + 1
    BY <1>1, <1>2, <1>5
  <2>2. ShowsCells(Scrolled(v), r)
    BY <1>1, <2>1, DownShown
  <2> QED BY <1>1, <1>5, <2>1, <2>2 DEF Shows, r
<1> QED BY <1>3, <1>4, <1>5

\* A printable character.
LEMMA WriteShown ==
  ASSUME NEW c, NEW p, Shows(c, p), NEW k, k # "NL", k # "TAB"
  PROVE  Shows(WritePrintable(c, k), P!Write(p, k))
<1> DEFINE j == VPOS(c.col, c.row)
           e == Cell(c.attr, k)
           v == [i \in Cells |-> IF i = j THEN e ELSE c.vram[i]]
           q == P!Put(p, p.at, k)
           d == WritePrintable(c, k)
<1>1. /\ Sane(c) /\ OnScreen(c) /\ Well(p) /\ ShowsCells(c.vram, p)
      /\ p.at = p.top * VCOLS + j
  BY DEF Shows
<1>2. c.col \in 0 .. VCOL_MAX /\ c.row \in 0 .. VROW_MAX /\ p.top \in Nat
  BY <1>1 DEF Sane, OnScreen, Well
<1>3. P!Write(p, k) = P!MoveTo(q, p.at + 1)
  BY DEF P!Write
<1>4. e.ch = k
  BY DEF Cell
<1>5. j \in Cells
  BY <1>2, CellOfPlace
<1>6. Well(q) /\ q.top = p.top /\ ShowsCells(v, q)
  <2> HIDE DEF j, e
  <2> QED BY <1>1, <1>4, <1>5, PutShown
<1>7. /\ Sane(d) /\ OnScreen(d)
      /\ c.col < VCOL_MAX => d.col = c.col + 1 /\ d.row = c.row /\ d.vram = v
      /\ c.col = VCOL_MAX /\ c.row < VROW_MAX =>
           d.col = 0 /\ d.row = c.row + 1 /\ d.vram = v
      /\ c.col = VCOL_MAX /\ c.row = VROW_MAX =>
           d.col = 0 /\ d.row = VROW_MAX /\ d.vram = Scrolled(v)
  BY <1>1, WritePrintableIs, WritePrintableSane
<1> DEFINE b == P!NextMultiple(p.at, VCOLS)
           a == p.at + 1
<1>8. /\ a \in Nat
      /\ c.col < VCOL_MAX =>
           a \div VCOLS = p.top + c.row /\ a = p.top * VCOLS + VPOS(c.col + 1, c.row)
      /\ c.col = VCOL_MAX => a = b
      /\ b \div VCOLS = p.top + c.row + 1
      /\ b = p.top * VCOLS + VPOS(0, c.row + 1)
      /\ c.row = VROW_MAX => b = (p.top + 1) * VCOLS + VPOS(0, VROW_MAX)
  BY NextPlaceOf, Zenon DEF a, b
<1> HIDE DEF j, e, v, q, d, b, a
<1>9. \/ /\ a \div VCOLS <= q.top + VROW_MAX
         /\ d.vram = v /\ a = q.top * VCOLS + VPOS(d.col, d.row)
      \/ /\ a \div VCOLS = q.top + VROWS
         /\ d.vram = Scrolled(v) /\ a = (q.top + 1) * VCOLS + VPOS(d.col, d.row)
  <2>1. CASE c.col < VCOL_MAX
    <3>1. p.top + c.row <= p.top + VROW_MAX
      BY <1>2
    <3> QED BY <1>6, <1>7, <1>8, <2>1, <3>1
  <2>2. CASE c.col = VCOL_MAX /\ c.row < VROW_MAX
    <3>1. p.top + c.row + 1 <= p.top + VROW_MAX
      BY <1>2, <2>2
    <3> QED BY <1>6, <1>7, <1>8, <2>2, <3>1
  <2>3. CASE c.col = VCOL_MAX /\ c.row = VROW_MAX
    <3>1. p.top + c.row + 1 = p.top + VROWS
      BY <1>2, <2>3
    <3> QED BY <1>6, <1>7, <1>8, <2>3, <3>1
  <2> QED BY <1>2, <2>1, <2>2, <2>3
<1>10. Shows(d, P!MoveTo(q, a))
  BY <1>6, <1>7, <1>8, <1>9, Arrives
<1> QED BY <1>3, <1>10 DEF d, a

\* A newline.
LEMMA NewlineShown ==
  ASSUME NEW c, NEW p, Shows(c, p)
  PROVE  Shows(ShowLine(NextLine(c)), P!Write(p, "NL"))
<1> DEFINE e == NextLine(c)
           d == ShowLine(e)
           b == P!NextMultiple(p.at, VCOLS)
           v == c.vram
<1>1. Sane(c) /\ OnScreen(c) /\ Well(p) /\ ShowsCells(v, p)
  BY DEF Shows
<1>2. c.col \in 0 .. VCOL_MAX /\ c.row \in 0 .. VROW_MAX /\ p.top \in Nat
  BY <1>1 DEF Sane, OnScreen, Well
<1>3. P!Write(p, "NL") = P!MoveTo(p, b)
  BY DEF P!Write
<1>4. /\ Sane(e) /\ e.col = 0 /\ e.row = c.row + 1 /\ e.vram = v
  BY <1>1, <1>2, NextLineMoves DEF Fields
<1>5. /\ b \in Nat
      /\ b \div VCOLS = p.top + c.row + 1
      /\ b = p.top * VCOLS + VPOS(0, c.row + 1)
      /\ c.row = VROW_MAX => b = (p.top + 1) * VCOLS + VPOS(0, VROW_MAX)
  BY NextPlaceOf, Zenon DEF b
<1> HIDE DEF e, b, v
<1>6. /\ e.row <= VROW_MAX => d.col = 0 /\ d.row = e.row /\ d.vram = v
      /\ e.row > VROW_MAX => d.col = 0 /\ d.row = VROW_MAX /\ d.vram = Scrolled(v)
  BY <1>4, ShowLineIs
<1>7. Sane(d) /\ OnScreen(d)
  BY <1>4, ShowLineSane
<1> HIDE DEF d
<1>8. \/ /\ b \div VCOLS <= p.top + VROW_MAX
         /\ d.vram = v /\ b = p.top * VCOLS + VPOS(d.col, d.row)
      \/ /\ b \div VCOLS = p.top + VROWS
         /\ d.vram = Scrolled(v) /\ b = (p.top + 1) * VCOLS + VPOS(d.col, d.row)
  <2>1. CASE c.row < VROW_MAX
    <3>1. p.top + c.row + 1 <= p.top + VROW_MAX /\ e.row <= VROW_MAX
      BY <1>2, <1>4, <2>1
    <3> QED BY <1>4, <1>5, <1>6, <3>1
  <2>2. CASE c.row = VROW_MAX
    <3>1. p.top + c.row + 1 = p.top + VROWS /\ e.row > VROW_MAX
      BY <1>2, <1>4, <2>2
    <3> QED BY <1>5, <1>6, <2>2, <3>1
  <2> QED BY <1>2, <2>1, <2>2
<1>9. Shows(d, P!MoveTo(p, b))
  BY <1>1, <1>5, <1>7, <1>8, Arrives
<1> QED BY <1>3, <1>9 DEF d, e

\* The position one back, but not off the screen.
LeftOf(p) == P!MoveTo(p, P!Larger(p.at - 1, p.top * VCOLS))

LEMMA LeftShown ==
  ASSUME NEW c, NEW p, Shows(c, p)
  PROVE  Shows(console_mvcursor(c, -1), LeftOf(p))
<1> DEFINE d == console_mvcursor(c, -1)
           v == c.vram
           i == VPOS(c.col, c.row)
           j == VPOS(d.col, d.row)
           t == p.top
           b == t * VCOLS
           s == VROWS * VCOLS
           a == P!Larger(p.at - 1, b)
<1>1. Sane(c) /\ OnScreen(c) /\ Well(p) /\ ShowsCells(v, p) /\ p.at = b + i
  BY DEF Shows
<1>2. c.col \in 0 .. VCOL_MAX /\ c.row \in 0 .. VROW_MAX /\ t \in Nat
  BY <1>1 DEF Sane, OnScreen, Well
<1>3. Sane(d) /\ OnScreen(d)
  <2>1. -1 \in Int /\ -1 <= 0
    OBVIOUS
  <2> QED BY <1>1, <2>1, MoveCursorSane
<1>4. d.vram = v /\ j = IF i = 0 THEN 0 ELSE i - 1
  BY <1>1, MoveLeftIs
<1>5. i \in 0 .. s - 1
  BY <1>2, CellOfPlace DEF Cells
<1>6. d.col \in 0 .. VCOL_MAX /\ d.row \in 0 .. VROW_MAX
  BY <1>3 DEF Sane, OnScreen
<1>7. b \in Nat
  BY <1>2, Lines
<1>8. a = b + j
  <2> HIDE DEF b, i, j, s
  <2> QED BY <1>1, <1>4, <1>5, <1>7 DEF P!Larger
<1> HIDE DEF v, i, a, s
<1>9. b + j = (t + d.row) * VCOLS + d.col
  <2> DEFINE y == d.row
             x == d.col
  <2> HIDE DEF t, x, y
  <2>1. t * VCOLS + (y * VCOLS + x) = (t + y) * VCOLS + x
    BY <1>2, <1>6 DEF x, y
  <2> QED BY <2>1 DEF b, j, VPOS, x, y
<1>10. (b + j) \div VCOLS = t + d.row /\ (b + j) \in Nat
  <2> DEFINE n == t + d.row
             x == d.col
             h == b + j
  <2>1. n \in Nat /\ x \in 0 .. VCOL_MAX
    BY <1>2, <1>6
  <2>2. h = n * VCOLS + x
    BY <1>9
  <2> HIDE DEF n, x, h
  <2>3. h \div VCOLS = n /\ h \in Nat
    BY <2>1, <2>2, LineOf
  <2> QED BY <2>3 DEF h, n
<1>11. a \in Nat /\ a \div VCOLS <= t + VROW_MAX
  <2>1. t + d.row <= t + VROW_MAX
    BY <1>2, <1>6
  <2> HIDE DEF b, j
  <2> QED BY <1>8, <1>10, <2>1
<1>12. d.vram = v /\ a = p.top * VCOLS + VPOS(d.col, d.row)
  BY <1>4, <1>8
<1> HIDE DEF b, j, t, d
<1>13. Shows(d, P!MoveTo(p, a))
  BY <1>1, <1>3, <1>11, <1>12, Arrives DEF t
<1> QED BY <1>13 DEF LeftOf, a, b, d, t

\* Whatever leaves the cells and the cursor alone.
LEMMA StillShows ==
  ASSUME NEW c, NEW p, Shows(c, p), NEW d, Sane(d),
         d.col = c.col, d.row = c.row, d.vram = c.vram
  PROVE  Shows(d, p)
BY DEF Shows, OnScreen

LEMMA CursorShown ==
  ASSUME NEW c, NEW p, Shows(c, p)
  PROVE  Shows(console_setcursor(c, -1, -1), p)
<1> DEFINE d == console_setcursor(c, -1, -1)
<1>1. Sane(c) /\ OnScreen(c)
  BY DEF Shows
<1>2. -1 \in Int
  OBVIOUS
<1>3. Sane(d) /\ d.vram = c.vram /\ d.col = c.col /\ d.row = c.row
  BY <1>1, <1>2, SetCursorSane, SetCursorMode DEF OnScreen
<1> HIDE DEF d
<1>4. Shows(d, p)
  BY <1>3, StillShows
<1> QED BY <1>4 DEF d

(***************************************************************************)
(* A tab is as many spaces as it takes to the next tab stop.               *)
(***************************************************************************)
\* How long a page with a character put is.
LEMMA PutLength ==
  ASSUME NEW p, Well(p), NEW q \in Nat, NEW k
  PROVE  Len(P!Put(p, q, k).cells) = P!Larger(Len(p.cells), q + 1)
<1> DEFINE m == P!Larger(Len(p.cells), q + 1)
           f == [i \in 1 .. m |-> IF i = q + 1 THEN k ELSE P!CharAt(p, i - 1)]
           r == P!Put(p, q, k)
<1>1. IsPage(p) /\ Len(p.cells) \in Nat
  BY DEF Well
<1>2. m \in Nat
  BY <1>1 DEF P!Larger
<1>3. r = [p EXCEPT !.cells = f]
  BY DEF P!Put
<1>4. f = [i \in 1 .. m |-> f[i]]
  OBVIOUS
<1> HIDE DEF m, f, r
<1>5. r.cells = f
  BY <1>1, <1>3 DEF IsPage, PageFields
<1>6. Len(f) = m
  BY <1>2, <1>4, LenOfFunction
<1> QED BY <1>5, <1>6 DEF m, r

LEMMA SamePage ==
  ASSUME NEW p, NEW r, IsPage(p), IsPage(r),
         p.cells = r.cells, p.at = r.at, p.top = r.top
  PROVE  p = r
<1>1. \A f \in PageFields : p[f] = r[f]
  BY DEF PageFields
<1> QED BY <1>1 DEF IsPage

\* The stop after a position.
LEMMA TabStop ==
  ASSUME NEW a \in Nat
  PROVE  LET s == P!NextMultiple(a, TAB_WIDTH)
             m == TAB_WIDTH - (a % TAB_WIDTH)
         IN  /\ m \in 1 .. TAB_WIDTH /\ s = a + m
             /\ m > 1 => /\ TAB_WIDTH - ((a + 1) % TAB_WIDTH) = m - 1
                         /\ P!NextMultiple(a + 1, TAB_WIDTH) = s
BY DEF P!NextMultiple, TAB_WIDTH

LEMMA DivideMonotonic ==
  ASSUME NEW a \in Nat, NEW b \in Nat, a <= b
  PROVE  a \div VCOLS <= b \div VCOLS
<1> DEFINE m == a \div VCOLS
           n == b \div VCOLS
           x == a % VCOLS
           z == b % VCOLS
<1>1. /\ m \in Nat /\ x \in 0 .. VCOL_MAX /\ a = VCOLS * m + x
      /\ n \in Nat /\ z \in 0 .. VCOL_MAX /\ b = VCOLS * n + z
  OBVIOUS
<1> HIDE DEF m, n, x, z
<1>2. ~(m >= n + 1)
  <2> SUFFICES ASSUME m >= n + 1 PROVE FALSE
    OBVIOUS
  <2>1. m * VCOLS >= (n + 1) * VCOLS /\ (n + 1) * VCOLS = n * VCOLS + VCOLS
    BY <1>1
  <2> QED BY <1>1, <2>1
<1> QED BY <1>1, <1>2 DEF m, n

\* The fields of a page whose position was moved.
LEMMA MovedPage ==
  ASSUME NEW p, IsPage(p), NEW q
  PROVE  LET r == P!MoveTo(p, q)
         IN  /\ IsPage(r) /\ r.cells = p.cells /\ r.at = q
             /\ r.top = P!Larger(p.top, q \div VCOLS - VROW_MAX)
BY DEF P!MoveTo, IsPage, PageFields

LEMMA TabIsSpaces ==
  ASSUME NEW p, Well(p)
  PROVE  LET m == TAB_WIDTH - (p.at % TAB_WIDTH)
             q == P!Write(p, SPACE)
         IN  /\ m = 1 => P!Write(p, "TAB") = q
             /\ m > 1 => P!Write(p, "TAB") = P!Write(q, "TAB")
<1> DEFINE a == p.at
           l == Len(p.cells)
           m == TAB_WIDTH - (a % TAB_WIDTH)
           s == P!NextMultiple(a, TAB_WIDTH)
           f == P!Put(p, a, SPACE)
           q == P!MoveTo(f, a + 1)
           g == P!Blanks(p, s - a)
           r == P!MoveTo(g, s)
<1>1. l \in Nat /\ a \in Nat /\ p.top \in Nat
  BY DEF Well
<1>2. /\ m \in 1 .. TAB_WIDTH /\ s = a + m
      /\ m > 1 => /\ TAB_WIDTH - ((a + 1) % TAB_WIDTH) = m - 1
                  /\ P!NextMultiple(a + 1, TAB_WIDTH) = s
  <2> HIDE DEF a
  <2> QED BY <1>1, TabStop
<1>3. r = P!Write(p, "TAB")
  BY DEF P!Write
<1>4. SPACE # "NL" /\ SPACE # "TAB"
  BY Zenon DEF SPACE
<1>5. q = P!Write(p, SPACE)
  BY <1>4 DEF P!Write
<1> HIDE DEF a, l, m, s, f, q, g, r
<1>6. m \in Nat /\ m >= 1 /\ s = a + m /\ s - a = m /\ a + 1 \in Nat /\ s \in Nat
  BY <1>1, <1>2 DEF TAB_WIDTH
<1>7. /\ Well(f) /\ f.at = a /\ f.top = p.top
      /\ \A i \in Nat : P!CharAt(f, i) = IF i = a THEN SPACE ELSE P!CharAt(p, i)
  BY <1>1, PutIs DEF f, a
<1>8. Len(f.cells) = P!Larger(l, a + 1)
  BY <1>1, PutLength DEF f, l
<1>9. /\ Well(g) /\ g.top = p.top
      /\ g.cells = [i \in 1 .. P!Larger(l, a + m) |->
                      IF i > a /\ i <= a + m THEN P!SPACE ELSE P!CharAt(p, i - 1)]
  BY <1>6, BlanksIs DEF g, a, l
<1>10. /\ IsPage(q) /\ q.cells = f.cells /\ q.at = a + 1
       /\ q.top = P!Larger(p.top, (a + 1) \div VCOLS - VROW_MAX)
  BY <1>7, MovedPage DEF q, Well
<1>11. /\ IsPage(r) /\ r.cells = g.cells /\ r.at = s
       /\ r.top = P!Larger(p.top, s \div VCOLS - VROW_MAX)
  BY <1>9, MovedPage DEF r, Well
<1>12. ASSUME m = 1 PROVE r = q
  <2>1. f.cells = [i \in 1 .. P!Larger(l, a + 1) |->
                     IF i = a + 1 THEN SPACE ELSE P!CharAt(p, i - 1)]
    <3>1. IsPage(p)
      BY DEF Well
    <3> QED BY <3>1 DEF f, l, P!Put, IsPage, PageFields
  <2>2. \A i \in Int : i > a /\ i <= a + 1 <=> i = a + 1
    BY <1>1
  <2>3. r.cells = q.cells
    BY <1>1, <1>9, <1>10, <1>11, <1>12, <2>1, <2>2, SameSpace
  <2> QED BY <1>6, <1>10, <1>11, <1>12, <2>3, SamePage
<1>13. ASSUME m > 1 PROVE r = P!Write(q, "TAB")
  <2> DEFINE h == P!Blanks(q, m - 1)
             u == P!MoveTo(h, s)
  <2>1. u = P!Write(q, "TAB")
    <3>1. P!NextMultiple(q.at, TAB_WIDTH) = s /\ s - q.at = m - 1
      BY <1>1, <1>2, <1>6, <1>10, <1>13
    <3> QED BY <3>1 DEF P!Write
  <2>2. Well(q)
    <3>1. (a + 1) \div VCOLS \in Int
      BY <1>1
    <3>2. q.top \in Nat
      BY <1>1, <1>10, <3>1 DEF P!Larger
    <3> QED BY <1>1, <1>7, <1>10, <3>2 DEF Well
  <2>3. m - 1 \in Nat /\ (a + 1) + (m - 1) = a + m
    BY <1>1, <1>6
  <2>4. /\ Well(h) /\ h.top = q.top
        /\ h.cells = [i \in 1 .. P!Larger(Len(q.cells), q.at + (m - 1)) |->
                        IF i > q.at /\ i <= q.at + (m - 1)
                        THEN P!SPACE ELSE P!CharAt(q, i - 1)]
    <3> DEFINE n == m - 1
    <3> HIDE DEF n
    <3> QED BY <2>2, <2>3, BlanksIs DEF h, n
  <2>5. /\ IsPage(u) /\ u.cells = h.cells /\ u.at = s
        /\ u.top = P!Larger(q.top, s \div VCOLS - VROW_MAX)
    BY <2>4, MovedPage DEF Well
  <2> HIDE DEF h, u
  <2>6. P!Larger(Len(q.cells), q.at + (m - 1)) = P!Larger(l, a + m)
    <3>1. P!Larger(P!Larger(l, a + 1), a + m) = P!Larger(l, a + m)
      BY <1>1, <1>6 DEF P!Larger
    <3> QED BY <1>8, <1>10, <2>3, <3>1
  <2>7. ASSUME NEW i \in 1 .. P!Larger(l, a + m)
        PROVE  (IF i > q.at /\ i <= q.at + (m - 1) THEN P!SPACE ELSE P!CharAt(q, i - 1))
                 = (IF i > a /\ i <= a + m THEN P!SPACE ELSE P!CharAt(p, i - 1))
    <3>1. i \in Int /\ i >= 1 /\ i - 1 \in Nat
      BY <1>1, <1>6 DEF P!Larger
    <3>2. P!CharAt(q, i - 1) = P!CharAt(f, i - 1)
      BY <1>10 DEF P!CharAt
    <3>3. P!CharAt(f, i - 1) = IF i - 1 = a THEN SPACE ELSE P!CharAt(p, i - 1)
      BY <1>7, <3>1
    <3>4. q.at = a + 1 /\ q.at + (m - 1) = a + m
      BY <1>10, <2>3
    <3>5. CASE i = a + 1
      <4>1. i - 1 = a /\ i > a /\ i <= a + m /\ ~(i > q.at)
        BY <1>1, <1>6, <3>4, <3>5
      <4> QED BY <3>2, <3>3, <4>1, SameSpace
    <3>6. CASE i # a + 1
      <4>1. i - 1 # a /\ (i > q.at <=> i > a)
        BY <1>1, <3>1, <3>4, <3>6
      <4> QED BY <3>2, <3>3, <3>4, <4>1
    <3> QED BY <3>5, <3>6
  <2>8. u.cells = r.cells
    <3> DEFINE X == 1 .. P!Larger(l, a + m)
               F(i) == IF i > q.at /\ i <= q.at + (m - 1)
                       THEN P!SPACE ELSE P!CharAt(q, i - 1)
               G(i) == IF i > a /\ i <= a + m THEN P!SPACE ELSE P!CharAt(p, i - 1)
    <3>1. u.cells = [i \in X |-> F(i)]
      BY <2>4, <2>5, <2>6
    <3>2. r.cells = [i \in X |-> G(i)]
      BY <1>9, <1>11
    <3>3. \A i \in X : F(i) = G(i)
      BY <2>7
    <3> HIDE DEF X, F, G
    <3> QED BY <3>1, <3>2, <3>3
  <2>9. u.top = r.top
    <3> DEFINE x == (a + 1) \div VCOLS
               y == s \div VCOLS
    <3>1. x \in Int /\ y \in Int
      BY <1>6
    <3>2. x <= y
      <4>1. a + 1 <= s
        BY <1>1, <1>6
      <4> QED BY <1>6, <4>1, DivideMonotonic
    <3> HIDE DEF x, y
    <3>3. P!Larger(P!Larger(p.top, x - VROW_MAX), y - VROW_MAX)
            = P!Larger(p.top, y - VROW_MAX)
      BY <1>1, <3>1, <3>2 DEF P!Larger
    <3> QED BY <1>10, <1>11, <2>5, <3>3 DEF x, y
  <2>10. u = r
    BY <1>11, <2>5, <2>8, <2>9, SamePage
  <2> QED BY <2>1, <2>10
<1> QED BY <1>3, <1>5, <1>12, <1>13 DEF m, a

\* A space on the way to a tab stop, on the screen and on the page: the stops
\* of a line are those of the page, as no line splits a tab.
LEMMA TabCountIs ==
  ASSUME NEW c, c.col \in Nat
  PROVE  TabCount(c) = TAB_WIDTH - (c.col % TAB_WIDTH)
<1> DEFINE x == c.col
<1>1. x \in Nat
  OBVIOUS
<1> HIDE DEF x
<1>2. ~(x < 0)
  BY <1>1
<1> QED BY <1>2 DEF TabCount, x

LEMMA TabGoesOn ==
  ASSUME NEW c, NEW p, Shows(c, p)
  PROVE  LET d == WritePrintable(c, SPACE)
             q == P!Write(p, SPACE)
         IN  /\ TabCount(c) \in 1 .. TAB_WIDTH
             /\ TabCount(c) = 1 => P!Write(p, "TAB") = q
             /\ TabCount(c) > 1 => /\ P!Write(p, "TAB") = P!Write(q, "TAB")
                                   /\ d.col # 0 /\ TabCount(d) = TabCount(c) - 1
<1> DEFINE d == WritePrintable(c, SPACE)
           a == p.at
           x == c.col
           n == p.top + c.row
<1>1. Sane(c) /\ OnScreen(c) /\ Well(p) /\ a = p.top * VCOLS + VPOS(x, c.row)
  BY DEF Shows
<1>2. x \in 0 .. VCOL_MAX /\ c.row \in 0 .. VROW_MAX /\ p.top \in Nat
  BY <1>1 DEF Sane, OnScreen, Well
<1>3. x < VCOL_MAX => d.col = x + 1
  BY <1>1, WritePrintableIs
<1>4. a = n * VCOLS + x /\ n \in Nat
  <2> DEFINE t == p.top
             y == c.row
  <2>1. t \in Nat /\ y \in Nat /\ x \in Nat
    BY <1>2
  <2>2. a = t * VCOLS + (y * VCOLS + x)
    BY <1>1 DEF VPOS
  <2> HIDE DEF a, x, t, y
  <2>3. a = (t + y) * VCOLS + x /\ t + y \in Nat
    BY <2>1, <2>2
  <2> QED BY <2>3 DEF t, y
<1> HIDE DEF a, x, n, d
<1>5. /\ a % TAB_WIDTH = x % TAB_WIDTH
      /\ TAB_WIDTH - (x % TAB_WIDTH) > 1 => x < VCOL_MAX
  <2>1. PICK w \in Nat : VCOLS = TAB_WIDTH * w
    <3> DEFINE w == VCOLS \div TAB_WIDTH
    <3>1. VCOLS = TAB_WIDTH * w /\ w \in Nat
      BY TabAssumption DEF TAB_WIDTH
    <3> QED BY <3>1
  <2>2. PICK z \in Nat : n * VCOLS = TAB_WIDTH * z
    <3>1. n * VCOLS = TAB_WIDTH * (n * w) /\ n * w \in Nat
      BY <1>4, <2>1 DEF TAB_WIDTH
    <3> QED BY <3>1
  <2>3. a = TAB_WIDTH * z + x
    BY <1>4, <2>2
  <2> QED BY <1>2, <2>1, <2>3 DEF TAB_WIDTH
<1>6. /\ TabCount(c) = TAB_WIDTH - (a % TAB_WIDTH)
      /\ TabCount(c) = TAB_WIDTH - (x % TAB_WIDTH)
  <2>1. x \in Nat
    BY <1>2
  <2>2. TabCount(c) = TAB_WIDTH - (x % TAB_WIDTH)
    BY <2>1, TabCountIs DEF x
  <2> QED BY <1>5, <2>2
<1>7. TabCount(c) \in 1 .. TAB_WIDTH
  BY <1>2, <1>6 DEF TAB_WIDTH
<1>8. TabCount(c) > 1 => d.col # 0 /\ TabCount(d) = TabCount(c) - 1
  <2> SUFFICES ASSUME TabCount(c) > 1 PROVE d.col # 0 /\ TabCount(d) = TabCount(c) - 1
    OBVIOUS
  <2>1. d.col = x + 1
    BY <1>3, <1>5, <1>6
  <2>2. TabCount(d) = TAB_WIDTH - ((x + 1) % TAB_WIDTH)
    <3>1. x + 1 \in Nat
      BY <1>2
    <3>2. TabCount(d) = TAB_WIDTH - (d.col % TAB_WIDTH)
      BY <2>1, <3>1, TabCountIs
    <3> QED BY <2>1, <3>2
  <2> QED BY <1>2, <1>6, <2>1, <2>2 DEF TAB_WIDTH
<1>9. /\ TabCount(c) = 1 => P!Write(p, "TAB") = P!Write(p, SPACE)
      /\ TabCount(c) > 1 => P!Write(p, "TAB") = P!Write(P!Write(p, SPACE), "TAB")
  BY <1>1, <1>6, TabIsSpaces DEF a
<1> QED BY <1>7, <1>8, <1>9 DEF d

(***************************************************************************)
(* What main has still to do leads from the page shown to the page         *)
(* written.                                                                *)
(***************************************************************************)
\* What one thing that main does makes of the page.
Turned(p, k) ==
  IF k = "SHOW" THEN p ELSE IF k = "LEFT" THEN LeftOf(p) ELSE P!Write(p, k)

Leads(p, s, q) ==
  \E g : /\ g[0] = p /\ g[Len(s)] = q
         /\ \A n \in 1 .. Len(s) : g[n] = Turned(g[n - 1], s[n])

LEMMA LeadsNowhere ==
  ASSUME NEW p, NEW s, Len(s) = 0
  PROVE  \A q : Leads(p, s, q) <=> p = q
<1>1. ASSUME NEW q, Leads(p, s, q) PROVE p = q
  BY <1>1 DEF Leads
<1>2. Leads(p, s, p)
  <2> DEFINE g == [n \in {0} |-> p]
  <2>1. g[0] = p /\ \A n \in 1 .. 0 : g[n] = Turned(g[n - 1], s[n])
    OBVIOUS
  <2> HIDE DEF g
  <2> QED BY <2>1 DEF Leads
<1> QED BY <1>1, <1>2

LEMMA LeadsOn ==
  ASSUME NEW S, NEW s \in Seq(S), s # <<>>, NEW p, NEW q, Leads(p, s, q)
  PROVE  Leads(Turned(p, Head(s)), Tail(s), q)
<1> DEFINE l == Len(s)
           t == Tail(s)
           r == Turned(p, Head(s))
<1>1. PICK g : /\ g[0] = p /\ g[l] = q
               /\ \A n \in 1 .. l : g[n] = Turned(g[n - 1], s[n])
  BY DEF Leads
<1>2. /\ l \in Nat /\ l >= 1 /\ Head(s) = s[1] /\ Len(t) = l - 1
      /\ \A n \in 1 .. l - 1 : t[n] = s[n + 1]
  BY Chopped
<1> DEFINE h == [n \in 0 .. l - 1 |-> g[n + 1]]
<1> HIDE DEF l, t, r
<1>3. \A n \in 0 .. l - 1 : h[n] = g[n + 1]
  OBVIOUS
<1> HIDE DEF h
<1>4. h[0] = r
  <2>1. 0 \in 0 .. l - 1 /\ 0 + 1 = 1 /\ 1 \in 1 .. l /\ 1 - 1 = 0
    BY <1>2
  <2>2. h[0] = g[1]
    BY <1>3, <2>1
  <2>3. g[1] = Turned(g[0], s[1])
    BY <1>1, <2>1
  <2> QED BY <1>1, <1>2, <2>2, <2>3 DEF r
<1>5. h[Len(t)] = q
  <2>1. l - 1 \in 0 .. l - 1 /\ (l - 1) + 1 = l
    BY <1>2
  <2>2. h[l - 1] = g[l]
    BY <1>3, <2>1
  <2> QED BY <1>1, <1>2, <2>2
<1>6. ASSUME NEW n \in 1 .. Len(t)
      PROVE  h[n] = Turned(h[n - 1], t[n])
  <2>1. /\ n \in 0 .. l - 1 /\ n - 1 \in 0 .. l - 1 /\ (n - 1) + 1 = n
        /\ n + 1 \in 1 .. l /\ (n + 1) - 1 = n /\ n \in 1 .. l - 1
    BY <1>2
  <2>2. h[n] = g[n + 1] /\ h[n - 1] = g[n] /\ t[n] = s[n + 1]
    BY <1>2, <1>3, <2>1
  <2>3. g[n + 1] = Turned(g[n], s[n + 1])
    BY <1>1, <2>1
  <2> QED BY <2>2, <2>3
<1> QED BY <1>4, <1>5, <1>6 DEF Leads, r, t

\* Two and three things to do.
LEMMA LeadsTwo ==
  ASSUME NEW p, NEW j, NEW k
  PROVE  Leads(p, <<j, k>>, Turned(Turned(p, j), k))
<1> DEFINE s == <<j, k>>
           g == [n \in 0 .. 2 |-> IF n = 0 THEN p ELSE IF n = 1 THEN Turned(p, j)
                                  ELSE Turned(Turned(p, j), k)]
<1>1. Len(s) = 2 /\ s[1] = j /\ s[2] = k
  OBVIOUS
<1>2. g[0] = p /\ g[1] = Turned(g[0], j) /\ g[2] = Turned(g[1], k)
  OBVIOUS
<1>3. g[2] = Turned(Turned(p, j), k)
  OBVIOUS
<1> HIDE DEF s, g
<1>4. \A n \in 1 .. Len(s) : g[n] = Turned(g[n - 1], s[n])
  BY <1>1, <1>2
<1> QED BY <1>1, <1>2, <1>3, <1>4 DEF Leads, s

LEMMA LeadsThree ==
  ASSUME NEW p, NEW i, NEW j, NEW k
  PROVE  Leads(p, <<i, j, k>>, Turned(Turned(Turned(p, i), j), k))
<1> DEFINE s == <<i, j, k>>
           g == [n \in 0 .. 3 |-> IF n = 0 THEN p ELSE IF n = 1 THEN Turned(p, i)
                                  ELSE IF n = 2 THEN Turned(Turned(p, i), j)
                                  ELSE Turned(Turned(Turned(p, i), j), k)]
<1>1. Len(s) = 3 /\ s[1] = i /\ s[2] = j /\ s[3] = k
  OBVIOUS
<1>2. g[0] = p /\ g[1] = Turned(g[0], i) /\ g[2] = Turned(g[1], j) /\ g[3] = Turned(g[2], k)
  OBVIOUS
<1>3. g[3] = Turned(Turned(Turned(p, i), j), k)
  OBVIOUS
<1> HIDE DEF s, g
<1>4. \A n \in 1 .. Len(s) : g[n] = Turned(g[n - 1], s[n])
  BY <1>1, <1>2
<1> QED BY <1>1, <1>2, <1>3, <1>4 DEF Leads, s

\* What the recursive function of WriteAll is.
Written(f, p, s, n) ==
  IF n = 0 THEN p ELSE LET q == f[n - 1] IN P!Write(q, s[n])
IsWriting(f, p, s, N) == f = [n \in 0 .. N |-> Written(f, p, s, n)]

LEMMA WritingExists ==
  ASSUME NEW p, NEW s
  PROVE  \A N \in Nat : \E f : IsWriting(f, p, s, N)
<1> DEFINE T == {N \in Nat : \E f : IsWriting(f, p, s, N)}
<1>1. 0 \in T
  <2> DEFINE f == [i \in 0 .. 0 |-> p]
  <2>1. f = [i \in 0 .. 0 |-> Written(f, p, s, i)]
    BY DEF Written
  <2> QED BY <2>1 DEF IsWriting
<1>2. ASSUME NEW N \in Nat, N \in T
      PROVE  N + 1 \in T
  <2>1. PICK f : IsWriting(f, p, s, N)
    BY <1>2
  <2> DEFINE g == [i \in 0 .. N + 1 |-> IF i <= N THEN f[i] ELSE Written(f, p, s, i)]
  <2>2. \A i \in 0 .. N : g[i] = f[i]
    OBVIOUS
  <2>3. \A i \in 0 .. N + 1 : g[i] = Written(f, p, s, i)
    BY <2>1 DEF IsWriting
  <2>4. \A i \in 0 .. N + 1 : i # 0 => i - 1 \in 0 .. N
    OBVIOUS
  <2>5. \A i \in 0 .. N + 1 : Written(g, p, s, i) = Written(f, p, s, i)
    <3> HIDE DEF g
    <3> QED BY <2>2, <2>4 DEF Written
  <2>6. g = [i \in 0 .. N + 1 |-> Written(g, p, s, i)]
    <3>1. g = [i \in 0 .. N + 1 |-> g[i]]
      OBVIOUS
    <3> HIDE DEF g
    <3>2. \A i \in 0 .. N + 1 : g[i] = Written(g, p, s, i)
      BY <2>3, <2>5
    <3> QED BY <3>1, <3>2
  <2>7. IsWriting(g, p, s, N + 1)
    BY <2>6 DEF IsWriting
  <2> HIDE DEF g
  <2> QED BY <2>7
<1> HIDE DEF T
<1>3. \A N \in Nat : N \in T
  BY <1>1, <1>2, Induction
<1> QED BY <1>3 DEF T

\* Text is written character by character.
LEMMA LeadsAll ==
  ASSUME NEW p, NEW s, Len(s) \in Nat, \A n \in 1 .. Len(s) : s[n] \notin {"SHOW", "LEFT"}
  PROVE  Leads(p, s, P!WriteAll(p, s))
<1> DEFINE l == Len(s)
           w == CHOOSE f : IsWriting(f, p, s, l)
<1>1. IsWriting(w, p, s, l)
  BY WritingExists
<1>2. P!WriteAll(p, s) = w[l]
  BY DEF P!WriteAll, IsWriting, Written
<1> HIDE DEF w
<1>3. w[0] = p
  BY <1>1 DEF IsWriting, Written
<1>4. \A n \in 1 .. l : w[n] = P!Write(w[n - 1], s[n])
  BY <1>1 DEF IsWriting, Written
<1>5. \A n \in 1 .. l : w[n] = Turned(w[n - 1], s[n])
  BY <1>4 DEF Turned
<1> QED BY <1>2, <1>3, <1>5 DEF Leads

\* A backspace of console_read is a move, a space and a move.
LEMMA BackspaceIs ==
  ASSUME NEW c, NEW p, Shows(c, p)
  PROVE  P!Backspace(p) = LeftOf(P!Write(LeftOf(p), SPACE))
<1> DEFINE a == p.at
           t == p.top
           h == t * VCOLS
           b == P!Larger(a - 1, h)
           f == P!Put(p, b, SPACE)
           l == P!MoveTo(p, b)
           g == P!Put(l, b, SPACE)
           w == P!MoveTo(g, b + 1)
           r == P!MoveTo(w, b)
           u == P!MoveTo(f, b)
<1>1. /\ Well(p) /\ IsPage(p) /\ t \in Nat /\ a \in Nat /\ a >= h
      /\ c.row \in 0 .. VROW_MAX
  <2>1. Sane(c) /\ OnScreen(c) /\ Well(p) /\ a = h + VPOS(c.col, c.row)
    BY DEF Shows
  <2>2. c.col \in 0 .. VCOL_MAX /\ c.row \in 0 .. VROW_MAX
    BY <2>1 DEF Sane, OnScreen
  <2>3. VPOS(c.col, c.row) \in Nat
    BY <2>2, CellOfPlace DEF Cells
  <2>4. t \in Nat
    BY <2>1 DEF Well
  <2>5. h \in Nat
    BY <2>4, Lines
  <2> HIDE DEF h
  <2>6. a >= h
    BY <2>1, <2>3, <2>5
  <2> QED BY <2>1, <2>2, <2>6 DEF Well
<1>2. a \div VCOLS = t + c.row
  BY NextPlaceOf, Zenon
<1>3. h \in Nat /\ (h + 1) \div VCOLS = t /\ h + 1 \in Nat
  <2>1. 1 \in 0 .. VCOL_MAX
    BY ScreenAssumption
  <2> HIDE DEF t
  <2>2. (t * VCOLS + 1) \div VCOLS = t /\ t * VCOLS + 1 \in Nat
    BY <1>1, <2>1, LineOf
  <2>3. t * VCOLS \in Nat
    BY <1>1, Lines
  <2> QED BY <2>2, <2>3
<1>4. u = P!Backspace(p)
  BY SameSpace DEF P!Backspace
<1>5. l = LeftOf(p)
  BY DEF LeftOf
<1> HIDE DEF a, t, h
<1>6. /\ b \in Nat /\ b <= a /\ b + 1 \in Nat
      /\ b + 1 <= a \/ b + 1 = h + 1
      /\ P!Larger(b, h) = b
  BY <1>1, <1>3 DEF P!Larger
<1> HIDE DEF b
<1>7. b \div VCOLS <= t + VROW_MAX /\ (b + 1) \div VCOLS <= t + VROW_MAX
  <2> DEFINE x == a \div VCOLS
             y == b \div VCOLS
             z == (b + 1) \div VCOLS
  <2>1. x \in Int /\ y \in Int /\ z \in Int
    BY <1>1, <1>6
  <2>2. y <= x
    BY <1>1, <1>6, DivideMonotonic
  <2>3. z <= x \/ z = t
    <3>1. CASE b + 1 <= a
      <4> DEFINE e == b + 1
      <4>1. e \in Nat /\ e <= a
        BY <1>6, <3>1
      <4> HIDE DEF e
      <4>2. e \div VCOLS <= a \div VCOLS
        BY <1>1, <4>1, DivideMonotonic
      <4> QED BY <4>2 DEF e
    <3>2. CASE b + 1 = h + 1
      BY <1>3, <3>2
    <3> QED BY <1>6, <3>1, <3>2
  <2>4. x = t + c.row
    BY <1>2
  <2> HIDE DEF x, y, z
  <2>5. y <= t + VROW_MAX /\ z <= t + VROW_MAX
    BY <1>1, <2>1, <2>2, <2>3, <2>4
  <2> QED BY <2>5 DEF y, z
<1> HIDE DEF f, l, g, w, r, u
<1>8. Well(f) /\ IsPage(f) /\ f.top = t
  BY <1>1, <1>6, PutIs DEF f, t, Well
<1>9. Well(l) /\ l.at = b /\ l.cells = p.cells /\ l.top = t
  BY <1>1, <1>6, <1>7, MoveToIs DEF l, t
<1>10. Well(g) /\ IsPage(g) /\ g.top = t
  BY <1>6, <1>9, PutIs DEF g, Well
<1>11. g.cells = f.cells
  <2> DEFINE X == 1 .. P!Larger(Len(p.cells), b + 1)
             F == [i \in X |-> IF i = b + 1 THEN SPACE ELSE P!CharAt(p, i - 1)]
  <2>1. f.cells = F
    BY <1>1 DEF f, P!Put, IsPage, PageFields
  <2>2. g.cells = [i \in X |-> IF i = b + 1 THEN SPACE ELSE P!CharAt(l, i - 1)]
    <3>1. IsPage(l)
      BY <1>9 DEF Well
    <3> QED BY <1>9, <3>1 DEF g, P!Put, IsPage, PageFields
  <2>3. \A i \in X : P!CharAt(l, i - 1) = P!CharAt(p, i - 1)
    BY <1>9 DEF P!CharAt
  <2> HIDE DEF X
  <2> QED BY <2>1, <2>2, <2>3
<1>12. Well(w) /\ w.at = b + 1 /\ w.cells = f.cells /\ w.top = t
  <2> DEFINE e == b + 1
  <2>1. e \in Nat /\ e \div VCOLS <= t + VROW_MAX
    BY <1>6, <1>7
  <2>2. w = P!MoveTo(g, e)
    BY DEF w
  <2> HIDE DEF e
  <2>3. Well(w) /\ w.at = e /\ w.cells = g.cells /\ w.top = t
    BY <1>10, <2>1, <2>2, MoveToIs
  <2> QED BY <1>11, <2>3 DEF e
<1>13. Well(r) /\ r.at = b /\ r.cells = f.cells /\ r.top = t
  BY <1>6, <1>7, <1>12, MoveToIs DEF r
<1>14. Well(u) /\ u.at = b /\ u.cells = f.cells /\ u.top = t
  BY <1>6, <1>7, <1>8, MoveToIs DEF u
<1>15. r = u
  BY <1>13, <1>14, SamePage DEF Well
<1>16. w = P!Write(l, SPACE)
  <2>1. SPACE # "NL" /\ SPACE # "TAB"
    BY Zenon DEF SPACE
  <2> QED BY <1>9, <2>1 DEF P!Write, g, w
<1>17. r = LeftOf(w)
  <2>1. P!Larger(w.at - 1, w.top * VCOLS) = b
    <3>1. w.at - 1 = b /\ w.top * VCOLS = h
      BY <1>6, <1>12 DEF h
    <3> QED BY <1>6, <3>1
  <2> QED BY <2>1 DEF LeftOf, r
<1> QED BY <1>4, <1>5, <1>15, <1>16, <1>17

LEMMA ShownIs ==
  ASSUME NEW c, NEW p, Shows(c, p)
  PROVE  /\ [i \in Cells |-> c.vram[i].ch] = P!Shown(p)
         /\ VPOS(c.col, c.row) = P!Offset(p)
<1>1. \A i \in Cells : c.vram[i].ch = P!CharAt(p, p.top * VCOLS + i)
  BY DEF Shows, ShowsCells
<1>2. P!Shown(p) = [i \in Cells |-> P!CharAt(p, p.top * VCOLS + i)]
  BY DEF P!Shown, Cells
<1>3. VPOS(c.col, c.row) = P!Offset(p)
  <2> DEFINE h == p.top * VCOLS
             v == VPOS(c.col, c.row)
  <2>1. p.at = h + v /\ Sane(c) /\ OnScreen(c) /\ p.top \in Nat
    BY DEF Shows, Well
  <2>2. v \in Nat
    <3>1. c.col \in 0 .. VCOL_MAX /\ c.row \in 0 .. VROW_MAX
      BY <2>1 DEF Sane, OnScreen
    <3> QED BY <3>1, CellOfPlace DEF Cells
  <2>3. h \in Nat
    BY <2>1, Lines
  <2>4. P!Offset(p) = p.at - h
    BY DEF P!Offset
  <2> HIDE DEF h, v
  <2>5. P!Offset(p) = v
    BY <2>1, <2>2, <2>3, <2>4
  <2> QED BY <2>5 DEF v
<1> QED BY <1>1, <1>2, <1>3

LEMMA EmptyShown ==
  ASSUME Sane(Console0)
  PROVE  Shows(Console0, P!EmptyPage)
<1> DEFINE p == P!EmptyPage
<1>1. p.cells = <<>> /\ p.at = 0 /\ p.top = 0 /\ IsPage(p)
  BY DEF P!EmptyPage, IsPage, PageFields
<1>2. Console0.col = 0 /\ Console0.row = 0 /\ Console0.vram = [i \in Cells |-> Blank]
  BY DEF Console0
<1>3. Len(<<>>) = 0
  BY EmptySeq
<1> HIDE DEF p
<1>4. Well(p) /\ \A i \in Nat : P!CharAt(p, i) = SPACE
  <2>1. \A i \in Nat : ~(i < 0)
    OBVIOUS
  <2> QED BY <1>1, <1>3, <2>1, SameSpace DEF Well, P!CharAt
<1>5. p.top * VCOLS = 0
  BY <1>1
<1>6. \A i \in Cells : p.top * VCOLS + i \in Nat /\ Console0.vram[i].ch = SPACE
  BY <1>2, <1>5 DEF Cells, Blank
<1>7. p.at = p.top * VCOLS + VPOS(Console0.col, Console0.row)
  BY <1>1, <1>2, <1>5 DEF VPOS
<1>8. OnScreen(Console0)
  BY <1>2 DEF OnScreen
<1> QED BY <1>4, <1>6, <1>7, <1>8 DEF Shows, ShowsCells, p

(***************************************************************************)
(* Colors do not conceal.                                                  *)
(***************************************************************************)
LEMMA GraphicReveals ==
  ASSUME NEW a \in Attrs, ~a.conceal, NEW n, n # 8
  PROVE  ~SetGraphics(a, n).conceal
<1>1. SetGraphics(a, n).conceal \in {FALSE, a.conceal}
  BY DEF SetGraphics, Attrs, PlainAttr
<1> QED BY <1>1

LEMMA GraphicsReveal ==
  ASSUME NEW a \in Attrs, ~a.conceal, NEW b, NEW pos \in Nat, \A i \in 0 .. pos : b[i] # 8
  PROVE  ~Graphics(a, b, pos).conceal
<1>1. PICK f : IsPainting(f, a, b, pos + 1) /\ Graphics(a, b, pos) = f[pos + 1]
  BY GraphicsPaints
<1> DEFINE T == {n \in Nat : n <= pos + 1 => f[n] \in Attrs /\ ~f[n].conceal}
<1>2. 0 \in T
  BY <1>1 DEF IsPainting, Painted
<1>3. ASSUME NEW n \in Nat, n \in T PROVE n + 1 \in T
  <2> SUFFICES ASSUME n + 1 <= pos + 1
               PROVE  f[n + 1] \in Attrs /\ ~f[n + 1].conceal
    OBVIOUS
  <2>1. /\ n + 1 \in 0 .. pos + 1 /\ n + 1 # 0 /\ (n + 1) - 1 = n
        /\ f[n] \in Attrs /\ ~f[n].conceal /\ n \in 0 .. pos
    BY <1>3
  <2>2. f[n + 1] = SetGraphics(f[n], b[n])
    BY <1>1, <2>1 DEF IsPainting, Painted
  <2>3. b[n] # 8
    BY <2>1
  <2> DEFINE x == f[n]
             k == b[n]
  <2> HIDE DEF x, k
  <2>4. x \in Attrs /\ ~x.conceal /\ k # 8
    BY <2>1, <2>3 DEF x, k
  <2>5. SetGraphics(x, k) \in Attrs /\ ~SetGraphics(x, k).conceal
    BY <2>4, GraphicsKeeps, GraphicReveals
  <2> QED BY <2>2, <2>5 DEF x, k
<1> HIDE DEF T
<1>4. pos + 1 \in T
  BY <1>2, <1>3, Induction
<1> QED BY <1>1, <1>4 DEF T
-----------------------------------------------------------------------------
(***************************************************************************)
(* The screen is a window on the page.                                     *)
(***************************************************************************)
\* Text and moves of the cursor still to be done.
TextItems(s) == s \in Seq(Symbols) /\ \A n \in 1 .. Len(s) : s[n] \notin {"ESC", "BS"}

EndLine(c) == IF LineEnds(c) THEN ShowLine(NextLine(c)) ELSE c

\* The console once the character main is writing is finished, from each step.
Finished(c, step, k) ==
  CASE step = "put" -> WritePrintable(c, k)
    [] step = "advance" -> EndLine(NextCol(c))
    [] step = "wrap" -> EndLine(c)
    [] step = "newline" -> ShowLine(NextLine(c))
    [] step \in {"newline_fit", "wrap_fit"} -> ShowLine(c)
    [] OTHER -> c

\* Console d shows a page that the rest of a tab of l spaces, this one
\* included, and then s lead to page q.
Displays(d, l, s, q) ==
  \E p : /\ Shows(d, p)
         /\ l > 1 => TabCount(d) = l - 1 /\ d.col # 0
         /\ Leads(IF l > 1 THEN P!Write(p, "TAB") ELSE p, s, q)

LEMMA SpaceShown ==
  ASSUME NEW c, NEW p, Shows(c, p), NEW s, NEW q, Leads(P!Write(p, "TAB"), s, q)
  PROVE  /\ TabCount(c) \in 1 .. TAB_WIDTH
         /\ Displays(WritePrintable(c, SPACE), TabCount(c), s, q)
<1> DEFINE d == WritePrintable(c, SPACE)
           r == P!Write(p, SPACE)
           t == P!Write(p, "TAB")
           u == P!Write(r, "TAB")
           l == TabCount(c)
<1>1. SPACE # "NL" /\ SPACE # "TAB"
  BY Zenon DEF SPACE
<1>2. Shows(d, r)
  BY <1>1, WriteShown
<1>3. /\ l \in 1 .. TAB_WIDTH
      /\ l = 1 => t = r
      /\ l > 1 => t = u /\ d.col # 0 /\ TabCount(d) = l - 1
  BY TabGoesOn
<1>4. Leads(t, s, q)
  OBVIOUS
<1> HIDE DEF d, r, t, u, l
<1>5. CASE l = 1
  <2>1. ~(l > 1) /\ Leads(r, s, q)
    BY <1>3, <1>4, <1>5
  <2>2. Displays(d, l, s, q)
    BY <1>2, <2>1 DEF Displays
  <2> QED BY <1>3, <2>2 DEF d, l
<1>6. CASE l > 1
  <2>1. d.col # 0 /\ TabCount(d) = l - 1 /\ Leads(u, s, q)
    BY <1>3, <1>4, <1>6
  <2>2. Displays(d, l, s, q)
    BY <1>2, <1>6, <2>1 DEF Displays, u
  <2> QED BY <1>3, <2>2 DEF d, l
<1>7. l = 1 \/ l > 1
  BY <1>3 DEF TAB_WIDTH
<1> QED BY <1>5, <1>6, <1>7

\* console_write returns: to main, or to the next space of a tab.
LEMMA ReturnShown ==
  ASSUME NEW d, NEW l \in 0 .. TAB_WIDTH, NEW s, NEW q, Displays(d, l, s, q)
  PROVE  /\ EndLine(d) = d
         /\ l <= 1 => Displays(d, 0, s, q)
         /\ l > 1 => /\ d.col # 0
                     /\ Displays(WritePrintable(d, SPACE), l - 1, s, q)
<1>1. PICK p : /\ Shows(d, p)
               /\ l > 1 => TabCount(d) = l - 1 /\ d.col # 0
               /\ Leads(IF l > 1 THEN P!Write(p, "TAB") ELSE p, s, q)
  BY DEF Displays
<1>2. EndLine(d) = d
  <2>1. Sane(d) /\ OnScreen(d)
    BY <1>1 DEF Shows
  <2> QED BY <2>1 DEF EndLine, LineEnds, OnScreen, Sane
<1>3. ASSUME l <= 1
      PROVE  Displays(d, 0, s, q)
  <2>1. ~(l > 1) /\ ~(0 > 1)
    BY <1>3 DEF TAB_WIDTH
  <2> QED BY <1>1, <2>1 DEF Displays
<1>4. ASSUME l > 1
      PROVE  d.col # 0 /\ Displays(WritePrintable(d, SPACE), l - 1, s, q)
  <2>1. TabCount(d) = l - 1 /\ d.col # 0 /\ Leads(P!Write(p, "TAB"), s, q)
    BY <1>1, <1>4
  <2>2. Displays(WritePrintable(d, SPACE), TabCount(d), s, q)
    BY <1>1, <2>1, SpaceShown
  <2> QED BY <2>1, <2>2
<1> QED BY <1>2, <1>3, <1>4

\* The steps within a character finish it as it was begun.
LEMMA EndingShown ==
  ASSUME ConsoleInv, Ending, NEW s, NEW q, left > 1 => ch = SPACE,
         Displays(Finished(con, pc, ch), left, s, q)
  PROVE  /\ Displays(Finished(con', pc', ch'), left', s, q)
         /\ left' > 1 => ch' = SPACE
         /\ pc' = "idle" => left' = 0
<1>0. left \in 0 .. TAB_WIDTH /\ Sane(con)
  BY DEF ConsoleInv, Ending, Newline, NewlineFit, PutChar, AdvanceCol, Wrap,
         NoWrap, WrapFit
<1>1. ch' = ch
  BY DEF Ending, Newline, NewlineFit, PutChar, AdvanceCol, Wrap, NoWrap, WrapFit
<1>2. ASSUME left' = left, pc' # "idle", Finished(con', pc', ch) = Finished(con, pc, ch)
      PROVE  /\ Displays(Finished(con', pc', ch'), left', s, q)
             /\ left' > 1 => ch' = SPACE
             /\ pc' = "idle" => left' = 0
  BY <1>1, <1>2
<1>3. CASE Newline
  <2>1. pc = "newline" /\ con' = NextLine(con) /\ pc' = "newline_fit" /\ left' = left
    BY <1>3 DEF Newline
  <2>2. Finished(con', pc', ch) = Finished(con, pc, ch)
    BY <2>1, Zenon DEF Finished
  <2> QED BY <1>2, <2>1, <2>2
<1>4. CASE NewlineFit
  <2>1. pc = "newline_fit" /\ con' = ShowLine(con) /\ pc' = "wrap" /\ left' = left
    BY <1>4 DEF NewlineFit
  <2>2. EndLine(con') = con'
    <3>1. Sane(con') /\ OnScreen(con')
      BY <1>0, <2>1, ShowLineSane
    <3> QED BY <3>1 DEF EndLine, LineEnds, OnScreen, Sane
  <2>3. Finished(con', pc', ch) = Finished(con, pc, ch)
    BY <2>1, <2>2, Zenon DEF Finished
  <2> QED BY <1>2, <2>1, <2>3
<1>5. CASE PutChar
  <2>1. pc = "put" /\ con' = PutCell(con, ch) /\ pc' = "advance" /\ left' = left
    BY <1>5 DEF PutChar
  <2>2. WritePrintable(con, ch) = EndLine(NextCol(PutCell(con, ch)))
    BY Zenon DEF WritePrintable, EndLine
  <2>3. Finished(con', pc', ch) = Finished(con, pc, ch)
    BY <2>1, <2>2, Zenon DEF Finished
  <2> QED BY <1>2, <2>1, <2>3
<1>6. CASE AdvanceCol
  <2>1. pc = "advance" /\ con' = NextCol(con) /\ pc' = "wrap" /\ left' = left
    BY <1>6 DEF AdvanceCol
  <2>2. Finished(con', pc', ch) = Finished(con, pc, ch)
    BY <2>1, Zenon DEF Finished
  <2> QED BY <1>2, <2>1, <2>2
<1>7. CASE Wrap
  <2>1. /\ pc = "wrap" /\ LineEnds(con) /\ con' = NextLine(con)
        /\ pc' = "wrap_fit" /\ left' = left
    BY <1>7 DEF Wrap
  <2>2. Finished(con', pc', ch) = Finished(con, pc, ch)
    BY <2>1, Zenon DEF Finished, EndLine
  <2> QED BY <1>2, <2>1, <2>2
<1>8. ASSUME Return(con'), Finished(con, pc, ch) = con'
      PROVE  /\ Displays(Finished(con', pc', ch'), left', s, q)
             /\ left' > 1 => ch' = SPACE
             /\ pc' = "idle" => left' = 0
  <2> DEFINE d == con'
             l == left
             m == left'
  <2>1. /\ m = IF l = 0 \/ d.col = 0 THEN 0 ELSE l - 1
        /\ pc' = IF l = 0 THEN "idle" ELSE IF m = 0 THEN "wrap" ELSE "put"
    BY <1>8 DEF Return
  <2>2. /\ EndLine(d) = d
        /\ l <= 1 => Displays(d, 0, s, q)
        /\ l > 1 => /\ d.col # 0
                    /\ Displays(WritePrintable(d, SPACE), l - 1, s, q)
    BY <1>0, <1>8, ReturnShown
  <2> HIDE DEF d, l, m
  <2>3. l \in 0 .. TAB_WIDTH /\ (l > 1 => ch = SPACE)
    BY <1>0 DEF l
  <2>4. CASE l = 0
    <3>1. m = 0 /\ pc' = "idle" /\ l <= 1 /\ ~(m > 1)
      BY <2>1, <2>4
    <3>2. Finished(d, pc', ch') = d
      BY <3>1, Zenon DEF Finished
    <3> QED BY <2>2, <3>1, <3>2 DEF d, m
  <2>5. CASE l = 1
    <3>1. m = 0 /\ pc' = "wrap" /\ l <= 1 /\ ~(m > 1)
      BY <2>1, <2>5
    <3>2. Finished(d, pc', ch') = d
      BY <2>2, <3>1, Zenon DEF Finished
    <3> QED BY <2>2, <3>1, <3>2 DEF d, m
  <2>6. CASE l > 1
    <3>1. l # 0 /\ l - 1 # 0
      BY <2>3, <2>6 DEF TAB_WIDTH
    <3>2. m = l - 1 /\ pc' = "put" /\ ch' = SPACE
      BY <1>1, <2>1, <2>2, <2>3, <2>6, <3>1
    <3>3. Finished(d, pc', ch') = WritePrintable(d, SPACE)
      BY <3>2, Zenon DEF Finished
    <3>4. pc' # "idle"
      BY <3>2
    <3> QED BY <2>2, <2>6, <3>2, <3>3, <3>4 DEF d, m
  <2>7. l = 0 \/ l = 1 \/ l > 1
    BY <2>3 DEF TAB_WIDTH
  <2> QED BY <2>4, <2>5, <2>6, <2>7
<1>9. CASE NoWrap
  <2>1. pc = "wrap" /\ ~LineEnds(con) /\ con' = con /\ Return(con')
    BY <1>9 DEF NoWrap, Return
  <2>2. Finished(con, pc, ch) = con'
    BY <2>1, Zenon DEF Finished, EndLine
  <2> QED BY <1>8, <2>1, <2>2
<1>10. CASE WrapFit
  <2>1. pc = "wrap_fit" /\ con' = ShowLine(con) /\ Return(con')
    BY <1>10 DEF WrapFit
  <2>2. Finished(con, pc, ch) = con'
    BY <2>1, Zenon DEF Finished
  <2> QED BY <1>8, <2>1, <2>2
<1> QED BY <1>3, <1>4, <1>5, <1>6, <1>7, <1>9, <1>10 DEF Ending
\* A sequence of z characters that sets colors.
IsColor(t, z) ==
  /\ z \in 3 .. 16
  /\ t[1] = "ESC" /\ t[2] = "[" /\ t[z] = "m"
  /\ \A n \in 3 .. z - 1 : t[n] \in (Digits \ {"8"}) \union {";"}
  /\ \A n \in 3 .. z - 3 : ";" \in {t[n], t[n + 1], t[n + 2]}

LEMMA ColorsAre ==
  ASSUME NEW t \in Colors
  PROVE  IsColor(t, Len(t))
<1> DEFINE z == Len(t)
<1>4. z \in 3 .. 16
  BY ColorsAssumption, Zenon
<1>3. /\ t[1] = "ESC" /\ t[2] = "[" /\ t[z] = "m"
      /\ \A n \in 3 .. z - 1 : t[n] \in (Digits \ {"8"}) \union {";"}
      /\ \A n \in 3 .. z - 3 : ";" \in {t[n], t[n + 1], t[n + 2]}
  BY ColorsAssumption, Zenon
<1> HIDE DEF z
<1> QED BY <1>3, <1>4, Zenon DEF IsColor, z

\* The buffer b of parameters, pos of them complete, after m characters of
\* sequence t: none is 8, none after the one being read is set, and that one
\* has at most as many digits as were read since it began.
ReadsParams(b, pos, t, m) ==
  /\ \A i \in 0 .. pos - 1 : b[i] # 8
  /\ \A i \in pos + 1 .. 15 : b[i] \in {-1, 0}
  /\ b[pos] \in -1 .. 99 /\ b[pos] # 8
  /\ m = 2 \/ t[m] = ";" => b[pos] \in {-1, 0}
  /\ m = 3 \/ t[m - 1] = ";" => b[pos] \in -1 .. 9

\* The console has read m characters of sequence t.
Reading(c, t, m) ==
  /\ m = 0 => c.escaped = "NONE"
  /\ m = 1 => c.escaped = "START"
  /\ m >= 2 => c.escaped = "READ" /\ ReadsParams(c.buffer, c.pos, t, m)

LEMMA DigitRead ==
  ASSUME NEW b, NEW pos \in 0 .. 15, b \in [0 .. 15 -> -128 .. 127],
         NEW t, NEW z, IsColor(t, z), NEW m \in 2 .. z - 2, ReadsParams(b, pos, t, m),
         t[m + 1] \in Digits \ {"8"}
  PROVE  ReadsParams([b EXCEPT ![pos] = IF @ < 0 THEN Digit[t[m + 1]]
                                        ELSE int8(@ * 10 + Digit[t[m + 1]])],
                     pos, t, m + 1)
<1> DEFINE k == t[m + 1]
           e == Digit[k]
           o == b[pos]
           v == IF o < 0 THEN e ELSE int8(o * 10 + e)
           w == [b EXCEPT ![pos] = v]
<1>1. e \in 0 .. 9 /\ e # 8
  BY DigitValue
<1>a. z \in 3 .. 16
  BY DEF IsColor
<1>2. (\A n \in 3 .. z - 3 : ";" \in {t[n], t[n + 1], t[n + 2]})
  BY DEF IsColor
<1>3. m \in Nat /\ m >= 2 /\ m <= z - 2
  BY <1>a
<1>4. k # ";"
  BY DEF Digits
<1>5. /\ o \in -1 .. 99 /\ o # 8
      /\ m = 2 \/ t[m] = ";" => o \in {-1, 0}
      /\ m = 3 \/ t[m - 1] = ";" => o \in -1 .. 9
  BY DEF ReadsParams
<1> HIDE DEF e, o
<1>6. o \in -1 .. 9
  <2>1. CASE m = 2 \/ m = 3
    <3>1. o \in {-1, 0} \/ o \in -1 .. 9
      BY <1>5, <2>1, Zenon
    <3> QED BY <3>1
  <2>2. CASE m >= 4
    <3>1. m - 1 \in 3 .. z - 3 /\ (m - 1) + 1 = m /\ (m - 1) + 2 = m + 1
      BY <1>a, <1>3, <2>2
    <3>2. ";" \in {t[m - 1], t[m], t[m + 1]}
      BY <1>2, <3>1
    <3>3. t[m - 1] = ";" \/ t[m] = ";"
      BY <1>4, <3>2
    <3>4. o \in {-1, 0} \/ o \in -1 .. 9
      BY <1>5, <3>3, Zenon
    <3> QED BY <3>4
  <2>3. m = 2 \/ m = 3 \/ m >= 4
    BY <1>3
  <2> QED BY <2>1, <2>2, <2>3
<1>b. o # 8
  BY <1>5, Zenon
<1>7. v \in 0 .. 99 /\ v # 8 /\ (o \in {-1, 0} => v \in 0 .. 9)
  <2>1. CASE o < 0
    BY <1>1, <2>1
  <2>2. CASE o >= 0
    <3>1. o * 10 + e \in 0 .. 99 /\ o * 10 + e # 8 /\ (o \in {-1, 0} => o * 10 + e \in 0 .. 9)
      BY <1>1, <1>6, <1>b, <2>2
    <3> DEFINE u == o * 10 + e
    <3> HIDE DEF u
    <3>2. u \in 0 .. 99 /\ u # 8 /\ (o \in {-1, 0} => u \in 0 .. 9)
      BY SMTT(20), <3>1 DEF u
    <3>3. int8(u) = u
      BY <3>2, Narrow
    <3>4. v = u
      BY <1>6, <2>2, <3>3 DEF u
    <3> QED BY <3>2, <3>4
  <2> QED BY <1>6, <2>1, <2>2
<1> HIDE DEF v
<1>8. w[pos] = v /\ \A i \in 0 .. 15 : i # pos => w[i] = b[i]
  OBVIOUS
<1> HIDE DEF w
<1>9. /\ \A i \in 0 .. pos - 1 : w[i] # 8
      /\ \A i \in pos + 1 .. 15 : w[i] \in {-1, 0}
  <2>1. /\ \A i \in 0 .. pos - 1 : b[i] # 8
        /\ \A i \in pos + 1 .. 15 : b[i] \in {-1, 0}
    BY DEF ReadsParams
  <2>2. \A i \in 0 .. pos - 1 : i \in 0 .. 15 /\ i # pos
    OBVIOUS
  <2>3. \A i \in pos + 1 .. 15 : i \in 0 .. 15 /\ i # pos
    OBVIOUS
  <2> QED BY <1>8, <2>1, <2>2, <2>3, Zenon
<1>10. /\ w[pos] \in -1 .. 99 /\ w[pos] # 8
       /\ t[m] = ";" => w[pos] \in -1 .. 9
       /\ m + 1 = 3 => w[pos] \in -1 .. 9
  <2>1. t[m] = ";" \/ m = 2 => o \in {-1, 0}
    BY <1>5, Zenon
  <2>2. m + 1 = 3 => m = 2
    BY <1>3
  <2>3. v \in -1 .. 99 /\ v # 8 /\ (o \in {-1, 0} => v \in -1 .. 9)
    BY <1>7
  <2> QED BY <1>8, <2>1, <2>2, <2>3, Zenon
<1>11. m + 1 # 2 /\ (m + 1) - 1 = m
  BY <1>3
<1>12. ReadsParams(w, pos, t, m + 1)
  BY <1>4, <1>9, <1>10, <1>11 DEF ReadsParams
<1> QED BY <1>12 DEF w, v, o, e

LEMMA SeparatorRead ==
  ASSUME NEW b, NEW pos \in 0 .. 15, pos + 1 \in 0 .. 15,
         NEW t, NEW m \in Nat, m >= 2, ReadsParams(b, pos, t, m)
  PROVE  ReadsParams(b, pos + 1, t, m + 1)
<1>1. /\ \A i \in 0 .. pos - 1 : b[i] # 8
      /\ \A i \in pos + 1 .. 15 : b[i] \in {-1, 0}
      /\ b[pos] # 8
  BY DEF ReadsParams
<1>2. \A i \in 0 .. (pos + 1) - 1 : i \in 0 .. pos - 1 \/ i = pos
  OBVIOUS
<1>3. \A i \in (pos + 1) + 1 .. 15 : i \in pos + 1 .. 15
  OBVIOUS
<1>4. \A i \in 0 .. (pos + 1) - 1 : b[i] # 8
  BY <1>1, <1>2, Zenon
<1>5. \A i \in (pos + 1) + 1 .. 15 : b[i] \in {-1, 0}
  BY <1>1, <1>3, Zenon
<1>6. b[pos + 1] \in {-1, 0}
  <2>1. pos + 1 \in pos + 1 .. 15
    OBVIOUS
  <2> QED BY <1>1, <2>1
<1>7. b[pos + 1] \in -1 .. 99 /\ b[pos + 1] # 8 /\ b[pos + 1] \in -1 .. 9
  BY <1>6
<1> QED BY <1>4, <1>5, <1>6, <1>7, Zenon DEF ReadsParams

\* A color begins with no parameter read.
LEMMA ColorOpens ==
  ASSUME NEW c, Sane(c), OnScreen(c), c.escaped = "START", NEW t, NEW z, IsColor(t, z)
  PROVE  LET d == proc_escape(c, "[")
         IN  Sane(d) /\ OnScreen(d) /\ SameBody(c, d) /\ Reading(d, t, 2)
<1> DEFINE d == [c EXCEPT !.escaped = "READ"]
<1>1. proc_escape(c, "[") = d
  BY DEF proc_escape
<1>2. Sane(d) /\ OnScreen(d)
  BY ParserMoves
<1>3. d.escaped = "READ" /\ \A f \in Fields \ {"escaped"} : d[f] = c[f]
  BY DEF Sane, IsConsole, Fields
<1> HIDE DEF d
<1>4. SameBody(c, d) /\ d.pos = 0 /\ d.buffer \in Cleared
  BY <1>3 DEF SameBody, Body, Fields, Sane
<1> DEFINE b == d.buffer
<1>5. b[0] \in {-1, 0} /\ \A i \in 1 .. 15 : b[i] \in {-1, 0}
  <2>1. NoParams[0] = 0 /\ \A i \in 1 .. 15 : NoParams[i] = 0
    BY DEF NoParams
  <2>2. b = NoParams \/ b = [NoParams EXCEPT ![0] = -1]
    BY <1>4 DEF Cleared
  <2>3. [NoParams EXCEPT ![0] = -1][0] = -1
        /\ \A i \in 1 .. 15 : [NoParams EXCEPT ![0] = -1][i] = 0
    BY DEF NoParams
  <2>4. CASE b = NoParams
    BY <2>1, <2>4
  <2>5. CASE b = [NoParams EXCEPT ![0] = -1]
    <3> DEFINE w == [NoParams EXCEPT ![0] = -1]
    <3> HIDE DEF w
    <3>1. b = w /\ w[0] = -1 /\ \A i \in 1 .. 15 : w[i] = 0
      BY <2>3, <2>5 DEF w
    <3> QED BY <3>1
  <2> QED BY <2>2, <2>4, <2>5
<1> HIDE DEF b
<1>6. ReadsParams(b, 0, t, 2)
  <2>1. 0 + 1 = 1 /\ \A i \in 0 .. 0 - 1 : FALSE
    OBVIOUS
  <2>2. b[0] \in -1 .. 99 /\ b[0] # 8 /\ b[0] \in -1 .. 9
    BY <1>5
  <2> QED BY <1>5, <2>1, <2>2, Zenon DEF ReadsParams
<1>7. Reading(d, t, 2)
  BY <1>3, <1>4, <1>6 DEF Reading, b
<1> QED BY <1>1, <1>2, <1>4, <1>7

\* A character of a sequence is for the parser.
LEMMA WriteReads ==
  ASSUME NEW c, c.escaped = "READ", NEW k
  PROVE  proc_escape(c, k) = console_write(c, k)
<1>1. c.escaped # "NONE"
  OBVIOUS
<1> QED BY <1>1, Zenon DEF console_write

\* It goes on with its parameters,
LEMMA ColorReads ==
  ASSUME NEW c, Sane(c), OnScreen(c), c.pos \in 0 .. 15,
         NEW t, NEW z, IsColor(t, z), NEW m \in 2 .. z - 2, Reading(c, t, m),
         proc_escape(c, t[m + 1]).pos \in 0 .. 15
  PROVE  LET d == proc_escape(c, t[m + 1])
         IN  Sane(d) /\ OnScreen(d) /\ SameBody(c, d) /\ Reading(d, t, m + 1)
<1> DEFINE k == t[m + 1]
           d == proc_escape(c, k)
           pos == c.pos
           b == c.buffer
<1>1. \A n \in 3 .. z - 1 : t[n] \in (Digits \ {"8"}) \union {";"}
  BY DEF IsColor
<1>2. m \in Nat /\ m >= 2 /\ m + 1 \in 3 .. z - 1
  <2>1. z \in 3 .. 16
    BY DEF IsColor
  <2> QED BY <2>1
<1>3. c.escaped = "READ" /\ ReadsParams(b, pos, t, m)
  BY <1>2 DEF Reading
<1>4. d = console_write(c, k)
  BY SMTT(20), <1>3, WriteReads
<1>5. pos \in 0 .. 15 /\ d.pos \in 0 .. 15 /\ b \in [0 .. 15 -> -128 .. 127]
  BY DEF Sane
<1> HIDE DEF d
<1>6. CASE k \in Digits \ {"8"}
  <2>1. /\ Sane(d) /\ OnScreen(d) /\ d.escaped = "READ" /\ d.pos = pos
        /\ d.buffer = [b EXCEPT ![pos] =
                         IF @ < 0 THEN Digit[k] ELSE int8(@ * 10 + Digit[k])]
        /\ SameBody(c, d)
    BY <1>3, <1>4, <1>6, ReadsDigit
  <2> HIDE DEF pos, b
  <2>2. ReadsParams(d.buffer, d.pos, t, m + 1)
    <3> DEFINE w == [b EXCEPT ![pos] =
                       IF @ < 0 THEN Digit[k] ELSE int8(@ * 10 + Digit[k])]
    <3>1. ReadsParams(w, pos, t, m + 1)
      BY <1>3, <1>5, <1>6, DigitRead, Zenon
    <3>2. d.buffer = w /\ d.pos = pos
      BY <2>1, Zenon
    <3> HIDE DEF w
    <3> QED BY <3>1, <3>2, Zenon
  <2>3. Reading(d, t, m + 1)
    BY <1>2, <2>1, <2>2 DEF Reading
  <2> QED BY <2>1, <2>3 DEF d
<1>7. CASE k = ";"
  <2>1. /\ Sane(d) /\ OnScreen(d) /\ d.escaped = "READ" /\ d.pos = pos + 1
        /\ d.buffer = b /\ SameBody(c, d)
    BY <1>3, <1>4, <1>7, ReadsSeparator
  <2> HIDE DEF pos, b
  <2>2. ReadsParams(d.buffer, d.pos, t, m + 1)
    BY <1>2, <1>3, <1>5, <2>1, SeparatorRead
  <2>3. Reading(d, t, m + 1)
    BY <1>2, <2>1, <2>2 DEF Reading
  <2> QED BY <2>1, <2>3 DEF d
<1>8. k \in (Digits \ {"8"}) \union {";"}
  BY <1>1, <1>2
<1> QED BY <1>6, <1>7, <1>8

\* and ends without concealing what follows.
LEMMA ColorEnds ==
  ASSUME NEW c, Sane(c), OnScreen(c), ~c.attr.conceal, c.pos \in 0 .. 15,
         NEW t, NEW m \in Nat, m >= 2, Reading(c, t, m)
  PROVE  LET d == proc_escape(c, "m")
         IN  /\ AtRest(d) /\ ~d.attr.conceal
             /\ d.col = c.col /\ d.row = c.row /\ d.vram = c.vram
<1> DEFINE g == Graphics(c.attr, c.buffer, c.pos)
           p == [c EXCEPT !.attr = g]
           d == proc_escape(c, "m")
           a == c.attr
           b == c.buffer
           pos == c.pos
<1>1. c.escaped = "READ" /\ ReadsParams(b, pos, t, m)
  BY DEF Reading
<1>2. ~g.conceal
  <2>1. a \in Attrs /\ ~a.conceal /\ pos \in 0 .. 15
    BY DEF Sane
  <2> HIDE DEF a, b, pos
  <2>2. \A i \in 0 .. pos : i \in 0 .. pos - 1 \/ i = pos
    BY <2>1
  <2>3. \A i \in 0 .. pos : b[i] # 8
    BY <1>1, <2>2, Zenon DEF ReadsParams
  <2>4. pos \in Nat
    BY <2>1
  <2>5. ~Graphics(a, b, pos).conceal
    BY <2>1, <2>3, <2>4, GraphicsReveal
  <2> QED BY <2>5 DEF a, b, pos
<1>3. d = console_write(c, "m")
  BY <1>1, WriteReads
<1>4. Perform(c, "m") = p /\ "m" \in Finals
  <2>1. Perform(c, "m") = [c EXCEPT !.attr = Graphics(@, c.buffer, c.pos)]
    BY DEF Perform, Moves
  <2> QED BY <2>1 DEF Finals
<1>5. AtRest(d) /\ SameBody(p, d)
  BY SMTT(20), <1>1, <1>3, <1>4, ReadsFinal
<1> HIDE DEF g, d
<1>6. p.attr = g /\ \A f \in Fields \ {"attr"} : p[f] = c[f]
  BY DEF Sane, IsConsole, Fields
<1> HIDE DEF p
<1>7. d.attr = g /\ d.col = c.col /\ d.row = c.row /\ d.vram = c.vram
  BY <1>5, <1>6 DEF SameBody, Body, Fields
<1> QED BY <1>2, <1>5, <1>7 DEF d
\* Main writes text: what it has still to do leads from the page the screen
\* will show after this character to the page written.
Text(c, step, k, l, s, q) ==
  /\ step \notin {"start", "proc"} /\ (step = "idle" => l = 0) /\ c.escaped = "NONE"
  /\ TextItems(s) /\ (l > 1 => k = SPACE)
  /\ Displays(Finished(c, step, k), l, s, q)

\* Main has done n of the z characters of t, and s is left.
Rest(t, z, n, s) == Len(s) = z - n /\ \A i \in 1 .. z - n : s[i] = t[n + i]

\* Main sets colors: the screen shows the page written.
Progress(c, step, k, s) ==
  \E t, z : /\ IsColor(t, z)
            /\ \E n \in 0 .. z :
                 /\ Rest(t, z, n, s)
                 /\ \/ step = "idle" /\ n < z /\ Reading(c, t, n)
                    \/ step = "start" /\ n = 1 /\ Reading(c, t, 0)
                    \/ step = "proc" /\ n >= 2 /\ k = t[n] /\ Reading(c, t, n - 1)
Coloring(c, step, k, l, s, q) == l = 0 /\ Shows(c, q) /\ Progress(c, step, k, s)

Steady ==
  /\ ~con.attr.conceal
  /\ Text(con, pc, ch, left, out, page) \/ Coloring(con, pc, ch, left, out, page)

PageInv == tame => ~typed /\ Steady

LEMMA TailOfItems ==
  ASSUME NEW s, TextItems(s), s # <<>>
  PROVE  TextItems(Tail(s)) /\ Head(s) \notin {"ESC", "BS"}
<1> DEFINE l == Len(s)
           t == Tail(s)
<1>1. s \in Seq(Symbols) /\ \A n \in 1 .. l : s[n] \notin {"ESC", "BS"}
  BY DEF TextItems
<1>2. /\ l \in Nat /\ l >= 1 /\ Head(s) = s[1] /\ t \in Seq(Symbols)
      /\ Len(t) = l - 1 /\ \A n \in 1 .. l - 1 : t[n] = s[n + 1]
  BY <1>1, Chopped
<1> HIDE DEF l, t
<1>3. 1 \in 1 .. l /\ \A n \in 1 .. l - 1 : n + 1 \in 1 .. l
  BY <1>2
<1>4. \A n \in 1 .. l - 1 : t[n] \notin {"ESC", "BS"}
  BY <1>1, <1>2, <1>3, Zenon
<1>5. TextItems(t)
  BY <1>2, <1>4, Zenon DEF TextItems
<1> QED BY <1>1, <1>2, <1>3, <1>5, Zenon DEF t

\* The next character of a sequence that sets colors, and what is left then.
LEMMA RestBegins ==
  ASSUME NEW t, NEW z, IsColor(t, z), NEW n \in 0 .. z, n < z, NEW s,
         s # <<>>, s \in Seq(Symbols), Rest(t, z, n, s)
  PROVE  /\ Head(s) = t[n + 1] /\ Head(s) \notin {"SHOW", "LEFT"}
         /\ Rest(t, z, n + 1, Tail(s))
<1> DEFINE m == Len(s)
           k == Head(s)
           r == Tail(s)
<1>1. z \in 3 .. 16
  BY DEF IsColor
<1>2. m = z - n /\ \A i \in 1 .. z - n : s[i] = t[n + i]
  BY DEF Rest
<1>3. k = s[1] /\ Len(r) = m - 1 /\ \A i \in 1 .. m - 1 : r[i] = s[i + 1]
  BY Chopped
<1> HIDE DEF m, k, r
<1>4. k = t[n + 1]
  <2>1. 1 \in 1 .. z - n
    BY <1>1
  <2> QED BY <1>2, <1>3, <2>1
<1>5. k \notin {"SHOW", "LEFT"}
  <2>1. \/ n + 1 = 1 \/ n + 1 = 2 \/ n + 1 = z \/ n + 1 \in 3 .. z - 1
    BY <1>1
  <2>2. /\ t[1] = "ESC" /\ t[2] = "[" /\ t[z] = "m"
        /\ \A i \in 3 .. z - 1 : t[i] \in (Digits \ {"8"}) \union {";"}
    BY DEF IsColor
  <2>3. k \in {"ESC", "[", "m", ";"} \union Digits
    <3>1. k \in {"ESC", "[", "m"} \/ k \in (Digits \ {"8"}) \union {";"}
      BY <1>4, <2>1, <2>2, Zenon
    <3> QED BY <3>1
  <2> QED BY <2>3 DEF Digits
<1>6. Rest(t, z, n + 1, r)
  <2>1. Len(r) = z - (n + 1)
    BY <1>1, <1>2, <1>3
  <2>2. ASSUME NEW i \in 1 .. z - (n + 1) PROVE r[i] = t[(n + 1) + i]
    <3>1. i \in 1 .. m - 1 /\ i + 1 \in 1 .. z - n /\ n + (i + 1) = (n + 1) + i
      BY <1>1, <1>2
    <3>2. r[i] = s[i + 1] /\ s[i + 1] = t[n + (i + 1)]
      BY <1>2, <1>3, <3>1
    <3> QED BY <3>1, <3>2
  <2> QED BY <2>1, <2>2 DEF Rest
<1> QED BY <1>4, <1>5, <1>6 DEF k, r

\* The screen shows the page that what is still to do leads from.
LEMMA Displaying ==
  ASSUME NEW d, NEW p, Shows(d, p), NEW s, NEW q, Leads(p, s, q)
  PROVE  Displays(d, 0, s, q)
<1>1. ~(0 > 1)
  OBVIOUS
<1> QED BY <1>1 DEF Displays

LEMMA Displayed ==
  ASSUME NEW d, NEW s, NEW q, Displays(d, 0, s, q)
  PROVE  \E p : Shows(d, p) /\ Leads(p, s, q)
<1>1. ~(0 > 1)
  OBVIOUS
<1> QED BY <1>1 DEF Displays

\* Nothing is left to do.
LEMMA SteadyRest ==
  ASSUME Steady, pc = "idle", out = <<>>
  PROVE  Shows(con, page) /\ con.escaped = "NONE" /\ left = 0 /\ ~con.attr.conceal
<1>1. Len(out) = 0
  BY EmptySeq
<1>2. CASE Text(con, pc, ch, left, out, page)
  <2>1. con.escaped = "NONE" /\ left = 0 /\ Displays(Finished(con, pc, ch), left, out, page)
    BY <1>2 DEF Text
  <2>2. Finished(con, pc, ch) = con
    BY Zenon DEF Finished
  <2>3. Displays(con, 0, out, page)
    BY <2>1, <2>2
  <2>4. PICK p : Shows(con, p) /\ Leads(p, out, page)
    BY <2>3, Displayed
  <2>5. p = page
    BY <1>1, <2>4, LeadsNowhere
  <2> QED BY <2>1, <2>4, <2>5 DEF Steady
<1>3. CASE Coloring(con, pc, ch, left, out, page)
  <2>1. PICK t, z : /\ IsColor(t, z)
                    /\ \E n \in 0 .. z :
                         /\ Rest(t, z, n, out)
                         /\ \/ pc = "idle" /\ n < z /\ Reading(con, t, n)
                            \/ pc = "start" /\ n = 1 /\ Reading(con, t, 0)
                            \/ pc = "proc" /\ n >= 2 /\ ch = t[n] /\ Reading(con, t, n - 1)
    BY <1>3 DEF Coloring, Progress
  <2>2. PICK n \in 0 .. z : Rest(t, z, n, out) /\ n < z
    BY <2>1
  <2>3. Len(out) = z - n /\ z \in 3 .. 16
    BY <2>1, <2>2 DEF Rest, IsColor
  <2>4. z - n # 0
    BY <2>2, <2>3
  <2> QED BY <1>1, <2>3, <2>4
<1> QED BY <1>2, <1>3 DEF Steady

\* Main asks for text, or for the echo of a key.
LEMMA SteadyAsk ==
  ASSUME Steady, NEW items, Ask(items), TextItems(items),
         Shows(con', page), SameMode(con, con'), Leads(page, items, page')
  PROVE  Steady'
<1>1. pc = "idle" /\ out = <<>> /\ out' = items /\ pc' = pc /\ ch' = ch /\ left' = left
  BY DEF Ask
<1>2. con.escaped = "NONE" /\ left = 0 /\ ~con.attr.conceal
  BY <1>1, SteadyRest
<1>3. con'.escaped = "NONE" /\ ~con'.attr.conceal
  BY <1>2 DEF SameMode, Mode
<1>4. Displays(con', 0, items, page')
  BY Displaying
<1>5. Finished(con', pc', ch') = con'
  BY <1>1, Zenon DEF Finished
<1>6. pc' \notin {"start", "proc"} /\ ~(0 > 1) /\ left' = 0
  BY <1>1, <1>2
<1>7. Text(con', pc', ch', left', out', page')
  BY <1>1, <1>3, <1>4, <1>5, <1>6 DEF Text
<1> QED BY <1>3, <1>7 DEF Steady

\* Main asks for colors.
LEMMA SteadyColor ==
  ASSUME Steady, NEW s \in Colors, PutColor(s)
  PROVE  Steady'
<1>1. /\ pc = "idle" /\ out = <<>> /\ out' = s /\ pc' = pc /\ ch' = ch /\ left' = left
      /\ con' = con /\ page' = page
  BY DEF PutColor, Ask, histories
<1>2. Shows(con, page) /\ con.escaped = "NONE" /\ left = 0 /\ ~con.attr.conceal
  BY <1>1, SteadyRest
<1> DEFINE z == Len(s)
<1>3. IsColor(s, z)
  BY ColorsAre
<1> HIDE DEF z
<1>4. 0 \in 0 .. z /\ 0 < z /\ z - 0 = z
  <2>1. z \in 3 .. 16
    BY <1>3 DEF IsColor
  <2> QED BY <2>1
<1>5. Rest(s, z, 0, s)
  <2>1. \A i \in 1 .. z - 0 : 0 + i = i
    BY <1>4
  <2> QED BY <1>4, <2>1, Zenon DEF Rest, z
<1>6. Reading(con, s, 0)
  <2>1. 0 # 1 /\ ~(0 >= 2)
    OBVIOUS
  <2> QED BY <1>2, <2>1 DEF Reading
<1>7. Progress(con, "idle", ch, s)
  BY <1>3, <1>4, <1>5, <1>6 DEF Progress
<1>8. Coloring(con', pc', ch', left', out', page')
  BY <1>1, <1>2, <1>7 DEF Coloring
<1> QED BY <1>1, <1>2, <1>8 DEF Steady

\* A move of the cursor comes only among text.
LEMMA SteadyMove ==
  ASSUME ConsoleInv, Parsing, Steady, MoveCursor
  PROVE  Steady'
<1> DEFINE k == Head(out)
           s == Tail(out)
<1>1. /\ pc = "idle" /\ out # <<>> /\ k \in {"SHOW", "LEFT"}
      /\ out' = s /\ pc' = pc /\ ch' = ch /\ left' = left /\ page' = page
      /\ \/ k = "SHOW" /\ con' = console_setcursor(con, -1, -1)
         \/ k = "LEFT" /\ con' = console_mvcursor(con, -1)
  BY DEF MoveCursor, histories
<1>2. Sane(con) /\ OnScreen(con) /\ -1 \in Int
  BY <1>1 DEF ConsoleInv, ScreenSteps, Steps
<1>3. SameMode(con, con')
  BY <1>1, <1>2, SetCursorMode, MoveLeftIs
<1>4. con'.escaped = con.escaped /\ ~con'.attr.conceal
  BY <1>3 DEF SameMode, Mode, Steady
<1>5. CASE Text(con, pc, ch, left, out, page)
  <2>1. /\ con.escaped = "NONE" /\ left = 0 /\ TextItems(out)
        /\ Displays(Finished(con, pc, ch), left, out, page)
    BY <1>1, <1>5 DEF Text
  <2>2. Finished(con, pc, ch) = con
    BY <1>1, Zenon DEF Finished
  <2>3. Displays(con, 0, out, page)
    BY <2>1, <2>2
  <2>4. PICK p : Shows(con, p) /\ Leads(p, out, page)
    BY <2>3, Displayed
  <2>5. Leads(Turned(p, k), s, page)
    <3>1. out \in Seq(Symbols)
      BY <2>1 DEF TextItems
    <3> QED BY <1>1, <2>4, <3>1, LeadsOn
  <2>6. Shows(con', Turned(p, k))
    <3>1. CASE k = "SHOW"
      <4>1. Turned(p, k) = p
        BY <3>1, Zenon DEF Turned
      <4>2. con' = console_setcursor(con, -1, -1)
        BY <1>1, <3>1
      <4> QED BY <2>4, <4>1, <4>2, CursorShown
    <3>2. CASE k = "LEFT"
      <4>1. Turned(p, k) = LeftOf(p)
        BY <3>2, Zenon DEF Turned
      <4>2. con' = console_mvcursor(con, -1)
        BY <1>1, <3>2
      <4> QED BY <2>4, <4>1, <4>2, LeftShown
    <3> QED BY <1>1, <3>1, <3>2
  <2>7. Displays(con', 0, s, page)
    BY <2>5, <2>6, Displaying
  <2>8. TextItems(s)
    BY <1>1, <2>1, TailOfItems
  <2>9. Finished(con', pc', ch') = con'
    BY <1>1, Zenon DEF Finished
  <2>10. pc' \notin {"start", "proc"} /\ ~(0 > 1) /\ left' = 0 /\ con'.escaped = "NONE"
    BY <1>1, <1>4, <2>1
  <2> HIDE DEF s
  <2>11. Text(con', pc', ch', left', out', page')
    BY <1>1, <2>7, <2>8, <2>9, <2>10 DEF Text
  <2> QED BY <1>4, <2>11 DEF Steady
<1>6. ~Coloring(con, pc, ch, left, out, page)
  <2> SUFFICES ASSUME Coloring(con, pc, ch, left, out, page) PROVE FALSE
    OBVIOUS
  <2>1. PICK t, z : /\ IsColor(t, z)
                    /\ \E n \in 0 .. z :
                         /\ Rest(t, z, n, out)
                         /\ \/ pc = "idle" /\ n < z /\ Reading(con, t, n)
                            \/ pc = "start" /\ n = 1 /\ Reading(con, t, 0)
                            \/ pc = "proc" /\ n >= 2 /\ ch = t[n] /\ Reading(con, t, n - 1)
    BY DEF Coloring, Progress
  <2>2. PICK n \in 0 .. z : Rest(t, z, n, out) /\ n < z
    BY <1>1, <2>1
  <2>3. out \in Seq(Symbols)
    BY DEF Parsing, NoEscape, SequenceTail
  <2>4. k \notin {"SHOW", "LEFT"}
    BY <1>1, <2>1, <2>2, <2>3, RestBegins
  <2> QED BY <1>1, <2>4
<1> QED BY <1>5, <1>6 DEF Steady
\* Main begins a character,
LEMMA SteadyEnterText ==
  ASSUME Steady, Enter, Text(con, pc, ch, left, out, page)
  PROVE  Text(con', pc', ch', left', out', page')
<1> DEFINE k == Head(out)
           s == Tail(out)
           c == con
           q == page
<1>1. /\ pc = "idle" /\ out # <<>> /\ k \notin {"SHOW", "LEFT"}
      /\ out' = s /\ con' = c /\ page' = q /\ pc' = Branch(k)
      /\ ch' = (IF pc' = "put" /\ k = "TAB" THEN SPACE ELSE k)
      /\ left' = (IF pc' = "put" /\ k = "TAB" THEN TabCount(c) ELSE 0)
  BY DEF Enter, histories
<1>2. c.escaped = "NONE" /\ left = 0 /\ TextItems(out)
      /\ Displays(Finished(c, pc, ch), left, out, q)
  BY <1>1 DEF Text
<1>3. Finished(c, pc, ch) = c
  BY <1>1, Zenon DEF Finished
<1>4. Displays(c, 0, out, q)
  BY <1>2, <1>3
<1>5. PICK p : Shows(c, p) /\ Leads(p, out, q)
  BY <1>4, Displayed
<1>6. Leads(P!Write(p, k), s, q)
  <2>1. out \in Seq(Symbols)
    BY <1>2 DEF TextItems
  <2>2. Leads(Turned(p, k), s, q)
    BY <1>1, <1>5, <2>1, LeadsOn
  <2>3. Turned(p, k) = P!Write(p, k)
    BY <1>1, Zenon DEF Turned
  <2> QED BY <2>2, <2>3
<1>7. TextItems(s) /\ k \notin {"ESC", "BS"}
  BY <1>1, <1>2, TailOfItems
<1>8. Branch(k) = IF k = "NL" THEN "newline" ELSE "put"
  <2>1. ~con.attr.conceal /\ k # "ESC"
    BY <1>7 DEF Steady
  <2>2. k # "NL" => isprint(k) \/ k = "TAB"
    BY <1>7 DEF isprint, Controls
  <2> HIDE DEF k
  <2> QED BY <1>2, <2>1, <2>2, Zenon DEF Branch
<1>9. c.escaped = "NONE" /\ TextItems(out') /\ con' = c /\ page' = q
  BY <1>1, <1>2, <1>7
<1> HIDE DEF k, s
<1>10. CASE k = "NL"
  <2>1. pc' = "newline" /\ left' = 0 /\ ~(0 > 1)
    BY <1>1, <1>8, <1>10
  <2>2. Finished(c, pc', ch') = ShowLine(NextLine(c))
    BY <2>1, Zenon DEF Finished
  <2>3. Shows(ShowLine(NextLine(c)), P!Write(p, "NL")) /\ Leads(P!Write(p, "NL"), s, q)
    BY <1>5, <1>6, <1>10, NewlineShown
  <2>4. Displays(Finished(c, pc', ch'), 0, s, q)
    BY <2>2, <2>3, Displaying
  <2> HIDE DEF c, q
  <2> QED BY <1>1, <1>9, <2>1, <2>4 DEF Text
<1>11. CASE k = "TAB"
  <2>1. pc' = "put" /\ left' = TabCount(c) /\ ch' = SPACE
    BY <1>1, <1>8, <1>11
  <2>2. Finished(c, pc', ch') = WritePrintable(c, SPACE)
    BY <2>1, Zenon DEF Finished
  <2>3. Leads(P!Write(p, "TAB"), s, q)
    BY <1>6, <1>11
  <2>4. Displays(Finished(c, pc', ch'), left', s, q)
    BY <1>5, <2>1, <2>2, <2>3, SpaceShown
  <2> HIDE DEF c, q
  <2> QED BY <1>1, <1>9, <2>1, <2>4 DEF Text
<1>12. CASE k # "NL" /\ k # "TAB"
  <2>1. pc' = "put" /\ left' = 0 /\ ch' = k /\ ~(0 > 1)
    BY <1>1, <1>8, <1>12
  <2>2. Finished(c, pc', ch') = WritePrintable(c, k)
    BY <2>1, Zenon DEF Finished
  <2>3. Shows(WritePrintable(c, k), P!Write(p, k))
    BY <1>5, <1>12, WriteShown
  <2>4. Displays(Finished(c, pc', ch'), 0, s, q)
    BY <1>6, <2>2, <2>3, Displaying
  <2> HIDE DEF c, q
  <2> QED BY <1>1, <1>9, <2>1, <2>4 DEF Text
<1> QED BY <1>10, <1>11, <1>12

LEMMA SteadyEnterColor ==
  ASSUME Parsing, Steady, Enter, Coloring(con, pc, ch, left, out, page)
  PROVE  Coloring(con', pc', ch', left', out', page')
<1> DEFINE k == Head(out)
           s == Tail(out)
           c == con
           q == page
<1>1. /\ pc = "idle" /\ out # <<>>
      /\ out' = s /\ con' = c /\ page' = q /\ pc' = Branch(k)
      /\ ch' = (IF pc' = "put" /\ k = "TAB" THEN SPACE ELSE k)
      /\ left' = (IF pc' = "put" /\ k = "TAB" THEN TabCount(c) ELSE 0)
  BY DEF Enter, histories
<1>2. PICK t, z : /\ IsColor(t, z)
                  /\ \E n \in 0 .. z :
                       /\ Rest(t, z, n, out)
                       /\ \/ pc = "idle" /\ n < z /\ Reading(c, t, n)
                          \/ pc = "start" /\ n = 1 /\ Reading(c, t, 0)
                          \/ pc = "proc" /\ n >= 2 /\ ch = t[n] /\ Reading(c, t, n - 1)
  BY DEF Coloring, Progress
<1>3. PICK n \in 0 .. z : Rest(t, z, n, out) /\ n < z /\ Reading(c, t, n)
  BY <1>1, <1>2
<1>4. out \in Seq(Symbols)
  BY DEF Parsing, NoEscape, SequenceTail
<1>5. k = t[n + 1] /\ Rest(t, z, n + 1, s)
  BY <1>1, <1>2, <1>3, <1>4, RestBegins
<1>6. n + 1 \in 0 .. z /\ (n + 1) - 1 = n /\ n \in Nat
  <2>1. z \in 3 .. 16
    BY <1>2 DEF IsColor
  <2> QED BY <1>3, <2>1
<1>7. Shows(c, q)
  BY DEF Coloring
<1> HIDE DEF k, s, c
<1>8. CASE n = 0
  <2>1. c.escaped = "NONE"
    BY <1>3, <1>8 DEF Reading
  <2>2. k = "ESC"
    <3>1. n + 1 = 1
      BY <1>8
    <3> QED BY <1>2, <1>5, <3>1 DEF IsColor
  <2>3. Branch(k) = "start"
    BY <2>1, <2>2, Zenon DEF Branch, c
  <2>4. pc' = "start" /\ left' = 0
    BY <1>1, <2>3
  <2>5. n + 1 = 1 /\ Reading(c, t, 0)
    BY <1>3, <1>8
  <2>6. Progress(c, pc', ch', s)
    BY <1>2, <1>5, <1>6, <2>4, <2>5 DEF Progress
  <2> QED BY <1>1, <1>7, <2>4, <2>6 DEF Coloring
<1>9. CASE n # 0
  <2>1. c.escaped # "NONE" /\ n + 1 >= 2
    <3>1. n = 1 \/ n >= 2
      BY <1>6, <1>9
    <3> QED BY <1>3, <3>1 DEF Reading
  <2>2. Branch(k) = "proc"
    BY <2>1, Zenon DEF Branch, c
  <2>3. pc' = "proc" /\ left' = 0 /\ ch' = k
    BY <1>1, <2>2
  <2>4. ch' = t[n + 1] /\ Reading(c, t, (n + 1) - 1)
    BY <1>3, <1>5, <1>6, <2>3
  <2>5. Progress(c, pc', ch', s)
    BY <1>2, <1>5, <1>6, <2>1, <2>3, <2>4 DEF Progress
  <2> QED BY <1>1, <1>7, <2>3, <2>5 DEF Coloring
<1> QED BY <1>8, <1>9

\* or goes on with a sequence,
LEMMA SteadyEscape ==
  ASSUME ConsoleInv, Parsing, TypeOK, TypeOK', ~typed, ~typed', Steady, Escape
  PROVE  Steady'
<1> DEFINE c == con
           d == con'
           q == page
<1>1. /\ pc \in {"start", "proc"} /\ pc' = "idle"
      /\ left' = left /\ out' = out /\ ch' = ch /\ page' = q
      /\ pc = "start" => d = StartEscape(c)
      /\ pc = "proc" => d = proc_escape(c, ch)
  BY DEF Escape, local, histories
<1>2. /\ Sane(c) /\ OnScreen(c) /\ ~c.attr.conceal
      /\ pc = "start" => c.escaped = "NONE"
  BY SMTT(20), <1>1 DEF ConsoleInv, Steady, ScreenSteps, PlainSteps, Steps
<1>3. c.pos \in 0 .. 15 /\ d.pos \in 0 .. 15
  BY DEF TypeOK
<1>4. Coloring(c, pc, ch, left, out, q)
  BY <1>1 DEF Steady, Text
<1>5. PICK t, z : /\ IsColor(t, z)
                  /\ \E n \in 0 .. z :
                       /\ Rest(t, z, n, out)
                       /\ \/ pc = "idle" /\ n < z /\ Reading(c, t, n)
                          \/ pc = "start" /\ n = 1 /\ Reading(c, t, 0)
                          \/ pc = "proc" /\ n >= 2 /\ ch = t[n] /\ Reading(c, t, n - 1)
  BY <1>4 DEF Coloring, Progress
<1>6. PICK n \in 0 .. z :
         /\ Rest(t, z, n, out)
         /\ \/ pc = "start" /\ n = 1 /\ Reading(c, t, 0)
            \/ pc = "proc" /\ n >= 2 /\ ch = t[n] /\ Reading(c, t, n - 1)
  BY <1>1, <1>5
<1>7. z \in 3 .. 16 /\ t[2] = "[" /\ t[z] = "m"
  BY <1>5 DEF IsColor
<1>8. Shows(c, q) /\ left = 0
  BY <1>4 DEF Coloring
<1> HIDE DEF c, d, q
<1>9. ASSUME Sane(d), SameBody(c, d), n < z, Reading(d, t, n)
      PROVE  Steady'
  <2>1. d.col = c.col /\ d.row = c.row /\ d.vram = c.vram /\ d.attr = c.attr
    BY <1>9 DEF SameBody, Body
  <2>2. Shows(d, q)
    BY <1>8, <1>9, <2>1, StillShows
  <2>3. Progress(d, "idle", ch, out)
    BY <1>5, <1>6, <1>9 DEF Progress
  <2>4. Coloring(d, pc', ch', left', out', page')
    BY <1>1, <1>8, <2>2, <2>3 DEF Coloring
  <2>5. ~d.attr.conceal
    BY <1>2, <2>1
  <2> QED BY <2>4, <2>5 DEF Steady, d
<1>10. CASE pc = "start"
  <2>1. n = 1 /\ n < z
    BY <1>6, <1>7, <1>10
  <2>2. AtRest(c) /\ d = StartEscape(c)
    BY <1>1, <1>2, <1>10 DEF AtRest
  <2>3. Sane(d) /\ d.escaped = "START" /\ SameBody(c, d)
    BY <2>2, StartEscapeIs
  <2>4. Reading(d, t, n)
    <3>1. n # 0 /\ ~(n >= 2)
      BY <2>1
    <3> QED BY <2>3, <3>1 DEF Reading
  <2> QED BY <1>9, <2>1, <2>3, <2>4
<1>11. CASE pc = "proc"
  <2>1. n >= 2 /\ d = proc_escape(c, t[n]) /\ Reading(c, t, n - 1)
    BY <1>1, <1>6, <1>11
  <2>2. CASE n = 2
    <3>1. c.escaped = "START"
      <4>1. n - 1 = 1
        BY <2>2
      <4> QED BY <2>1, <4>1 DEF Reading
    <3>2. d = proc_escape(c, "[")
      BY <1>7, <2>1, <2>2
    <3>3. Sane(d) /\ SameBody(c, d) /\ Reading(d, t, 2)
      BY <1>2, <1>5, <3>1, <3>2, ColorOpens
    <3>4. n < z
      BY <1>7, <2>2
    <3> QED BY <1>9, <2>2, <3>3, <3>4
  <2>3. CASE n > 2 /\ n < z
    <3> DEFINE m == n - 1
    <3>1. m \in 2 .. z - 2 /\ m + 1 = n
      BY <1>7, <2>3
    <3>2. Reading(c, t, m) /\ d = proc_escape(c, t[m + 1])
      BY <2>1, <3>1
    <3> HIDE DEF m
    <3>3. Sane(d) /\ SameBody(c, d) /\ Reading(d, t, m + 1)
      BY <1>2, <1>3, <1>5, <3>1, <3>2, ColorReads
    <3> QED BY <1>9, <2>3, <3>1, <3>3
  <2>4. CASE n > 2 /\ n = z
    <3> DEFINE m == n - 1
    <3>1. m \in Nat /\ m >= 2
      BY <1>7, <2>4
    <3>2. Reading(c, t, m) /\ d = proc_escape(c, "m")
      BY <1>7, <2>1, <2>4
    <3> HIDE DEF m
    <3>3. /\ AtRest(d) /\ ~d.attr.conceal
          /\ d.col = c.col /\ d.row = c.row /\ d.vram = c.vram
      BY <1>2, <1>3, <3>1, <3>2, ColorEnds
    <3>4. Sane(d) /\ d.escaped = "NONE"
      BY <3>3 DEF AtRest
    <3>5. Shows(d, q)
      BY <1>8, <3>3, <3>4, StillShows
    <3>6. Len(out) = 0
      BY <1>6, <1>7, <2>4 DEF Rest
    <3>7. Displays(d, 0, out, q)
      <4>1. Leads(q, out, q)
        BY <3>6, LeadsNowhere
      <4> QED BY <3>5, <4>1, Displaying
    <3>8. TextItems(out)
      <4>1. out \in Seq(Symbols)
        BY DEF Parsing, NoEscape, SequenceTail
      <4>2. \A i \in 1 .. 0 : FALSE
        OBVIOUS
      <4> QED BY <3>6, <4>1, <4>2, Zenon DEF TextItems
    <3>9. Finished(d, pc', ch') = d
      BY <1>1, Zenon DEF Finished
    <3>10. pc' \notin {"start", "proc"} /\ ~(0 > 1) /\ left' = 0
      BY <1>1, <1>8
    <3>11. Text(d, pc', ch', left', out', page')
      BY <1>1, <3>4, <3>7, <3>8, <3>9, <3>10 DEF Text
    <3> QED BY <3>3, <3>11 DEF Steady, d
  <2>5. n = 2 \/ (n > 2 /\ n < z) \/ (n > 2 /\ n = z)
    BY <1>7, <2>1
  <2> QED BY <2>2, <2>3, <2>4, <2>5
<1> QED BY <1>1, <1>10, <1>11

\* or ends a character.
LEMMA SteadyEnding ==
  ASSUME ConsoleInv, Steady, Ending
  PROVE  Steady'
<1>1. /\ pc \notin {"idle", "start", "proc"} /\ pc' \notin {"start", "proc"}
      /\ out' = out /\ page' = page
  BY DEF Ending, Newline, NewlineFit, PutChar, AdvanceCol, Wrap, NoWrap, WrapFit,
         Return, local, histories
<1>2. Text(con, pc, ch, left, out, page)
  <2>1. ~Progress(con, pc, ch, out)
    BY <1>1 DEF Progress
  <2> QED BY <2>1 DEF Steady, Coloring
<1>3. /\ con.escaped = "NONE" /\ TextItems(out) /\ (left > 1 => ch = SPACE)
      /\ Displays(Finished(con, pc, ch), left, out, page)
  BY <1>2 DEF Text
<1>4. /\ Displays(Finished(con', pc', ch'), left', out, page)
      /\ left' > 1 => ch' = SPACE
      /\ pc' = "idle" => left' = 0
  BY <1>3, EndingShown
<1>5. con'.escaped = "NONE" /\ ~con'.attr.conceal
  <2>1. SameMode(con, con')
    BY EndingKeepsMode
  <2> QED BY <1>3, <2>1 DEF SameMode, Mode, Steady
<1>6. Text(con', pc', ch', left', out', page')
  BY <1>1, <1>3, <1>4, <1>5 DEF Text
<1> QED BY <1>5, <1>6 DEF Steady
LEMMA InitPageInv ==
  ASSUME Init
  PROVE  PageInv
<1>1. /\ con = Console0 /\ out = <<>> /\ pc = "idle" /\ left = 0
      /\ page = P!EmptyPage /\ ~typed
  BY DEF Init
<1>2. Sane(Console0)
  <2>1. ConsoleInv
    BY InitConsoleInv
  <2> QED BY <1>1, <2>1 DEF ConsoleInv
<1>3. Shows(con, page)
  BY <1>1, <1>2, EmptyShown
<1>4. con.escaped = "NONE" /\ ~con.attr.conceal
  BY <1>1 DEF Console0, PlainAttr
<1>5. Len(out) = 0 /\ out \in Seq(Symbols)
  BY <1>1, EmptySeq
<1>6. TextItems(out)
  <2>1. \A i \in 1 .. 0 : FALSE
    OBVIOUS
  <2> QED BY <1>5, <2>1, Zenon DEF TextItems
<1>7. Displays(con, 0, out, page)
  <2>1. Leads(page, out, page)
    BY <1>5, LeadsNowhere
  <2> QED BY <1>3, <2>1, Displaying
<1>8. Finished(con, pc, ch) = con
  BY <1>1, Zenon DEF Finished
<1>9. pc \notin {"start", "proc"} /\ ~(0 > 1)
  BY <1>1
<1>10. Text(con, pc, ch, left, out, page)
  BY <1>1, <1>4, <1>6, <1>7, <1>8, <1>9 DEF Text
<1> QED BY <1>1, <1>4, <1>10 DEF PageInv, Steady

\* The echo of a key is what the page says of it.
LEMMA SteadyRead ==
  ASSUME ConsoleInv, Steady, NEW k \in Keys, console_read(k)
  PROVE  Steady'
<1> DEFINE i == <<"LEFT", SPACE, "LEFT">>
           j == <<k, "SHOW">>
           q == page
<1>1. /\ Ask(IF k = "BS" THEN i ELSE j)
      /\ con' = console_setcursor(con, -1, -1)
      /\ page' = IF k = "BS" THEN P!Backspace(q) ELSE P!Write(q, k)
  BY DEF console_read
<1>2. pc = "idle" /\ out = <<>>
  BY <1>1 DEF Ask
<1>3. Shows(con, q)
  BY <1>2, SteadyRest
<1>4. Shows(con', q)
  BY <1>1, <1>3, CursorShown
<1>5. SameMode(con, con')
  <2>1. Sane(con) /\ -1 \in Int
    BY <1>2 DEF ConsoleInv
  <2> QED BY <1>1, <2>1, SetCursorMode
<1>6. k \in STRING /\ k \notin {"ESC", "SHOW", "LEFT"}
  BY TextsAssumption
<1>7. CASE k = "BS"
  <2>1. SPACE \notin {"ESC", "BS", "SHOW", "LEFT"}
    BY Zenon DEF SPACE
  <2>2. TextItems(i)
    <3>1. i \in Seq(Symbols)
      <4> DEFINE S == Symbols
      <4>1. SPACE \in S /\ "LEFT" \in S
        BY DEF Symbols
      <4> HIDE DEF S
      <4>2. i \in Seq(S)
        BY <4>1
      <4> QED BY <4>2 DEF S
    <3>2. Len(i) = 3 /\ \A n \in 1 .. 3 : i[n] \in {"LEFT", SPACE}
      OBVIOUS
    <3>3. "LEFT" \notin {"ESC", "BS"}
      OBVIOUS
    <3> HIDE DEF i
    <3> QED BY <2>1, <3>1, <3>2, <3>3, Zenon DEF TextItems
  <2>3. Leads(q, i, P!Backspace(q))
    <3> DEFINE r == LeftOf(q)
               u == P!Write(r, SPACE)
    <3>1. Turned(q, "LEFT") = r /\ Turned(r, SPACE) = u /\ Turned(u, "LEFT") = LeftOf(u)
      BY <2>1, Zenon DEF Turned
    <3>2. Leads(q, i, Turned(Turned(Turned(q, "LEFT"), SPACE), "LEFT"))
      BY LeadsThree
    <3>3. P!Backspace(q) = LeftOf(u)
      BY <1>3, BackspaceIs
    <3> HIDE DEF r, u, i
    <3> QED BY <3>1, <3>2, <3>3
  <2>4. Ask(i) /\ page' = P!Backspace(q)
    BY <1>1, <1>7
  <2> HIDE DEF i
  <2> QED BY <1>4, <1>5, <2>2, <2>3, <2>4, SteadyAsk
<1>8. CASE k # "BS"
  <2>1. TextItems(j)
    <3>1. j \in Seq(Symbols)
      <4> DEFINE S == Symbols
      <4>1. k \in S /\ "SHOW" \in S
        BY <1>6 DEF Symbols
      <4> HIDE DEF S
      <4>2. j \in Seq(S)
        BY <4>1
      <4> QED BY <4>2 DEF S
    <3>2. Len(j) = 2 /\ \A n \in 1 .. 2 : j[n] \in {k, "SHOW"}
      OBVIOUS
    <3>3. "SHOW" \notin {"ESC", "BS"} /\ k \notin {"ESC", "BS"}
      BY <1>6, <1>8
    <3> HIDE DEF j
    <3> QED BY <3>1, <3>2, <3>3, Zenon DEF TextItems
  <2>2. Leads(q, j, P!Write(q, k))
    <3> DEFINE r == P!Write(q, k)
    <3>1. Turned(q, k) = r /\ Turned(r, "SHOW") = r
      BY <1>6, Zenon DEF Turned
    <3>2. Leads(q, j, Turned(Turned(q, k), "SHOW"))
      BY LeadsTwo
    <3> HIDE DEF r, j
    <3> QED BY <3>1, <3>2 DEF r
  <2>3. Ask(j) /\ page' = P!Write(q, k)
    BY <1>1, <1>8
  <2> HIDE DEF j
  <2> QED BY <1>4, <1>5, <2>1, <2>2, <2>3, SteadyAsk
<1> QED BY <1>7, <1>8

LEMMA SteadyText ==
  ASSUME ConsoleInv, Steady, NEW s \in Texts, PutText(s)
  PROVE  Steady'
<1>1. Ask(s) /\ page' = P!WriteAll(page, s) /\ con' = con /\ pc = "idle" /\ out = <<>>
  BY DEF PutText, Ask
<1>2. Shows(con', page) /\ SameMode(con, con')
  BY <1>1, SteadyRest DEF SameMode
<1> DEFINE S == STRING \ {"ESC", "BS", "SHOW", "LEFT"}
           l == Len(s)
<1>3. s \in Seq(S)
  BY TextsAssumption
<1>4. S \subseteq Symbols
  BY DEF Symbols
<1>5. \A k \in S : k \notin {"ESC", "BS"} /\ k \notin {"SHOW", "LEFT"}
  OBVIOUS
<1> HIDE DEF S
<1>6. s \in Seq(Symbols)
  BY <1>3, <1>4, SeqMonotonic
<1>7. \A n \in 1 .. l : s[n] \in S
  BY <1>3, ElementOfSeq
<1>8. l \in Nat
  BY <1>3, LenProperties
<1> HIDE DEF l
<1>9. /\ \A n \in 1 .. l : s[n] \notin {"ESC", "BS"}
      /\ \A n \in 1 .. l : s[n] \notin {"SHOW", "LEFT"}
  BY <1>5, <1>7, Zenon
<1>10. TextItems(s)
  BY <1>6, <1>9, Zenon DEF TextItems, l
<1>11. Leads(page, s, page')
  BY <1>1, <1>8, <1>9, LeadsAll DEF l
<1> QED BY <1>1, <1>2, <1>10, <1>11, SteadyAsk

LEMMA NextPageInv ==
  ASSUME CutInv, ParserInv, PageInv, [Next]_vars
  PROVE  PageInv'
<1>1. TypeOK /\ TypeOK'
  BY NextCutInv, NextParserInv, ConsoleTyped, PTL
<1> SUFFICES ASSUME tame' PROVE ~typed' /\ Steady'
  BY DEF PageInv
<1>2. /\ tame
      /\ \/ \E s \in Texts : PutText(s)
         \/ \E s \in Colors : PutColor(s)
         \/ \E k \in Keys : console_read(k)
         \/ console_write_main
         \/ UNCHANGED vars
  <2>1. CASE console_write_main
    BY <2>1 DEF console_write_main, MoveCursor, Enter, Escape, Overrun, Move,
       Limit, Restore, TestCol, LoadCol, DropCol, TestRow, LoadRow, DropRow,
       EndRestore, Newline, NewlineFit, PutChar, AdvanceCol, Wrap, NoWrap,
       WrapFit, local, histories
  <2> QED BY <2>1 DEF Next, vars, PutText, PutColor, PutSequence, console_read,
                      RtcPrint, histories
<1>3. Steady /\ ~typed
  BY <1>2 DEF PageInv
<1>4. Parsing /\ ConsoleInv
  BY <1>3 DEF ParserInv, Parsing, CutInv
<1>5. ~typed'
  <2>1. CASE console_write_main
    BY <1>3, <2>1 DEF console_write_main, MoveCursor, Enter, Escape, Overrun,
       Move, Limit, Restore, TestCol, LoadCol, DropCol, TestRow, LoadRow,
       DropRow, EndRestore, Newline, NewlineFit, PutChar, AdvanceCol, Wrap,
       NoWrap, WrapFit, local, histories
  <2> QED BY <1>2, <1>3, <2>1 DEF vars, PutText, PutColor, console_read, histories
<1>6. CASE Enter
  <2>1. con' = con
    BY <1>6 DEF Enter
  <2>2. CASE Text(con, pc, ch, left, out, page)
    <3>1. Text(con', pc', ch', left', out', page')
      BY <1>3, <1>6, <2>2, SteadyEnterText
    <3>2. ~con'.attr.conceal
      BY <1>3, <2>1 DEF Steady
    <3> QED BY <1>5, <3>1, <3>2 DEF Steady
  <2>3. CASE Coloring(con, pc, ch, left, out, page)
    <3>1. Coloring(con', pc', ch', left', out', page')
      BY <1>3, <1>4, <1>6, <2>3, SteadyEnterColor
    <3>2. ~con'.attr.conceal
      BY <1>3, <2>1 DEF Steady
    <3> QED BY <1>5, <3>1, <3>2 DEF Steady
  <2> QED BY <1>3, <1>5, <2>2, <2>3 DEF Steady
<1>7. CASE console_write_main
  <2>1. MoveCursor \/ Enter \/ Escape \/ Ending
    BY <1>4, <1>7, OnlyColors DEF console_write_main, Ending
  <2> QED BY <1>1, <1>3, <1>4, <1>5, <1>6, <2>1, SteadyMove, SteadyEscape, SteadyEnding
<1>8. CASE UNCHANGED vars
  BY <1>3, <1>8 DEF vars, Steady
<1> QED BY <1>2, <1>3, <1>4, <1>5, <1>7, <1>8, SteadyText, SteadyColor, SteadyRead

\* The screen is a window on the page: for every screen, text, color and key,
\* wrapping, tabs, newlines, scrolling, colors and backspaces lose and misplace
\* no character that is still on the screen, and the next goes where the page
\* says.
THEOREM ScreenIsWindow == Spec => []ScreenShowsPage
<1>1. Init => CutInv /\ ParserInv /\ PageInv
  BY InitConsoleInv, InitParserInv, InitPageInv DEF CutInv, ConsoleInv
<1>2. CutInv /\ ParserInv /\ PageInv /\ [Next]_vars
        => CutInv' /\ ParserInv' /\ PageInv'
  BY NextCutInv, NextParserInv, NextPageInv
<1>3. PageInv => ScreenShowsPage
  <2> SUFFICES ASSUME PageInv, tame, pc = "idle", out = <<>>
               PROVE  /\ [i \in Cells |-> con.vram[i].ch] = P!Shown(page)
                      /\ VPOS(con.col, con.row) = P!Offset(page)
    BY DEF ScreenShowsPage
  <2>1. Shows(con, page)
    BY SteadyRest DEF PageInv
  <2> QED BY <2>1, ShownIs
<1> QED BY <1>1, <1>2, <1>3, PTL DEF Spec
=============================================================================
