------------------------------ MODULE Console ------------------------------
(***************************************************************************)
(* The console of hal/console.c used by the kernel's main thread (puts,    *)
(* printf, getchar) and by the real-time clock's interrupt handler, which  *)
(* prints the time once a minute over whatever main is doing.              *)
(*                                                                         *)
(* Main goes through console_write in the steps at which an interrupt      *)
(* finds a different state: the character read, the cell stored, the       *)
(* column advanced, the line ended; in an escape sequence the cursor       *)
(* stored, then limited, and a saved cursor tested, loaded and dropped.    *)
(* A scroll, an erasure, or a character of a sequence that sets a          *)
(* parameter or the colors is one step.  The handler is not interrupted:   *)
(* its printf is one step.                                                 *)
(***************************************************************************)
EXTENDS ConsoleOps

CONSTANTS
  Texts,        \* strings of text that main writes
  Colors,       \* escape sequences of the kernel's, which set colors
  Sequences,    \* strings with any characters, as the user typed them
  Keys,         \* the keys console_read can find
  MaxCalls,     \* bound on main's strings and keys
  MaxPrints     \* bound on the handler's messages

ASSUME BoundsAssumption == MaxCalls \in Nat /\ MaxPrints \in Nat

\* Tab stops do not straddle the lines.
ASSUME TabAssumption == VCOLS % TAB_WIDTH = 0

\* Text begins no escape sequence, and console_read echoes what is printable
\* or a space.  "SHOW" and "LEFT" are no characters: see console_read.
ASSUME TextsAssumption ==
  /\ \A s \in Texts : s \in Seq(STRING \ {"ESC", "BS", "SHOW", "LEFT"})
  /\ Keys \subseteq STRING \ {"ESC", "SHOW", "LEFT"}

\* The colors in the kernel's own strings are set by short sequences, which do
\* not conceal: no parameter is 8, or so long that it wraps to 8.
ASSUME ColorsAssumption ==
  \A s \in Colors :
    /\ s \in Seq(STRING) /\ Len(s) \in 3 .. 16
    /\ s[1] = "ESC" /\ s[2] = "[" /\ s[Len(s)] = "m"
    /\ \A n \in 3 .. Len(s) - 1 : s[n] \in (Digits \ {"8"}) \union {";"}
    /\ \A n \in 3 .. Len(s) - 3 : ";" \in {s[n], s[n + 1], s[n + 2]}

\* The line a user typed is printed as it is: gets_s stores the key Esc too.
ASSUME SequencesAssumption ==
  \A s \in Sequences : s \in Seq(STRING \ {"SHOW", "LEFT"})

VARIABLES
  con,       \* the console's static variables
  out,       \* what main has still to do: characters, or moves of the cursor
  pc, ch,    \* the step of console_write main is at, and its argument
  left,      \* spaces of a tab still to be written, this one included
  calls, prints,    \* main's strings and keys, the handler's messages
  page,      \* history: the page main has written
  tame,      \* history: only text and colors were written, and only by main
  typed,     \* history: main has written what a user typed
  cut        \* history: a message came between the test of a saved coordinate
             \* and its use

vars == <<con, out, pc, ch, left, calls, prints, page, tame, typed, cut>>
histories == <<page, tame, typed, cut>>
local == <<out, calls, prints, histories>>

P == INSTANCE Page WITH TabWidth <- TAB_WIDTH

Init ==
  /\ con = Console0
  /\ out = <<>>
  /\ pc = "idle"
  /\ ch = "NL"
  /\ left = 0
  /\ calls = 0
  /\ prints = 0
  /\ page = P!EmptyPage
  /\ tame = TRUE
  /\ typed = FALSE
  /\ cut = FALSE

(***************************************************************************)
(* What main asks of the console.                                          *)
(***************************************************************************)
Ask(items) ==
  /\ pc = "idle"
  /\ out = <<>>
  /\ calls < MaxCalls
  /\ calls' = calls + 1
  /\ out' = items
  /\ UNCHANGED <<pc, ch, left, prints>>

PutText(s) ==
  Ask(s) /\ page' = P!WriteAll(page, s) /\ UNCHANGED <<con, tame, typed, cut>>

PutColor(s) == Ask(s) /\ UNCHANGED <<con, histories>>

\* The kernel's perror of a command it does not know.
PutSequence(s) ==
  Ask(s) /\ tame' = FALSE /\ typed' = TRUE /\ UNCHANGED <<con, page, cut>>

\* console_read finds key k and echoes it: "SHOW" stands for
\* console_setcursor(-1, -1) and "LEFT" for console_mvcursor(-1).
console_read(k) ==
  /\ Ask(IF k = "BS" THEN <<"LEFT", SPACE, "LEFT">> ELSE <<k, "SHOW">>)
  /\ con' = console_setcursor(con, -1, -1)
  /\ page' = IF k = "BS" THEN P!Backspace(page) ELSE P!Write(page, k)
  /\ UNCHANGED <<tame, typed, cut>>

(***************************************************************************)
(* console_write by main.                                                  *)
(***************************************************************************)
MoveCursor ==
  /\ pc = "idle"
  /\ out # <<>>
  /\ \/ Head(out) = "SHOW" /\ con' = console_setcursor(con, -1, -1)
     \/ Head(out) = "LEFT" /\ con' = console_mvcursor(con, -1)
  /\ out' = Tail(out)
  /\ UNCHANGED <<pc, ch, left, calls, prints, histories>>

\* The branch console_write takes for character k.
Branch(k) ==
  IF con.escaped # "NONE" THEN "proc"
  ELSE IF k = "ESC" THEN "start"
  ELSE IF con.attr.conceal THEN "idle"
  ELSE IF k = "NL" THEN "newline"
  ELSE IF isprint(k) \/ k = "TAB" THEN "put"
  ELSE "wrap"

Enter ==
  /\ pc = "idle"
  /\ out # <<>>
  /\ Head(out) \notin {"SHOW", "LEFT"}
  /\ LET k == Head(out)
     IN  /\ pc' = Branch(k)
         /\ ch' = IF pc' = "put" /\ k = "TAB" THEN SPACE ELSE k
         /\ left' = IF pc' = "put" /\ k = "TAB" THEN TabCount(con) ELSE 0
  /\ out' = Tail(out)
  /\ UNCHANGED <<con, calls, prints, histories>>

\* A sequence begins, or goes on with a character that is done in one step.
Escape ==
  /\ \/ pc = "start" /\ con' = StartEscape(con)
     \/ /\ pc = "proc"
        /\ ~(con.escaped = "READ" /\ ch \in Moves \union {"u"})
        /\ ~Overruns(con, ch)
        /\ con' = proc_escape(con, ch)
  /\ pc' = "idle"
  /\ UNCHANGED <<ch, left, local>>

\* What happens outside the buffer of parameters depends on where the build
\* puts the statics: main is not followed further.
Overrun ==
  /\ pc = "proc"
  /\ Overruns(con, ch)
  /\ pc' = "overrun"
  /\ UNCHANGED <<con, ch, left, local>>

\* A letter that moves the cursor: stored, then limited.
Move ==
  /\ pc = "proc"
  /\ con.escaped = "READ" /\ ch \in Moves
  /\ con' = StoreCursor(con, MoveCol(con, ch), MoveRow(con, ch))
  /\ pc' = "limit"
  /\ UNCHANGED <<ch, left, local>>

Limit ==
  /\ pc = "limit"
  /\ con' = EndEscape(console_setcursor(con, -1, -1))
  /\ pc' = "idle"
  /\ UNCHANGED <<ch, left, local>>

\* ESC [ u: the saved column is tested, loaded and dropped, then the row.
TestCol ==
  /\ pc = "proc"
  /\ con.escaped = "READ" /\ ch = "u"
  /\ pc' = IF con.saved_col >= 0 THEN "load_col" ELSE "test_row"
  /\ UNCHANGED <<con, ch, left, local>>

LoadCol ==
  /\ pc = "load_col"
  /\ con' = [con EXCEPT !.col = con.saved_col]
  /\ pc' = "drop_col"
  /\ UNCHANGED <<ch, left, local>>

DropCol ==
  /\ pc = "drop_col"
  /\ con' = [con EXCEPT !.saved_col = -1]
  /\ pc' = "test_row"
  /\ UNCHANGED <<ch, left, local>>

TestRow ==
  /\ pc = "test_row"
  /\ pc' = IF con.saved_row >= 0 THEN "load_row" ELSE "end"
  /\ UNCHANGED <<con, ch, left, local>>

LoadRow ==
  /\ pc = "load_row"
  /\ con' = [con EXCEPT !.row = con.saved_row]
  /\ pc' = "drop_row"
  /\ UNCHANGED <<ch, left, local>>

DropRow ==
  /\ pc = "drop_row"
  /\ con' = [con EXCEPT !.saved_row = -1]
  /\ pc' = "end"
  /\ UNCHANGED <<ch, left, local>>

EndRestore ==
  /\ pc = "end"
  /\ con' = EndEscape(con)
  /\ pc' = "idle"
  /\ UNCHANGED <<ch, left, local>>

Restore ==
  TestCol \/ LoadCol \/ DropCol \/ TestRow \/ LoadRow \/ DropRow \/ EndRestore

Newline ==
  /\ pc = "newline"
  /\ con' = NextLine(con)
  /\ pc' = "newline_fit"
  /\ UNCHANGED <<ch, left, local>>

NewlineFit ==
  /\ pc = "newline_fit"
  /\ con' = ShowLine(con)
  /\ pc' = "wrap"
  /\ UNCHANGED <<ch, left, local>>

PutChar ==
  /\ pc = "put"
  /\ con' = PutCell(con, ch)
  /\ pc' = "advance"
  /\ UNCHANGED <<ch, left, local>>

AdvanceCol ==
  /\ pc = "advance"
  /\ con' = NextCol(con)
  /\ pc' = "wrap"
  /\ UNCHANGED <<ch, left, local>>

\* console_write returns, to main or to the loop of a tab, which ends early
\* on a new line.
Return(c) ==
  /\ left' = IF left = 0 \/ c.col = 0 THEN 0 ELSE left - 1
  /\ pc' = IF left = 0 THEN "idle" ELSE IF left' = 0 THEN "wrap" ELSE "put"

Wrap ==
  /\ pc = "wrap"
  /\ LineEnds(con)
  /\ con' = NextLine(con)
  /\ pc' = "wrap_fit"
  /\ UNCHANGED <<ch, left, local>>

NoWrap ==
  /\ pc = "wrap"
  /\ ~LineEnds(con)
  /\ Return(con)
  /\ UNCHANGED <<con, ch, local>>

WrapFit ==
  /\ pc = "wrap_fit"
  /\ con' = ShowLine(con)
  /\ Return(con')
  /\ UNCHANGED <<ch, local>>

console_write_main ==
  \/ MoveCursor \/ Enter \/ Escape \/ Overrun \/ Move \/ Limit \/ Restore
  \/ Newline \/ NewlineFit \/ PutChar \/ AdvanceCol \/ Wrap \/ NoWrap \/ WrapFit

(***************************************************************************)
(* rtc_isr at a full minute: save the cursor, go to the top left corner,   *)
(* erase the line, print the time in reverse video, restore the cursor.    *)
(***************************************************************************)
Message ==
  <<"ESC", "[", "s", "ESC", "[", "0", ";", "0", "H", "ESC", "[", "K",
    "ESC", "[", "7", "m", "t", "t", "ESC", "[", "2", "7", "m",
    "ESC", "[", "u">>

RtcPrint ==
  /\ pc # "overrun"
  /\ prints < MaxPrints
  /\ prints' = prints + 1
  /\ con' = WriteString(con, Message)
  /\ tame' = FALSE
  /\ cut' = (cut \/ pc \in {"load_col", "load_row"})
  /\ UNCHANGED <<out, pc, ch, left, calls, page, typed>>

Next ==
  \/ \E s \in Texts : PutText(s)
  \/ \E s \in Colors : PutColor(s)
  \/ \E s \in Sequences : PutSequence(s)
  \/ \E k \in Keys : console_read(k)
  \/ console_write_main
  \/ RtcPrint

Spec == Init /\ [][Next]_vars

-----------------------------------------------------------------------------
Attrs == [bg : 0 .. 7 \union {15}, fg : 0 .. 7 \union {15},
          reverse : BOOLEAN, bright : BOOLEAN, conceal : BOOLEAN]

\* The console's statics, with main at step p of console_write.
Statics(c, p) ==
  /\ c.col \in (IF p = "limit" THEN 0 .. 127 ELSE 0 .. VCOLS)
  /\ c.row \in (IF p = "limit" THEN 0 .. 127 ELSE 0 .. VROWS)
  /\ c.attr \in Attrs
  /\ c.escaped \in {"NONE", "START", "READ"}
  /\ c.buffer \in [0 .. 15 -> -128 .. 127]
  /\ c.saved_col \in -1 .. VCOL_MAX /\ c.saved_row \in -1 .. VROW_MAX
  /\ DOMAIN c.vram = Cells
  /\ c.cursor \in Cells

\* The parser stays in its buffer of parameters as long as main writes the
\* kernel's own strings: what a user typed takes it as far as it likes.
TypeOK ==
  /\ pc \in {"idle", "start", "proc", "overrun", "limit", "load_col", "drop_col",
             "test_row", "load_row", "drop_row", "end", "newline",
             "newline_fit", "put", "advance", "wrap", "wrap_fit"}
  /\ calls \in 0 .. MaxCalls /\ prints \in 0 .. MaxPrints
  /\ cut \/ (Statics(con, pc) /\ left \in 0 .. TAB_WIDTH)
  /\ typed \/ (con.pos \in 0 .. 15 /\ pc # "overrun")

\* Every character main writes is stored in a cell of the screen, and between
\* two characters the cursor is on the screen, whatever a user has typed and
\* wherever the handler's message falls; but for a message between the test
\* of a saved coordinate and its use, which drops what main then uses.
CursorOnScreen ==
  ~cut /\ pc \in {"idle", "put", "advance"} =>
    con.col \in 0 .. VCOL_MAX /\ con.row \in 0 .. VROW_MAX

\* The screen is a window on the page main has written: wrapping, tabs,
\* newlines, scrolling and backspaces neither lose nor misplace a character
\* that is still on the screen, and the next one goes where the page says.
ScreenShowsPage ==
  tame /\ pc = "idle" /\ out = <<>> =>
    /\ [i \in Cells |-> con.vram[i].ch] = P!Shown(page)
    /\ VPOS(con.col, con.row) = P!Offset(page)

\* Main is between two characters, or in one, with nothing pending that the
\* handler's message disturbs.
Undisturbed ==
  /\ con.escaped = "NONE"
  /\ con.col <= VCOL_MAX /\ con.row <= VROW_MAX
  /\ ~con.attr.reverse
  /\ con.saved_col = -1
  /\ ~cut

KeepsMain(c, d) ==
  /\ d.col = c.col /\ d.row = c.row
  /\ d.attr = c.attr
  /\ d.escaped = c.escaped
  /\ \A i \in Cells : i >= VCOLS => d.vram[i] = c.vram[i]

\* The message of rtc_isr leaves main's console as it was, but for the top
\* line, when it does not come inside a sequence or the end of a line.
MessageTransparent == [][prints' # prints /\ Undisturbed => KeepsMain(con, con')]_vars

\* console.c: ESC [ u is to "Restore cursor position".  The message saves and
\* restores it, so the cursor is where it was, also when the message comes
\* inside an escape sequence of main's.
MessageRestoresCursorInSequence ==
  [][prints' # prints /\ con.escaped # "NONE" =>
       con'.col = con.col /\ con'.row = con.row]_vars
=============================================================================
