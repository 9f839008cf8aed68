------------------------------ MODULE Keyboard ------------------------------
(***************************************************************************)
(* From the keys of the keyboard to the line that the shell reads: the     *)
(* scan codes that dev/keyboard.c decodes in its interrupt handler, the    *)
(* ring buffer it fills, console_read and its echo, gets_s and the loop of *)
(* kmain.  The buffer is that of module KeyBuffer, step by step: the       *)
(* handler runs between any two memory accesses of main's dequeue and      *)
(* clear_queue.                                                            *)
(*                                                                         *)
(* Characters are codes 0 .. 255.  The modifier bits that a stroke carries *)
(* in its upper byte are dropped by console_read and are left out.         *)
(***************************************************************************)
EXTENDS KeyBuffer, Ctype

Sx == INSTANCE SequencesExt

CONSTANTS
  Keys,          \* the keys that are pressed
  LineSize,      \* n of gets_s
  Shutdown       \* the line that ends the shell

ASSUME LineSizeAssumption == LineSize \in Nat \ {0}

VARIABLES
  num_lock,         \* the keyboard's own Num Lock: no code in dev/ ever sets it
  down, caps,       \* the keys held, and whether Caps Lock was tapped odd times
  wire,             \* scan codes the keyboard has sent and main not yet seen
  presses,          \* bounded by MaxKeys: a press makes at most one stroke
  mod_state, led_state,    \* the driver's statics beside the buffer
  at, str,          \* the shell: where it is, and what gets_s has stored
  shown,            \* the text after the last newline of the screen
  (* history *)
  text,             \* the character of each stroke, by the stroke's number
  meant,            \* what was typed since the flush
  crossed,          \* a shift went down inside the keyboard's own shift
  blurred,          \* since the flush, a key was typed under the wrong shifts
  plain             \* gets_s and the echo treated each key alike

keyboard == <<num_lock, down, caps, wire, presses, crossed>>
driver == <<mod_state, led_state>>
line == <<str, shown, plain>>
vars == <<buffervars, keyboard, driver, at, line, text, meant, blurred>>

BS == 8
TAB == 9
NL == 10
PROMPT == <<62, 32>>

\* Scan codes of the keys, and 0xE0 before those that older keyboards lack.
Code == [LShift |-> 42, RShift |-> 54, Caps |-> 58, Num |-> 69, Scroll |-> 70,
         Esc |-> 1, One |-> 2, Back |-> 14, Tab |-> 15, Enter |-> 28, A |-> 30,
         F1 |-> 59, Up |-> 72]

ASSUME KeysAssumption == Keys \subseteq DOMAIN Code
UP_FLAG == 128
PREFIX == 224

\* The entries of keyboard_map and keyboard_map_shift for those keys.
keyboard_map == [c \in {1, 2, 14, 15, 28, 30, 59, 72} |->
  CASE c = 1 -> 27 [] c = 2 -> 49 [] c = 14 -> BS [] c = 15 -> TAB
    [] c = 28 -> NL [] c = 30 -> 97 [] c = 59 -> 241 [] c = 72 -> 56]
keyboard_map_shift == [keyboard_map EXCEPT ![2] = 33, ![30] = 65]

\* What console_read gets for a stroke: its character.
Char(n) == IF n = 0 THEN 0 ELSE text[n]

-----------------------------------------------------------------------------
(***************************************************************************)
(* The keyboard.  With Num Lock lit it wraps a prefixed key in a shift of  *)
(* its own; without, it takes the shifts held back meanwhile.  What it     *)
(* sends goes by the shifts held at the time of the press or the release.  *)
(***************************************************************************)
Shifts == {"LShift", "RShift"}

ForHeld(k, code) == IF k \in down THEN <<PREFIX, code>> ELSE <<>>

ShiftBefore ==
  IF ~num_lock
  THEN ForHeld("LShift", 42 + UP_FLAG) \o ForHeld("RShift", 54 + UP_FLAG)
  ELSE IF down \intersect Shifts = {} THEN <<PREFIX, 42>> ELSE <<>>

ShiftAfter ==
  IF ~num_lock
  THEN ForHeld("LShift", 42) \o ForHeld("RShift", 54)
  ELSE IF down \intersect Shifts = {} THEN <<PREFIX, 42 + UP_FLAG>> ELSE <<>>

\* The codes of one key, without the keyboard's own shifts.
Sent(k, code) == IF k = "Up" THEN <<PREFIX, code>> ELSE <<code>>

Press(k) ==
  /\ wire = <<>>
  /\ presses < MaxKeys
  /\ k \notin down
  /\ presses' = presses + 1
  /\ down' = down \union {k}
  /\ wire' = (IF k = "Up" THEN ShiftBefore ELSE <<>>) \o Sent(k, Code[k])
  /\ crossed' = (crossed \/ (k = "RShift" /\ num_lock /\ "Up" \in down))
  /\ UNCHANGED <<num_lock, caps, buffervars, driver, at, line, text, meant, blurred>>

\* A key held long enough is sent again.
Repeat(k) ==
  /\ wire = <<>>
  /\ presses < MaxKeys
  /\ k \in down
  /\ presses' = presses + 1
  /\ wire' = Sent(k, Code[k])
  /\ UNCHANGED <<num_lock, down, caps, crossed, buffervars, driver, at, line,
                 text, meant, blurred>>

Release(k) ==
  /\ wire = <<>>
  /\ k \in down
  /\ down' = down \ {k}
  /\ caps' = IF k = "Caps" THEN ~caps ELSE caps
  /\ wire' = Sent(k, Code[k] + UP_FLAG)
             \o (IF k = "Up" THEN ShiftAfter ELSE <<>>)
  /\ crossed' = (crossed /\ k # "LShift")
  /\ UNCHANGED <<num_lock, presses, buffervars, driver, at, line, text, meant,
                 blurred>>

(***************************************************************************)
(* keyboard_isr.                                                           *)
(***************************************************************************)
Toggle(S, x) == (S \ {x}) \union ({x} \ S)

\* Mutant of ModAfter: the right shift is not released.
ModAfter_KeepsRight(code) ==
  CASE code = 42  -> mod_state \union {"LSHIFT"}
    [] code = 170 -> mod_state \ {"LSHIFT"}
    [] code = 54  -> mod_state \union {"RSHIFT"}
    [] OTHER -> mod_state

ModAfter(code) ==
  CASE code = 42  -> mod_state \union {"LSHIFT"}
    [] code = 170 -> mod_state \ {"LSHIFT"}
    [] code = 54  -> mod_state \union {"RSHIFT"}
    [] code = 182 -> mod_state \ {"RSHIFT"}
    [] OTHER -> mod_state

LedAfter(code) ==
  CASE code = 186 -> Toggle(led_state, "CAPS")
    [] code = 197 -> Toggle(led_state, "NUM")
    [] code = 198 -> Toggle(led_state, "SCROLL")
    [] OTHER -> led_state

\* Mutant of new_char: either of shift and Caps Lock selects capitals.
new_char_Either(code) ==
  IF code \notin DOMAIN keyboard_map THEN 0
  ELSE IF mod_state # {} \/ "CAPS" \in led_state
  THEN keyboard_map_shift[code]
  ELSE keyboard_map[code]

\* Keys with a case of their own in the switch, and break codes, give none.
new_char(code) ==
  IF code \notin DOMAIN keyboard_map THEN 0
  ELSE IF (mod_state = {}) # ("CAPS" \notin led_state)
  THEN keyboard_map_shift[code]
  ELSE keyboard_map[code]

\* What its user means by a key: capitals by exactly one of shift and Caps.
Meaning(code) ==
  IF (down \intersect Shifts # {}) # caps
  THEN keyboard_map_shift[code] ELSE keyboard_map[code]

keyboard_isr ==
  /\ wire # <<>>
  /\ wire' = Tail(wire)
  /\ LET code == Head(wire)
         ch == new_char(code)
     IN  /\ mod_state' = ModAfter(code)
         /\ led_state' = LedAfter(code)
         /\ IF ch # 0
            THEN KeyStroke /\ text' = Append(text, ch)
            ELSE UNCHANGED <<buffervars, text>>
         /\ meant' = IF code \in DOMAIN keyboard_map
                     THEN Append(meant, Meaning(code)) ELSE meant
         /\ blurred' = (blurred \/ (/\ code \in DOMAIN keyboard_map
                                    /\ code # Code.Up
                                    /\ "Up" \in down \/ crossed))
  /\ UNCHANGED <<num_lock, down, caps, presses, crossed, at, line>>

-----------------------------------------------------------------------------
(***************************************************************************)
(* The shell.                                                              *)
(***************************************************************************)
\* puts("\e[0m> ").
PutPrompt ==
  /\ at = "prompt"
  /\ at' = "flush"
  /\ shown' = PROMPT
  /\ UNCHANGED <<buffervars, keyboard, driver, str, plain, text, meant, blurred>>

\* console_desc.flush(), and then the start of gets_s.
console_flush ==
  /\ at = "flush"
  /\ keyboard_clear_buffer
  /\ at' = IF pc = "clear_out" THEN "read" ELSE "flush"
  /\ str' = <<>>
  /\ plain' = TRUE
  /\ IF pc = "idle"
     THEN meant' = <<>> /\ blurred' = FALSE
     ELSE UNCHANGED <<meant, blurred>>
  /\ UNCHANGED <<keyboard, driver, shown, text>>

\* A step of the keyboard_get_key that console_read calls.  From an empty
\* buffer it is 0, with nothing to echo and nothing to store.
GetKey ==
  /\ at = "read"
  /\ keyboard_get_key
  /\ at' = IF pc \in {"test_head", "wrap_head"} /\ pc' = "idle"
           THEN "got" ELSE "read"
  /\ UNCHANGED <<keyboard, driver, line, text, meant, blurred>>

\* Mutant of Echo: a backspace does not blank the cell before the cursor.
Echo_NoErase(s, ch) ==
  IF ch = NL THEN {<<>>}
  ELSE IF ch \notin ASCII THEN {s, Append(s, ch)}
  ELSE IF isprint(ch) \/ isspace(ch) THEN {Append(s, ch)}
  ELSE {s}

\* What console_read may do to the text on the cursor's line.  Beyond the
\* table of ctype.h isprint and isspace read whatever memory is there.
Echo(s, ch) ==
  IF ch = NL THEN {<<>>}
  ELSE IF ch \notin ASCII THEN {s, Append(s, ch)}
  ELSE IF isprint(ch) \/ isspace(ch) THEN {Append(s, ch)}
  ELSE IF ch = BS /\ s # <<>> THEN {Sx!Front(s)}
  ELSE {s}

\* One turn of gets_s on the line s, but for the end at a newline.
Edit(s, ch) ==
  IF ch = BS THEN IF s # <<>> THEN Sx!Front(s) ELSE s
  ELSE IF ch \notin {0, TAB, NL} /\ Len(s) < LineSize - 1 THEN Append(s, ch)
  ELSE s

\* A key on which the echo and gets_s differ.
Uneven(ch) ==
  IF ch = BS THEN str = <<>>
  ELSE ch \notin ASCII \/ ~isprint(ch) \/ Len(str) >= LineSize - 1

\* The rest of console_read and a turn of gets_s.
gets_s ==
  /\ at = "got"
  /\ LET ch == Char(ret)
     IN  /\ shown' \in Echo(shown, ch)
         /\ str' = Edit(str, ch)
         /\ plain' = (plain /\ (ch \in {0, NL} \/ ~Uneven(ch)))
         /\ at' = IF ch = NL THEN "run" ELSE "read"
  /\ UNCHANGED <<buffervars, keyboard, driver, text, meant, blurred>>

\* The commands write whole lines and touch nothing that is modelled here.
RunCommand ==
  /\ at = "run"
  /\ at' = IF str = Shutdown THEN "halt" ELSE "prompt"
  /\ UNCHANGED <<buffervars, keyboard, driver, line, text, meant, blurred>>

shell_loop == PutPrompt \/ console_flush \/ GetKey \/ gets_s \/ RunCommand

Init ==
  /\ BufferInit
  /\ num_lock \in BOOLEAN
  /\ down = {} /\ caps = FALSE /\ wire = <<>> /\ presses = 0 /\ crossed = FALSE
  /\ mod_state = {} /\ led_state = {}
  /\ at = "prompt" /\ str = <<>> /\ shown = <<>> /\ plain = TRUE
  /\ text = <<>> /\ meant = <<>> /\ blurred = FALSE

Next ==
  \/ \E k \in Keys : Press(k)
  \/ \E k \in Keys : Repeat(k)
  \/ \E k \in Keys : Release(k)
  \/ keyboard_isr
  \/ shell_loop

\* Interrupts are enabled while the shell runs and main is never starved.
Spec == Init /\ [][Next]_vars /\ WF_vars(keyboard_isr) /\ WF_vars(shell_loop)

-----------------------------------------------------------------------------
\* The line s after the keys of t, up to the first Enter.
EditAll(s, t) ==
  LET edited[n \in 0 .. Len(t)] ==
        IF n = 0 THEN s
        ELSE IF \E i \in 1 .. n : t[i] = NL THEN edited[n - 1]
        ELSE Edit(edited[n - 1], t[n])
  IN  edited[Len(t)]

Modifiers == {"LSHIFT", "RSHIFT"}

TypeOK ==
  /\ BufferTypeOK
  /\ num_lock \in BOOLEAN
  /\ down \subseteq Keys /\ wire \in Seq(1 .. 255)
  /\ mod_state \subseteq Modifiers
  /\ led_state \subseteq {"CAPS", "NUM", "SCROLL"}
  /\ at \in {"prompt", "flush", "read", "got", "run", "halt"}
  /\ text \in Seq(1 .. 255) /\ Len(text) = pressed
  /\ str \in Seq(1 .. 255) /\ Len(str) < LineSize

\* With no prefixed key held and every code delivered, the driver's shift bits
\* are those of the keys held, whatever is pressed, held and released around
\* the keyboard's own shifts (keyboard.c, mod_state); only a right shift that
\* goes down inside the keyboard's own left shift leaves that one behind,
\* until the left shift itself is released.
ModifiersFollowKeys ==
  wire = <<>> /\ "Up" \notin down =>
    LET held == {m \in Modifiers : \/ m = "LSHIFT" /\ "LShift" \in down
                                   \/ m = "RSHIFT" /\ "RShift" \in down}
    IN  mod_state = held \/ (crossed /\ mod_state = held \union {"LSHIFT"})

\* A stroke since the flush was dropped, or typed under the wrong shifts.
lost == overflow \/ raced \/ blurred

\* The strokes that have not reached the line, the one in dequeue's hands first.
Coming ==
  IF at = "got" \/ pc \in {"load_head", "store_head", "test_head", "wrap_head"}
  THEN <<ret>> \o unread
  ELSE unread

CharsOf(s) == [n \in DOMAIN s |-> Char(s[n])]

\* The line gets_s has, completed by the strokes that have not reached it, is
\* what the user typed since the flush, edited: wherever the handler interrupts
\* dequeue and the flush, nothing is lost, doubled, reordered or in the wrong
\* case from the key to the line.
LineIsTyped ==
  ~lost =>
    /\ at \in {"read", "got"} => EditAll(str, CharsOf(Coming)) = EditAll(<<>>, meant)
    /\ at = "run" => str = EditAll(<<>>, meant)

\* The line on the screen is the line gets_s will return, until a key comes
\* that only one of the two heeds: a tab, a key without a picture, a character
\* past the buffer's end, a backspace on an empty line.
ScreenShowsLine == at \in {"read", "got"} /\ plain => shown = PROMPT \o str

\* What q->size will count once the update of it under way is stored.
Counted == IF pc = "store_size" THEN reg ELSE size

\* An Enter that q->size counts ends the line, if no overflow drops it.  One
\* whose count the decrement of dequeue overwrote (queue.c:59) is not seen
\* before another key has come.
EnterEndsLine ==
  (/\ at = "read" /\ ~lost
   /\ \E n \in 1 .. Len(unread) : n <= Counted /\ Char(unread[n]) = NL)
  ~> (at = "run" \/ lost)
=============================================================================
