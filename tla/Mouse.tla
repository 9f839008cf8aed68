------------------------------- MODULE Mouse -------------------------------
(***************************************************************************)
(* The mouse driver: mouse_init talks to the keyboard controller with      *)
(* interrupts off, a port access at a time, while the controller and the   *)
(* keyboard go on; then mouse_isr assembles packets of three bytes and     *)
(* moves the pointer.                                                      *)
(***************************************************************************)
EXTENDS Integers, Sequences

CONSTANTS
  Headers,      \* first bytes of packets that the mouse sends
  Deltas,       \* movements that it sends, as bytes
  MaxPackets,   \* bound on packets
  MaxScans      \* bound on scan codes that arrive while mouse_init runs

ASSUME MouseAssumption ==
  /\ Headers \subseteq {b \in 0 .. 255 : (b \div 8) % 2 = 1}
  /\ Deltas \subseteq 0 .. 255

VARIABLES
  at,                       \* position in mouse_init
  status,                   \* what it read as the controller's settings
  input, output,            \* a byte for the controller, bytes for port 0x60
  target, config,           \* where the next data byte goes; the settings
  reporting, packets,       \* the mouse sends packets; how many it has sent
  mouse_cycle, mouse_byte, mouse_x, mouse_y,
  pointer,                  \* where the packets sent should have led
  scans, disturbed, wrapped \* history: scan codes; one, or a timeout, came
                            \* inside mouse_init; mouse_x left 8 bits

controller == <<input, output, target, config>>
driver == <<mouse_cycle, mouse_byte, mouse_x, mouse_y>>
sent == <<reporting, packets, pointer>>
mvars == <<at, status, controller, driver, sent, scans, disturbed, wrapped>>

-----------------------------------------------------------------------------
(* mouse_init, as the sequence of its port accesses and waits. *)

WaitIn == [op |-> "wait", type |-> 1]
WaitOut == [op |-> "wait", type |-> 0]
Command(v) == [op |-> "out", port |-> 100, val |-> v]
Data(v) == [op |-> "out", port |-> 96, val |-> v]

mouse_write(v) == <<WaitIn, Command(212), WaitIn, Data(v)>>

mouse_read == <<WaitOut, [op |-> "drop"]>>

\* Mutant of mouse_init: the settings are read without waiting for them.
mouse_init_NoWait ==
  <<WaitIn, Command(168), WaitIn, Command(32), [op |-> "in"],
    WaitIn, Command(96), WaitIn, [op |-> "settings"]>>
  \o mouse_write(246) \o mouse_read \o mouse_write(244) \o mouse_read

\* The settings with the mouse's interrupt enabled.
Or2(b) == IF (b \div 2) % 2 = 1 THEN b ELSE b + 2

\* Mutant of mouse_init: the second acknowledgement is left unread.
mouse_init_OneAck ==
  <<WaitIn, Command(168), WaitIn, Command(32), WaitOut, [op |-> "in"],
    WaitIn, Command(96), WaitIn, [op |-> "settings"]>>
  \o mouse_write(246) \o mouse_read \o mouse_write(244)

mouse_init ==
  <<WaitIn, Command(168), WaitIn, Command(32), WaitOut, [op |-> "in"],
    WaitIn, Command(96), WaitIn, [op |-> "settings"]>>
  \o mouse_write(246) \o mouse_read \o mouse_write(244) \o mouse_read

Initializing == at <= Len(mouse_init)
Op == mouse_init[at]
Goes == at' = at + 1

\* The status register says that the byte is gone, or that one is there.
Ready(type) == IF type = 1 THEN input = <<>> ELSE output # <<>>

mouse_wait ==
  /\ Initializing /\ Op.op = "wait" /\ Ready(Op.type)
  /\ Goes
  /\ UNCHANGED <<status, controller, driver, sent, scans, disturbed, wrapped>>

\* A hundred thousand polls, and mouse_init goes on all the same.
TimeOut ==
  /\ Initializing /\ Op.op = "wait" /\ ~Ready(Op.type)
  /\ Goes
  /\ disturbed' = TRUE
  /\ UNCHANGED <<status, controller, driver, sent, scans, wrapped>>

Write ==
  /\ Initializing /\ Op.op \in {"out", "settings"}
  /\ Goes
  /\ input' = IF Op.op = "out" THEN <<Op.port, Op.val>> ELSE <<96, Or2(status)>>
  /\ UNCHANGED <<status, output, target, config, driver, sent, scans, disturbed, wrapped>>

\* Port 0x60 repeats its last byte when there is no new one.
Read ==
  /\ Initializing /\ Op.op \in {"in", "drop"}
  /\ Goes
  /\ IF output = <<>>
     THEN UNCHANGED <<status, output>>
     ELSE /\ status' = IF Op.op = "in" THEN Head(output).byte ELSE status
          /\ output' = Tail(output)
  /\ UNCHANGED <<input, target, config, driver, sent, scans, disturbed, wrapped>>

-----------------------------------------------------------------------------
(* The controller, the keyboard and the mouse. *)

From(source, byte) == [source |-> source, byte |-> byte]
Answer(source, byte) == output' = Append(output, From(source, byte))

Obey ==
  /\ input # <<>>
  /\ input' = <<>>
  /\ \/ /\ input[1] = 100
        /\ target' = CASE input[2] = 96 -> "settings" [] input[2] = 212 -> "mouse"
                       [] OTHER -> "keyboard"
        /\ IF input[2] = 32 THEN Answer("settings", config) ELSE UNCHANGED output
        /\ UNCHANGED <<config, reporting>>
     \/ /\ input[1] = 96
        /\ target' = "keyboard"
        /\ config' = IF target = "settings" THEN input[2] ELSE config
        /\ IF target = "settings" THEN UNCHANGED output ELSE Answer(target, 250)
        /\ reporting' = IF target = "mouse" THEN input[2] = 244 ELSE reporting
  /\ UNCHANGED <<at, status, driver, packets, pointer, scans, disturbed, wrapped>>

\* A key is pressed or released while mouse_init runs.
ScanCode ==
  /\ Initializing /\ scans < MaxScans
  /\ \E byte \in {30, 158} : Answer("keyboard", byte)
  /\ scans' = scans + 1
  /\ disturbed' = TRUE
  /\ UNCHANGED <<at, status, input, target, config, driver, sent, wrapped>>

Int8(n) == ((n + 128) % 256) - 128
Half(byte) == LET n == Int8(byte) IN IF n < 0 THEN -((-n) \div 2) ELSE n \div 2
Limit(n, max) == IF n < 0 THEN 0 ELSE IF n > max THEN max ELSE n
Overflowed(header) == header >= 64

Send ==
  /\ ~Initializing /\ reporting /\ output = <<>> /\ packets < MaxPackets
  /\ \E h \in Headers, dx \in Deltas, dy \in Deltas :
       /\ output' = <<From("mouse", h), From("mouse", dx), From("mouse", dy)>>
       /\ pointer' = IF Overflowed(h) THEN pointer
                     ELSE <<Limit(pointer[1] + Half(dx), 79),
                            Limit(pointer[2] - Half(dy), 24)>>
       /\ wrapped' = (wrapped \/ pointer[1] + Half(dx) > 127)
  /\ packets' = packets + 1
  /\ UNCHANGED <<at, status, input, target, config, reporting, driver, scans, disturbed>>

\* The sum is stored in 8 bits before it is limited.
MoveX(byte) == Limit(Int8(mouse_x + Half(byte)), 79)
MoveY(byte) == Limit(Int8(mouse_y - Half(byte)), 24)

HasSync(byte) == (byte \div 8) % 2 = 1

\* Interrupts are on: the handler of the byte's source takes it from the port.
mouse_isr ==
  /\ ~Initializing /\ output # <<>> /\ output' = Tail(output)
  /\ Head(output).source = "mouse" /\ (config \div 2) % 2 = 1
  /\ LET byte == Head(output).byte IN
     /\ mouse_byte' = [mouse_byte EXCEPT ![mouse_cycle] = byte]
     /\ mouse_cycle' = IF mouse_cycle = 0 /\ ~HasSync(byte) THEN 0
                       ELSE (mouse_cycle + 1) % 3
     /\ IF mouse_cycle = 2 /\ ~Overflowed(mouse_byte[0])
        THEN mouse_x' = MoveX(mouse_byte[1]) /\ mouse_y' = MoveY(byte)
        ELSE UNCHANGED <<mouse_x, mouse_y>>
  /\ UNCHANGED <<at, status, input, target, config, sent, scans, disturbed, wrapped>>

OtherIsr ==
  /\ ~Initializing /\ output # <<>> /\ output' = Tail(output)
  /\ Head(output).source # "mouse"
  /\ UNCHANGED <<at, status, input, target, config, driver, sent, scans, disturbed, wrapped>>

MouseInit ==
  /\ at = 1 /\ status = 0 /\ input = <<>> /\ output = <<>>
  /\ target = "keyboard" /\ config = 69
  /\ reporting = FALSE /\ packets = 0 /\ pointer = <<0, 0>>
  /\ mouse_cycle = 0 /\ mouse_byte = [i \in 0 .. 2 |-> 0]
  /\ mouse_x = 0 /\ mouse_y = 0
  /\ scans = 0 /\ disturbed = FALSE /\ wrapped = FALSE

MouseNext ==
  \/ mouse_wait \/ TimeOut \/ Write \/ Read
  \/ Obey \/ ScanCode \/ Send \/ mouse_isr \/ OtherIsr

MouseSpec == MouseInit /\ [][MouseNext]_mvars

-----------------------------------------------------------------------------
\* mouse_init changes one setting of the controller that the keyboard shares,
\* the mouse's interrupt, if no scan code comes in between and no wait runs
\* out (mouse.c:114-122); a scan code would be written back as the settings.
SettingsKept == ~Initializing /\ input = <<>> /\ ~disturbed => config = 71

\* The pointer stays on the screen, and is where the packets sent lead, each
\* limited in turn: none is split, joined with the bytes of the next or with an
\* acknowledgement, if mouse_init was left alone and the sum of a move to the
\* right fits 8 bits.
PointerFollowsMouse ==
  /\ mouse_x \in 0 .. 79 /\ mouse_y \in 0 .. 24
  /\ ~Initializing /\ output = <<>> /\ input = <<>> /\ ~disturbed /\ ~wrapped =>
       <<mouse_x, mouse_y>> = pointer /\ mouse_cycle = 0
=============================================================================
