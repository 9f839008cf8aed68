------------------------------- MODULE Serial -------------------------------
(***************************************************************************)
(* The serial ports of dev/com.c: a flag, two queues and the registers of  *)
(* the device for each of four lines.  com_isr does nothing, so no         *)
(* received character is ever queued and none that is written is sent.     *)
(* A queue uses one word more than the array it is given, and the arrays   *)
(* of the lines lie one behind the other: a line's last slot is the first  *)
(* of the next line.                                                       *)
(***************************************************************************)
EXTENDS QueueOps

CONSTANTS
  Calls,       \* the line numbers that callers pass
  Settings,    \* the settings they pass to com_open
  Chars        \* the characters they write

VARIABLES
  is_open, buffer_in, buffer_out,
  uart             \* registers: interrupt enable, line control, divisor

svars == <<is_open, buffer_in, buffer_out, uart>>

ComLines == 1 .. 4
COM_DLAB == 128
COM_INTERRUPT_ENABLE == 3
COM_BAUD_MAX == 115200

\* None, odd, even, mark and space.
COM_PARITY == {0, 8, 24, 40, 56}

\* COM_BUFFER_SIZE.
ASSUME BufferAssumption == Capacity > 0

ASSUME SettingsAssumption == \A s \in Settings : s.parity \in COM_PARITY

-----------------------------------------------------------------------------
\* The divisor latch is behind the first two ports while DLAB is set.
Latched(u) == u.lcr >= COM_DLAB

Behind(u, reg) ==
  IF reg = 3 THEN "lcr"
  ELSE IF reg = 0 THEN "dll"
  ELSE IF Latched(u) THEN "dlm" ELSE "ier"

Outb(u, reg, val) ==
  IF reg = 0 /\ ~Latched(u) THEN u     \* the transmitter
  ELSE [u EXCEPT ![Behind(u, reg)] = val]

ComInit ==
  /\ is_open = [l \in ComLines |-> FALSE]
  /\ buffer_in = [l \in ComLines |-> new_queue([i \in Slots |-> 0])]
  /\ buffer_out = buffer_in
  /\ uart = [l \in ComLines |-> [ier |-> 0, lcr |-> 0, dll |-> 0, dlm |-> 0]]

\* The queues b once queue q of a line has been written to: what it has put
\* into a slot that it shares with a neighbour is in the neighbour's as well.
\* (The slot that line 4 has too many belongs to whatever lies behind.)
Written(b, line, q) ==
  [l \in ComLines |->
     IF l = line THEN q
     ELSE IF l = line + 1 THEN [b[l] EXCEPT !.data[0] = q.data[Capacity]]
     ELSE IF l = line - 1 THEN [b[l] EXCEPT !.data[Capacity] = q.data[0]]
     ELSE b[l]]

Divlo(baud) == (baud \div COM_BAUD_MAX) % 16
DataBits(data) == data - 5
StopBits(stop) == (stop - 1) * 4

\* Mutant of Program: the line's settings are stored with DLAB still set.
Program_KeepsDLAB(u, s) ==
  LET locked == Outb(Outb(u, 1, 0), 3, COM_DLAB)
      rated == Outb(Outb(locked, 0, Divlo(s.baud)), 1, 0)
      framed == Outb(rated, 3, COM_DLAB + DataBits(s.data) + StopBits(s.stop) + s.parity)
  IN  Outb(framed, 1, COM_INTERRUPT_ENABLE)

\* com_open's six writes to the device.
Program(u, s) ==
  LET locked == Outb(Outb(u, 1, 0), 3, COM_DLAB)
      rated == Outb(Outb(locked, 0, Divlo(s.baud)), 1, 0)
      framed == Outb(rated, 3, DataBits(s.data) + StopBits(s.stop) + s.parity)
  IN  Outb(framed, 1, COM_INTERRUPT_ENABLE)

Accepted(s) == s.data \in 5 .. 8 /\ s.stop \in 1 .. 2

com_open(line, s) ==
  /\ IF Accepted(s) /\ line \in ComLines
     THEN /\ is_open' = [is_open EXCEPT ![line] = TRUE]
          /\ uart' = [uart EXCEPT ![line] = Program(@, s)]
     ELSE UNCHANGED <<is_open, uart>>
  /\ UNCHANGED <<buffer_in, buffer_out>>

com_close(line) ==
  /\ line \in ComLines
  /\ uart' = [uart EXCEPT ![line] = Outb(@, 1, 0)]
  /\ IF is_open[line]
     THEN /\ is_open' = [is_open EXCEPT ![line] = FALSE]
          /\ buffer_out' = [buffer_out EXCEPT ![line] = clear_queue(@)]
          /\ buffer_in' = [buffer_in EXCEPT ![line] = clear_queue(@)]
     ELSE UNCHANGED <<is_open, buffer_out, buffer_in>>

CanUse(line) == line \in ComLines /\ is_open[line]

com_read(line) ==
  /\ CanUse(line)
  /\ buffer_in' = [buffer_in EXCEPT ![line] = dequeue(@)]
  /\ UNCHANGED <<is_open, buffer_out, uart>>

com_write(line, ch) ==
  /\ CanUse(line)
  /\ buffer_out' = Written(buffer_out, line, enqueue(buffer_out[line], ch))
  /\ UNCHANGED <<is_open, buffer_in, uart>>

SerialNext ==
  \E line \in Calls :
    \/ \E s \in Settings : com_open(line, s)
    \/ com_close(line)
    \/ com_read(line)
    \/ \E ch \in Chars : com_write(line, ch)

SerialSpec == ComInit /\ [][SerialNext]_svars

-----------------------------------------------------------------------------
\* Whatever order lines are opened, opened again, refused and closed in, the
\* flag and the device agree: an open line's device interrupts, with the frame
\* of an accepted request and the divisor latch out of the way; a closed one's
\* is silent, and nothing of what was written waits for the next to open it.
LinesAgree ==
  \A line \in ComLines :
    IF is_open[line]
    THEN /\ uart[line].ier = COM_INTERRUPT_ENABLE
         /\ \E s \in {t \in Settings : Accepted(t)} :
              uart[line].lcr = DataBits(s.data) + StopBits(s.stop) + s.parity
    ELSE /\ uart[line].ier = 0
         /\ buffer_in[line].size = 0 /\ buffer_out[line].size = 0

\* queue.h: the data of a queue are "an array of ints of length size".  The
\* lines' arrays are apart, so what waits to be sent on one line is not changed
\* by a call that changes what waits on another.
LinesKeepApart ==
  [][\A k, l \in ComLines :
       k # l /\ Held(buffer_out'[k]) # Held(buffer_out[k]) =>
         Held(buffer_out'[l]) = Held(buffer_out[l])]_svars
=============================================================================
