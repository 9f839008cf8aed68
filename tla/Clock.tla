------------------------------- MODULE Clock -------------------------------
(***************************************************************************)
(* The real-time clock's chip, its interrupt handler rtc_isr, and main,    *)
(* which reads the same chip for the date command through the same pair of *)
(* ports and sets the screen's cursor through a pair that the handler's    *)
(* message uses too.  Main takes one port access at a time; the handler is *)
(* not interrupted, but the chip ticks under its feet.                     *)
(*                                                                         *)
(* The chip holds the time in Registers; the conversion of what is read    *)
(* is module Calendar.  RTC_IRQ_FREQ, seconds and minutes are scaled down. *)
(***************************************************************************)
EXTENDS Integers, Sequences

CONSTANTS
  RTC_IRQ_FREQ,   \* interrupts a second, and the count that reads the time
  SECS, MINS,     \* seconds a minute, minutes until the time repeats; 255, where
                  \* prev_min starts, is none of them
  Positions,      \* where main puts the cursor: records of two bytes lo, hi
  TopLine,        \* where the handler's message leaves the hardware cursor
  MaxTicks        \* bound on the chip's periodic interrupts

ASSUME ClockAssumption ==
  RTC_IRQ_FREQ \in Nat \ {0} /\ SECS \in Nat \ {0} /\ MINS \in 2 .. 255

VARIABLES
  now, phase,     \* the chip: seconds, and interrupts since the second began
  sel, flag,      \* the register selected, and the flag in register C
  pending,        \* the interrupt controller has latched the interrupt
  ticks, missed,  \* history: the chip's interrupts, and those merged or masked
  count, prev_min,    \* rtc_isr's statics
  isr, isr_sec,       \* where rtc_isr is, and the seconds it has read
  said,               \* history: minutes since the last one told on time
  torn,               \* history: an update split its read
  pc, reg, dt,        \* main: step, register being read, what it has read
  pos, cursor,        \* main's cursor; the registers: index, lo, hi
  split               \* history: main's rtc_time was cut

chip == <<now, phase, sel, flag, pending, ticks, missed>>
handler == <<count, prev_min, isr, isr_sec, said, torn>>
main == <<pc, reg, dt, pos>>
cvars == <<chip, handler, main, cursor, split>>

Registers == <<"SEC", "MIN">>
STATC == "STATC"

Unread == <<-1, -1>>    \* a struct tm that rtc_time has yet to fill

\* What the data port gives for register r.
PortData(r) == CASE r = "SEC" -> now % SECS
             [] r = "MIN" -> now \div SECS
             [] OTHER -> -1

ClockInit ==
  /\ now \in 0 .. SECS * MINS - 1 /\ phase \in 0 .. RTC_IRQ_FREQ - 1
  /\ sel = "STATB" /\ flag = FALSE /\ pending = FALSE
  /\ ticks = 0 /\ missed = 0
  /\ count = 0 /\ prev_min = 255 /\ isr = "off" /\ isr_sec = 0
  /\ said = TRUE /\ torn = FALSE
  /\ pc = "idle" /\ reg = 1 /\ dt = Unread /\ split = FALSE
  /\ \E p \in Positions : pos = p /\ cursor = [index |-> "HI", lo |-> p.lo, hi |-> p.hi]

(***************************************************************************)
(* The chip: an edge on its line is latched, a flag left set gives none.   *)
(***************************************************************************)
Tick ==
  /\ ticks < MaxTicks
  /\ ticks' = ticks + 1
  /\ flag' = TRUE
  /\ pending' = (pending \/ ~flag)
  /\ missed' = IF flag \/ pending THEN missed + 1 ELSE missed
  /\ phase' = (phase + 1) % RTC_IRQ_FREQ
  /\ now' = IF phase' = 0 THEN (now + 1) % (SECS * MINS) ELSE now
  /\ said' = IF now' # now /\ now' % SECS = 0 THEN FALSE ELSE said
  /\ torn' = (torn \/ (now' # now /\ isr = "rest" /\ count = RTC_IRQ_FREQ))
  /\ split' = (split \/ (now' # now /\ pc # "idle" /\ reg > 1))
  /\ UNCHANGED <<sel, count, prev_min, isr, isr_sec, main, cursor>>

(***************************************************************************)
(* rtc_isr.                                                                *)
(***************************************************************************)
\* ++count, and at RTC_IRQ_FREQ the seconds, which rtc_time reads first.
IsrEnter ==
  /\ pending /\ isr = "off"
  /\ pending' = FALSE
  /\ isr' = "rest"
  /\ count' = count + 1
  /\ isr_sec' = PortData("SEC")
  /\ split' = (split \/ pc = "read")
  /\ UNCHANGED <<now, phase, sel, flag, ticks, missed, prev_min, said, torn,
                 main, cursor>>

\* Mutant of Announces: the message comes at the second before the minute.
Announces_SecBefore == isr_sec = SECS - 1 /\ prev_min # PortData("MIN")

Announces == isr_sec = 0 /\ prev_min # PortData("MIN")

\* The rest of the time is read, and the message leaves the cursor behind it.
IsrRead ==
  /\ isr = "rest" /\ count = RTC_IRQ_FREQ
  /\ count' = 0
  /\ prev_min' = PortData("MIN")
  /\ said' = (said \/ Announces)
  /\ cursor' = IF Announces THEN [index |-> "HI", lo |-> TopLine.lo, hi |-> TopLine.hi]
               ELSE cursor
  /\ UNCHANGED <<chip, isr, isr_sec, torn, main, split>>

\* Mutant of IsrAck: register C is selected but not read.
IsrAck_NoRead ==
  /\ isr = "rest" /\ count < RTC_IRQ_FREQ
  /\ isr' = "off"
  /\ sel' = STATC
  /\ UNCHANGED <<now, phase, flag, pending, ticks, missed, count, prev_min,
                 isr_sec, said, torn, main, cursor, split>>

\* Reading register C drops the chip's flag.
IsrAck ==
  /\ isr = "rest" /\ count < RTC_IRQ_FREQ
  /\ isr' = "off"
  /\ sel' = STATC
  /\ flag' = FALSE
  /\ UNCHANGED <<now, phase, pending, ticks, missed, count, prev_min, isr_sec,
                 said, torn, main, cursor, split>>

rtc_isr == IsrEnter \/ IsrRead \/ IsrAck

(***************************************************************************)
(* Main, while no handler runs: rtc_time for the date command.             *)
(***************************************************************************)
Date ==
  /\ pc = "idle" /\ isr = "off"
  /\ pc' = "select"
  /\ UNCHANGED <<chip, handler, reg, dt, pos, cursor, split>>

\* Mutant of Select: the first register is selected for every field.
Select_First ==
  /\ pc = "select" /\ isr = "off"
  /\ sel' = Registers[1]
  /\ pc' = "read"
  /\ UNCHANGED <<now, phase, flag, pending, ticks, missed, handler, reg, dt, pos,
                 cursor, split>>

Select ==
  /\ pc = "select" /\ isr = "off"
  /\ sel' = Registers[reg]
  /\ pc' = "read"
  /\ UNCHANGED <<now, phase, flag, pending, ticks, missed, handler, reg, dt, pos,
                 cursor, split>>

\* A read that the handler has turned to register C drops the flag.
ReadReg ==
  /\ pc = "read" /\ isr = "off"
  /\ dt' = [dt EXCEPT ![reg] = PortData(sel)]
  /\ flag' = (flag /\ sel # STATC)
  /\ pc' = IF reg = Len(Registers) THEN "told" ELSE "select"
  /\ reg' = IF reg = Len(Registers) THEN reg ELSE reg + 1
  /\ UNCHANGED <<now, phase, sel, pending, ticks, missed, handler, pos, cursor,
                 split>>

Told ==
  /\ pc = "told" /\ isr = "off"
  /\ pc' = "idle"
  /\ reg' = 1 /\ dt' = Unread /\ split' = FALSE
  /\ UNCHANGED <<chip, handler, pos, cursor>>

(***************************************************************************)
(* vga_write(VGA_ADDR_CURSOR, ...): gets_s polls, and every poll sets the  *)
(* cursor again; a key moves it.                                           *)
(***************************************************************************)
\* Mutant of Poll: the index of the low byte is left as it is.
Poll_NoIndex ==
  /\ pc = "idle" /\ isr = "off"
  /\ pos' \in Positions
  /\ pc' = "put_lo"
  /\ UNCHANGED <<chip, handler, reg, dt, split, cursor>>

Poll ==
  /\ pc = "idle" /\ isr = "off"
  /\ pos' \in Positions
  /\ cursor' = [cursor EXCEPT !.index = "LO"]
  /\ pc' = "put_lo"
  /\ UNCHANGED <<chip, handler, reg, dt, split>>

Out(c, byte) == IF c.index = "LO" THEN [c EXCEPT !.lo = byte]
                                  ELSE [c EXCEPT !.hi = byte]

PutLo ==
  /\ pc = "put_lo" /\ isr = "off"
  /\ cursor' = Out(cursor, pos.lo)
  /\ pc' = "index_hi"
  /\ UNCHANGED <<chip, handler, reg, dt, pos, split>>

\* Mutant of IndexHi: the index of the low byte again.
IndexHi_Lo ==
  /\ pc = "index_hi" /\ isr = "off"
  /\ cursor' = [cursor EXCEPT !.index = "LO"]
  /\ pc' = "put_hi"
  /\ UNCHANGED <<chip, handler, reg, dt, pos, split>>

IndexHi ==
  /\ pc = "index_hi" /\ isr = "off"
  /\ cursor' = [cursor EXCEPT !.index = "HI"]
  /\ pc' = "put_hi"
  /\ UNCHANGED <<chip, handler, reg, dt, pos, split>>

PutHi ==
  /\ pc = "put_hi" /\ isr = "off"
  /\ cursor' = Out(cursor, pos.hi)
  /\ pc' = "idle"
  /\ UNCHANGED <<chip, handler, reg, dt, pos, split>>

vga_write == Poll \/ PutLo \/ IndexHi \/ PutHi
rtc_time == Date \/ Select \/ ReadReg \/ Told

ClockNext == Tick \/ rtc_isr \/ rtc_time \/ vga_write

\* The processor runs the handler when it is due and main otherwise; main
\* polls again after every date.
ClockSpec ==
  /\ ClockInit /\ [][ClockNext]_cvars
  /\ WF_cvars(rtc_isr)
  /\ WF_cvars(vga_write \/ Select \/ ReadReg \/ Told) /\ SF_cvars(vga_write)

-----------------------------------------------------------------------------
CursorBytes == {p.lo : p \in Positions \union {TopLine}}
           \union {p.hi : p \in Positions \union {TopLine}}

TypeOK ==
  /\ now \in 0 .. SECS * MINS - 1 /\ phase \in 0 .. RTC_IRQ_FREQ - 1
  /\ sel \in {"STATB", "STATC", "SEC", "MIN"}
  /\ count \in 0 .. RTC_IRQ_FREQ /\ prev_min \in 0 .. MINS - 1 \union {255}
  /\ dt \in [{1, 2} -> -1 .. SECS + MINS] /\ reg \in {1, 2}
  /\ pos \in Positions
  /\ cursor \in [index : {"LO", "HI"}, lo : CursorBytes, hi : CursorBytes]

\* The clock is never deaf: whenever the chip's flag is up, which keeps its
\* line from giving another edge, the interrupt is latched or the handler is
\* on its way to drop the flag.  Main's reads that were turned to register C
\* do no harm.
NeverDeaf == flag => pending \/ isr = "rest"

\* Once the new minute's first second is over it has been told, unless an
\* interrupt was missed or an update split the handler's read (rtc.c:151).
EveryMinuteTold ==
  now % SECS >= 1 /\ missed = 0 /\ ~torn => said

\* The date that main prints is the chip's, unless the handler came between a
\* select and its read or the second changed (rtc.c, rtc_time).
DateIsTime ==
  pc = "told" /\ ~split => dt = <<now % SECS, now \div SECS>>

\* However the message cuts main's four port writes, when they are done the
\* high byte is main's, and the low byte main's or the message's (vga.c:84).
CursorHalfRight ==
  [][pc = "put_hi" /\ pc' = "idle" =>
       cursor'.hi = pos.hi /\ cursor'.lo \in {pos.lo, TopLine.lo}]_cvars

\* A message, even one that tears main's cursor apart, is made good by main's
\* polling: in the end the cursor stands where main put it.
CursorHeals ==
  <>[](pc = "idle" => cursor.lo = pos.lo /\ cursor.hi = pos.hi)
=============================================================================
