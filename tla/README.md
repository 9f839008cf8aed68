# Verification of AntaresOS in TLA+

AntaresOS is a small 32-bit x86 kernel in C: a text console, a keyboard, a
real-time clock, a heap, paging, system calls and a shell that runs with
interrupts enabled. Nothing in it is pre-emptive except interrupts. What is hard
in this code is therefore (a) state that main code and an interrupt handler
share without masking interrupts, (b) static state that one caller leaves for
the next, and (c) arithmetic at the edge of an 8-bit or 16-bit value, a buffer
or a screen.

This directory holds a TLA+ model of the parts where that matters, the TLC
configurations that check it and TLAPS proofs of the most important theorems.
`PROJECT.json` names the source lines each definition stands for. Paths below
are relative to the repository, source under `src/`.

## How to run

    tlc -config MCKeyBuffer.cfg MCKeyBuffer     # one run; all are listed below
    tlapm KeyBufferProofs.tla                   # one module of proofs

Two kinds of run exist. A run that *passes* shows that its properties hold on
the instance. A run that shows a *violation* checks what a comment of the code
promises and finds a behaviour of the code that breaks it; the `findings` of
`PROJECT.json` quote the comment. For every property of a passing run the
module it is about also holds a *mutant*, a definition with one plausible bug
(`enqueue_KeepsOldest` beside `enqueue`); put in the place of the original, it
makes the property fail.

## Inventory

| Component | State it keeps | Operations | Talks to | What is hard | What makes it correct | Module |
|---|---|---|---|---|---|---|
| queue (`lib/queue/queue.c`) | `size`, `in`, `out`, `data` | `new_queue`, `enqueue`, `dequeue`, `clear_queue` | keyboard, serial ports | overflow drops the oldest; indices wrap one late | counters agree; a lossy FIFO | `QueueOps`, `Queue`, `LossyFifo` |
| keyboard buffer (`dev/keyboard.c`) | one queue, shared by handler and main | handler's `enqueue`; `keyboard_get_key`, `keyboard_clear_buffer` | console | handler interrupts `dequeue` and `clear_queue` anywhere | no stroke invented, lost or reordered | `KeyBuffer` |
| keyboard decoding and line input (`dev/keyboard.c`, `lib/std/stdio.c`, `lib/std/ctype.c`, `kernel.c`) | `mod_state`, `led_state`; the line | `keyboard_isr`; `console_read`, `gets_s`, the shell's loop | keyboard buffer, console | prefixed codes; echo and line are edited by two different rules | the line is what was typed and what is shown | `Keyboard`, `Ctype` |
| mutex (`lib/std/pthread.c`) | `lock`, `count` | `trylock`, `lock`, `unlock` | any thread | decrement and undo overlap; spinning | mutual exclusion; a free mutex is taken | `Mutex`, `AbstractMutex` |
| console (`hal/console.c`) | cursor, colors, escape parser, saved cursor | `console_write`, `console_read`, `console_flush` | VGA, keyboard, the clock's handler | handler prints through the same statics | screen shows the text; a message disturbs nothing | `ConsoleOps`, `Page`, `Console` |
| clock (`dev/rtc.c`) and cursor ports (`dev/vga.c`) | the chip's index port, `count`, `prev_min`; VGA's index port | `rtc_isr`, `rtc_time`; `vga_write` | console | index and data ports shared by handler and main | never deaf; time shown was the time; cursor heals | `Clock` |
| calendar (`dev/rtc.c`, `tools/date`) | none | conversions of `rtc_time`, `day_of_week`, `date_leap_year` | clock | BCD, 12 hours, leap years | the Gregorian calendar | `Calendar` |
| boot and interrupts (`loader.s`, `kernel.c`, `sys/interrupt/`, `sys/syscall.c`, `panic.c`) | gates, handler table, interrupt flag, controllers | `kmain`, `isr_handler`, `irq_handler`, `isr_register`, `syscall_init`, `open`, panic | every driver | order of initialisation; end of interrupt at two controllers | no reset; every raised line served | `Kernel` |
| paging (`sys/paging.c`) | directories and tables | `paging_init`, page fault | interrupts | one table for all faults | the kernel stays mapped | `Paging` |
| mouse (`dev/mouse.c`) | packet, position | `mouse_init`, `mouse_isr` | keyboard controller | ports shared with the keyboard; a packet over three interrupts; 8-bit sums | settings kept; position follows the packets | `Mouse` |
| serial ports (`dev/com.c`) | `is_open`, eight queues, registers | `com_open`, `com_close`, `com_read`, `com_write` | queue | registers behind the divisor latch; reopened ports | flag, device and queues agree | `Serial` |
| tables and ACPI (`dev/sdt.c`, `hal/acpi.c`) | table pointers | `sdt_init` | boot | where the search looks and what it believes | the first pointer decides | `Sdt` |
| heap (`lib/std/stdlib.c`) | blocks in a heap space | `heap_init`, `malloc`, `free` | none yet | splitting and merging | users' words are their own | `Heap` |
| signals and constraints (`lib/std/signal.c`, `constraint.c`, `stdlib.c`) | handlers, mask, constraint handler | `raise`, `signal`, `sighold`, ..., `abort` | panic | held signals, handlers inside handlers | abort does not return | `Signals` |
| strings (`lib/std/string.c`) | none | `memmove`, `strcpy`, ... | all | overlapping ranges, signed characters | the C library's definitions | `Strings` |
| formatted output (`lib/std/stdio.c`) | none | `printf`, `putnum` and those above it | console | signs, padding, flags | the number printed is the number given | `Format` |

How they interact: `kmain` (`kernel.c`) initialises everything, enables
interrupts and loops over `console_desc.flush()` and `gets_s`. `gets_s` polls
`console_read`, which takes a stroke from the keyboard buffer and echoes it with
`console_write`. Meanwhile `keyboard_isr` puts strokes into the same buffer and,
once a minute, `rtc_isr` prints the time through the same console. Interrupt
gates and the `cli` of the stubs keep a handler from being interrupted, so a
handler is atomic for main while main is not atomic for a handler. The models
are split along these lines: each shared structure has a module in which main
takes one memory or port access a step and the handler one step
(`KeyBuffer`, `Console`, `Clock`); `Keyboard` composes the driver, the buffer,
the echo and the shell at the level of whole calls; `Kernel` says when a
handler can run at all.

## What is modelled

### Queue: `QueueOps`, `Queue`, `LossyFifo`

`QueueOps` holds the four operations of `queue.c` as operators on the struct.
`data` has `Capacity + 1` slots, the last being the word after the array,
because the code wraps an index only when it is greater than `capacity`: once
`in` gets there, `enqueue` writes one word past the array it was given.
`Queue` is the sequential state machine, `LossyFifo` what `queue.h` promises:
a bounded FIFO that drops its oldest value. `Queue` implements `LossyFifo` with
`contents <- Held(q)`, the `size` values from `out` on round the ring.

### Keyboard buffer: `KeyBuffer`

The handler's `enqueue` is one step; main's `keyboard_get_key` and
`keyboard_clear_buffer` are one step per memory access. The Makefile sets no
optimisation, so `--(q->size)` is a load and a later store, and the value
returned is read before the count is changed. Strokes are numbered, so that
order and loss can be stated. The history variables `unread`, `overflow` and
`raced` say what a reader should get, whether the buffer has been full, and
whether a stroke fell between the first two stores of a clear.

What holds, always: no index is left past the ring (`HeadOnRing`). What holds
as long as nothing overflowed and no clear was hit (`Clean`): `size` never
counts a stroke that is not there (`NeverOvercounts`) and every stroke taken is
the oldest (`TakesOldest`), *although* counts are lost. After any overflow, too,
a clear brings nothing back that was typed before it, unless a stroke falls
between its stores (`ClearForgets`); `kmain` calls `console_desc.flush()` with
interrupts enabled before every line, so that window is real. What does not
hold is shown by `key_buffer_order`: a stroke whose count is lost stays unseen
until the next, and lost counts make a later overflow come too late, so that
newer strokes come before older ones (`KeysInOrder`).

### Mutex: `Mutex`, `AbstractMutex`

A step is one access to `lock` or `count`; `lock xchg` is atomic. `Mutex`
implements `AbstractMutex` (taken when free, freed by its owner) with
`owners <- Owners`, the threads from the test that succeeds in `trylock` to the
increment in `unlock`. The caller's obligations that the code does not check
are in the guards of `CallLock` and `CallUnlock`.

### Console: `ConsoleOps`, `Page`, `Console`

`ConsoleOps` has every function of `console.c` on a record of its static
variables, 8-bit narrowing included. `Console` runs main's `console_write` in
the steps between which an interrupt finds a different state (character read,
cell stored, column advanced, line ended, line scrolled), and `RtcPrint`, the
whole `printf` of `rtc_isr`, between any two of them. One character of an
escape sequence and one scroll are single steps: an interrupt inside them is
not modelled. `Page` is the reference: text on a page that never scrolls, with
tab stops, line ends and backspaces by the position on the page.

`ScreenShowsPage` says that the screen is a window on that page.
`CursorOnScreen` says that no character is ever stored off the screen, with any
sequences and messages. `MessageTransparent` says that a message that comes
when main is at rest changes only the top line. `console_torn` shows that a
message inside a sequence of main's tears it. Two more disagreements were met
and have no run of their own: a message between an advance of the column and
its test loses a line feed, and `ESC [ J` erases nothing (`ESC [ 1 J` erases the
wrong cells by the same miscount).

### Keyboard and shell: `Keyboard`, `Ctype`

Keys go down and up; the keyboard turns them into scan codes, with the `0xE0`
prefix and the shifts that it sends of its own around a prefixed key
(`FakeShift`). `keyboard_isr` is one step a code: `mod_state`, `led_state`, the
maps, `enqueue`. The shell is `PutPrompt`, `console_flush`, `gets_s` (a key a
step, with the echo of `console_read` and the edit of the line) and
`RunCommand`. Histories: `meant` is what was typed since the flush, `lost` that
the buffer overflowed or a stroke was blurred by a modifier, `plain` that no key
came that the echo and `gets_s` treat differently (a tab, a character past the
line's size, a backspace on an empty line).

`ModifiersFollowKeys`: once all codes are delivered the modifier bits are those
of the keys held, in spite of the prefix that the driver does not tell apart.
`LineIsTyped`: the line and the buffer together are what was typed.
`ScreenShowsLine`: the line shown is the line kept. `EnterEndsLine`: an Enter in
the buffer ends the line. The keys of the model stand for the classes the code
tells apart: both shifts, a lock, a letter, a key without a picture, the editing
keys and a prefixed key. `keyboard_set_led`, which nothing calls, is left out.

### Clock: `Clock`, `Calendar`

The chip ticks, raises its flag and its line, and counts seconds and minutes.
`rtc_isr` is three steps (enter and read the seconds; read the rest, announce;
acknowledge), because the chip ticks under it; main takes one port access a
step, in `rtc_time` for the date command and in `vga_write` for the cursor.
RTC_IRQ_FREQ (1024), 60 and 60 are constants scaled down. Histories: `missed`
interrupts, `torn` (an update inside the handler's read), `split` (a new second
or the handler inside main's read).

`NeverDeaf` is the reason why main's wrong reads of register C do no harm.
`EveryMinuteTold` and `DateIsTime` say in which windows alone a minute goes
untold and a date is wrong. `CursorHalfRight` and `CursorHeals` say that a
message inside main's four writes can leave only the low byte wrong, and that
polling repairs it. `Calendar` walks the days to 2032 and converts each.

### Kernel: `Kernel`

`step` follows `kmain` from the loader to the end of the shell; `iflag` is the
interrupt flag, `frame` the interrupt in progress with the flag it will
restore. The controllers (external) latch, mask and order their lines; both
stubs, `isr_handler` and `irq_handler` are actions. Devices raise lines at any
time, spurious interrupts and exceptions included; where panic is entered
decides whether interrupts go on. `NeverResets`, `DriverFirst` and
`NothingInService` are the safety of this, `RaisedIsServed` the liveness.

`LimitsChecked` is the processor's: `gdt_entries` makes the data segments grow
down from a limit of 4 GiB (dt.c:251), so that a processor that checks limits
finds no valid offset in them and resets at `gdt_flush`. Emulators that do not
check run the kernel; the run and the theorem assume one of those. With
`LimitsChecked` TRUE, TLC finds `NeverResets` violated.

### Devices: `Mouse`, `Serial`, `Paging`, `Sdt`

Four components without shared state; `MCDevices` runs one of them in each
behaviour.

`Mouse` writes `mouse_init` as the sequence of its port accesses and waits, run
against the keyboard controller while keys are pressed and waits time out;
`mouse_isr` then takes packets. `SettingsKept`: unless something came in
between, the settings are those the controller had, with the mouse enabled.
`PointerFollowsMouse`: the pointer is where the packets lead, as long as nothing
disturbed the initialisation and the 8-bit sum did not wrap (past column 127 the
code ends at the left).

`Serial` has the registers of the device as well, with the divisor latch in
front of the interrupt register. `LinesAgree` relates flag, device and queues
after calls in any order. Met on the way and modelled as it is: the divisor is
inverted (`baud / COM_BAUD_MAX`) and its high byte is always 0; `com_isr` is
empty, so that nothing is ever received or sent.

`Paging` has the tables and the processor's walk, with its copy of the top
level. `MapsLastFault`: the kernel's pages are never lost, a page that is
waited for below 1 GiB gets its mapping, any other mapping is the last fault's.
Above 1 GiB a page faults for ever, because the processor's copy is not
reloaded; the property says so by leaving the address unmapped.

`Sdt` searches two areas for a pointer, two 16-byte slots at a time as the code
does (sdt.c:82, whose comment puts a signature on any 16-byte boundary), and
sums what it found.
`FirstPointerDecides`: the result is that of the first pointer in a slot looked
at, good or not.

### Library: `Heap`, `Signals`, `Calendar`, `Strings`, `Format`

`MCLibrary` likewise runs one of them in each behaviour.

`Heap` has the words of a heap space with the headers in them. `HeapSound`:
users' words are disjoint, inside used blocks, and the counters add up, until a
block is freed next to one that is in use: `free` looks at a neighbour's size
and not at its flag (stdlib.c:117, whose comment says "is free"), and the run
goes no further there. The first block is one word too long, and words
past the end are taken to be 0.

`Signals` lets users' handlers make calls inside `raise`. `AbortEnds`: abort
returns only if SIGABRT is held, ignored or caught, and what `signal` returns
restores what it replaced unless the signal was held. Met on the way: SIGKILL
and SIGSTOP can be caught (signal.h:30 and 33 say they cannot), and a signal
raised while held is dropped.

`Strings` calls every function on every memory of five bytes; a loop is a
recursive function of the passes that it has made, when it copies, or that it can
still make, when it searches. `Format` does every conversion of every number of six
bits. `Digits` is the recursion of `__putnum_actual`, a recursive function of the
quotient; what its deepest call prints before the first digit is `Padding`. A
character is a number: its digit's value, or a negative one for a sign, a space and
the flags between `%` and the letter. A field width wraps like any unsigned. The
properties are references with the
exceptions the code has: `strcpy` copies no terminator, and downwards goes on
below the source; `memccpy` from above stops at the last match; `memchr` never
finds a negative character; `%u` shows a number with its top bit set as
negative; `putint` prints no minus. `rtc_time` reads two ports of another chip
for status register B: the conversion is right if they read 0 and the chip
counts in BCD, but for 12 am and 12 pm in 12-hour mode (`DateConverted`).

## Runs

| Run | Instance | Shows |
|---|---|---|
| `queue` | capacity 3, values 0 to 2 | types, `IndicesAgree`, refinement of `LossyFifo` |
| `key_buffer` | capacity 2, 6 strokes | types, `HeadOnRing`, `NeverOvercounts`, `TakesOldest`, `ClearForgets` |
| `key_buffer_order` | capacity 2, 8 strokes, no clear, at most one stroke a call | violation: newer strokes first |
| `mutex` | 3 threads, fair | types, `CountGuarded`, `MutualExclusion`, refinement, `FreeMutexTaken` |
| `console` | 2 lines of 8, 6 strings or keys | `ScreenShowsPage` |
| `console_message` | 2 lines of 8, 4 strings or keys, 1 message | types, `CursorOnScreen`, `MessageTransparent` |
| `console_torn` | the same | violation: the message moves main's cursor |
| `keyboard` | 9 keys, 4 presses, line of 2 characters, ring of 3 | `ModifiersFollowKeys`, `LineIsTyped`, `ScreenShowsLine`, `EnterEndsLine` |
| `clock` | 2 interrupts a second, minutes of 2 seconds, 7 ticks | `NeverDeaf`, `EveryMinuteTold`, `DateIsTime`, `CursorHalfRight`, `CursorHeals` |
| `kernel` | 5 lines of both controllers, 3 exceptions, 4 raises | `NeverResets`, `DriverFirst`, `NothingInService`, `RaisedIsServed` |
| `devices` | see below | `SettingsKept`, `PointerFollowsMouse`, `LinesAgree`, `MapsLastFault`, `FirstPointerDecides` |
| `library` | see below | `HeapSound`, `AbortEnds`, `DateConverted`, `StringsAgree`, `FormatRight` |

Why the bounds are enough.

*Queue*: capacity 3 has every relation of `in` and `out` (equal and empty, equal
distance to either end of the ring, wrapped, full), and the state space is
complete, without a bound. *Key buffer*: with capacity 2 six strokes fill the
ring of three slots twice, so that overflow and each index's wrap fall into
every step of a call; `MaxKeys` bounds only the length of a behaviour. *Mutex*:
three threads give a holder, a thread inside `trylock`'s undo and a third that
overlaps both; the state space is complete, and symmetry is not used, because
liveness is checked in the same run. *Console*: two lines of two tab stops have
a first, a last and an inner column and row; six strings of up to three
characters scroll the screen and backspace over the line's end, and one message
is placed between any two steps.

*Keyboard*: four presses with their releases hold two shifts and a prefixed key
at once, fill the line past its size, and overflow the ring. *Clock*: seven
ticks pass three seconds and so a new minute, with interrupts merged and missed;
two registers suffice for a read that a second splits. *Kernel*: two lines of the
master above each other, two of the slave's side, one without a driver; four
raises let each of them meet another in service, an exception and a spurious
interrupt. *Devices*: three packets of four headers' and movements' classes; four
callers' line numbers, two of them not lines, with good and refused settings;
tables of three entries, so that two pages can share and two not share an
index; areas of five and six slots. *Library*: four allocations of three sizes on
twenty words split, fill, merge and refuse; four calls of signals with handlers
two deep; every day to 2032, which has nine leap years; all memories of five
bytes with a zero, a positive and a negative value (`ByteRange` is 8 for 256); all six-bit
numbers (`HighBit` is 32 for 2^31) in four bases, fields of up to nine characters, which
are more than six binary digits and a sign, and up to three flags.

Every `Max...` constant bounds the length of behaviours and nothing else; a run
stops when it is used up, and the system may really stop at the shell's end or
in a panic, so deadlock is checked in `queue` and `mutex` and in
`key_buffer`, and not in the runs whose .cfg says so.

Fairness. `mutex`: weak fairness of each thread's steps inside a call, a
scheduler that runs every thread again; no thread has to make a call. Under that
assumption alone an `unlock` may starve, since spinning `trylock`s can hold the
lock word each time it looks; that liveness is not claimed. `keyboard` and
`kernel`: the processor takes a pending interrupt once interrupts are on, ends
the handler and runs main; there is one processor and no scheduler, so nothing
else can keep either from running. `RaisedIsServed` needs, besides, that the
other lines are raised finitely often (`MaxRaises`): a higher line raised for ever
keeps a lower one out. `clock`: the same, and that main polls again and again
(strong fairness of `vga_write`), which is `gets_s`'s loop: each command comes
back to it.

## Theorems

All are proved for every value of the constants, from the assumptions named in
the modules. Most of these are what the declarations in C say (`Capacity \in Nat`,
lines 0 to 15 without the cascade, exceptions 0 to 31, parities as in com.h). The
others: a minute has a second at least and an hour two minutes
(`ClockAssumption`; the last of them keeps a minute from being 255, the value
that `prev_min` starts with); tables have two entries at least; a heap space
holds four words at least, two being the header of its first block, and its size
is below the used flag (`HeapAssumption`); the calendar's walk ends in the
century that the chip counts, and the mouse's and the keyboard's codes are those
of the devices. Those of the console describe what the kernel writes. Lines hold
whole tab stops (`TabAssumption`; 80 columns, stops of 4). No text holds an ESC, and
`console_read` echoes what `isprint` or `isspace` accepts, never an ESC
(`TextsAssumption`). A sequence has at most 16 characters and ends with a letter that
performs it (`SequencesAssumption`): so `pos` stays inside `buffer`, which nothing in
`proc_escape` sees to. A color's parameters are of at most two digits and none is 8,
the parameter that conceals (`ColorsAssumption`): every color string of the
repository is such. `VROWS` and `VCOLS` are any numbers from 2 to 127
(`ScreenAssumption`), what an `int8_t` holds. A memory has any size, and its bytes are
any set with 0 in it of numbers below `ByteRange`, 256 in the code and here any number
from 2 (`MemoryAssumption`, `ByteAssumption`). An int has any range from -`HighBit` to
`HighBit - 1`, and bases are any from 2 to 35 that include printf's own
(`FormatAssumption`; from 36 on the code prints digits in decimal, which nothing asks
for). Nothing is assumed about `Threads`. `KernelSafe` assumes
`~LimitsChecked`.

Proofs are in seven modules by component (`QueueProofs`, `KeyBufferProofs`,
`KeyboardProofs`, `ConsoleProofs`, `KernelProofs`; `DevicesProofs` for the clock, the
mouse, the serial ports, paging and the tables; `LibraryProofs` for the mutex, signals, the
calendar, the heap, the strings and the numbers) and in `CommonLemmas`, which has what several of them
need: induction on the naturals and what `enqueue` and `dequeue` make of the
values held.

| Theorem | States |
|---|---|
| `QueueSafe` | `TypeOK` and `IndicesAgree` of `Queue` |
| `QueueImplementsFifo` | `Queue` refines `LossyFifo` |
| `KeyBufferBounds` | `TypeOK` and `HeadOnRing` of `KeyBuffer` |
| `KeyBufferNeverOvercounts` | `NeverOvercounts` |
| `KeyBufferTakesOldest` | the action property `TakesOldest` |
| `KeyBufferForgets` | the action property `ClearForgets` |
| `KeyboardSafe` | `ModifiersFollowKeys`, `LineIsTyped`, `ScreenShowsLine` |
| `CursorStaysOnScreen` | `CursorOnScreen` of `Console` |
| `MessageIsTransparent` | the action property `MessageTransparent` |
| `ConsoleIsTyped` | `TypeOK` of `Console` |
| `ScreenIsWindow` | `ScreenShowsPage` |
| `MutexSafe` | `TypeOK`, `CountGuarded`, `MutualExclusion` |
| `MutexImplementsAbstract` | `Mutex` refines `AbstractMutex` |
| `KernelSafe` | `NeverResets`, `DriverFirst`, `NothingInService` |
| `ClockSafe` | `NeverDeaf`, `DateIsTime` |
| `ClockTells` | `EveryMinuteTold` |
| `ClockCursor` | the action property `CursorHalfRight` |
| `MouseSafe` | `SettingsKept`, `PointerFollowsMouse` |
| `SerialSafe` | `LinesAgree` |
| `PagingSafe` | `MapsLastFault` |
| `SdtSafe` | `FirstPointerDecides` |
| `SignalsSafe` | `AbortEnds` |
| `CalendarRight` | `DateConverted` |
| `HeapSafe` | `HeapSound` |
| `StringsSafe` | `StringsAgree` |
| `FormatSafe` | `FormatRight` |

*Queue.* `TypeOK /\ IndicesAgree` is inductive. The refinement needs that the
slot written is none of the `size` slots held, which is the injectivity of
`SlotAfter` on the ring (`RingInjective` of `CommonLemmas`).

*Key buffer.* `HeadOnRing` alone is not inductive: `Bounds` adds that a call in
progress has found a stroke and its count is still there when it stores it.
`TakesOldest` needs to know where the unread strokes are. `Ring` says that
while the buffer is clean they lie in the slots from the oldest one on, up to
`in`, that `size` is not more than their number and that a call in progress
has the oldest one in hand. The inductive invariant is
`KeyInv == Bounds /\ (Clean => Ring)`: once unclean, always unclean, so the
implication survives every step. This is where the proof says more than the
runs: a lost count never breaks the order while the ring has room.
`ClearForgets` holds of buffers that have overflowed, too, where `Ring` says
nothing. `ForgetInv == Bounds /\ (~raced => Fresh)` replaces it: until the strokes
since the last clear have gone once round the ring, `size` can only be too small,
so that `out` stays behind `in` (`FirstLap`); from then on no slot holds a stroke
of before the clear.

*Keyboard.* Six invariants, each inductive with those before it
(`KeyboardInv`). `ModInv`: what the codes still on the wire will do to `mod_state`
makes it the modifiers of the keys held; the codes that the keyboard invents
around a prefixed key come in pairs that undo each other. `CapsInv` says the same
of the light. `LineInv`: editing the line by the strokes in the ring and by
those typed since the flush gives the same line, which needs what `EditAll`
does to a sequence with one key more at either end (`EditAllAppend`,
`EditAllHead`). `EditAll` is a recursive function; that it exists, and these
lemmas, are by induction over the keys. The library's induction theorems take
an operator and cannot be used here; `Induction` of `CommonLemmas` is about a
set instead and follows from the naturals being well-founded. `ScreenInv` and
`Alone` say what the echo has shown, and that only a key of the plain kinds came.

*Console.* The state is one record, which most steps replace by the result of an
operator. So the proof starts with a lemma for each operator of `ConsoleOps`: what it
gives for a console that is `Sane` (fields in the ranges of their types), as an
equation where it is one (`ShowLineIs`, `WritePrintableIs`), else as what it
leaves alone. Four invariants follow.

`ConsoleInv` (for `CursorOnScreen`) adds to the types in which steps of
`console_write` the cursor may be off the screen: after the column is advanced and
until the end of the line is handled, and then by one column or one row only.
It holds for a message between any two steps, because the message, too, goes
through `console_write` and each of its 26 characters keeps `Sane`.

`MessageTransparent` follows the message character by character
(`MessageSaves`, `MessageGoesHome`, `MessageErases`, `MessageReverses`,
`MessagePrints`, `MessageUnreverses`, `MessageRestores`): what is saved is what is
restored, nothing between them reaches the second line, and reverse video is undone
because it was off.

`ParserInv` (for `TypeOK`) counts: the parser has read no more parameters than the
sequence has characters gone, and what is left of a sequence in `out` ends with its
letter; so the parser is at rest when the next string begins, and `pos` stays below
16, unless a message cuts in, which only brings `pos` back to 0.

`PageInv` (for `ScreenShowsPage`) says of each step inside a string what the screen
will show when the string is done. `Shows(c, p)` is the window on the page;
`Leads(p, s, q)` that writing what is left of `s` turns page `p` into `q`; `Finished`
is what the character in hand makes of the console once its steps are through, so
that the invariant does not have to name a page for a half-written character. A page
lemma for each case relates the two: `WriteShown`, `NewlineShown`, `LeftShown`, and
`TabIsSpaces`, where the page moves to a stop and the console writes spaces until
the stop or the end of the line (here the lines must hold whole stops).
`Coloring` is the other half: a color leaves cells and cursor alone, and since
`Reading` keeps the parameters read so far away from 8, nothing is concealed after it.

*Mutex.* Mutual exclusion is not inductive because `count` is read and written
in separate steps. `MutexInv` adds `Balance`, which says that `count` is 1 minus
the owners and the decrements not yet undone, counting one that is loaded and
not stored as not yet made, and for each thread what its register holds
(`Local`). The lock word makes the decrements not yet undone at most one, and
so `count >= 0` in the test means that nobody owns the mutex.

*Kernel.* None of the three properties is inductive. `OffUntilSti` adds that the
flag is off until `sti` and, which is the point, that so is the flag every
interrupt in progress will restore; `GatesSet` that the gates appear all at
once; `Registered` which handlers each step of `kmain` may count on;
`InService` that each controller has at most the line of the interrupt in
progress in service. A handler's non-specific end of interrupt ends the first
line in service, so "at most one" is what makes it end the right one
(`EoiClears`).

*Clock.* `DateInv` says what each step of the read may rely on while nothing has
cut it: the selected register is main's and no handler is running, and the
seconds read are still the chip's. `CursorInv` follows the index register: the
message leaves the high byte selected, so a write of main's low byte either goes
where it belongs or leaves the message's low byte there. `EveryMinuteTold` needs
that the handler reads the time once in every second. `MinuteInv` counts the
interrupts of this second that were counted or are latched: as long as none was
missed, they are more than those since the second began (`Due`) exactly until
the time has been read, and what the read has yet to say is this second's
minute.

*Mouse.* `Stage` says for each of the port accesses of `mouse_init` what the
controller still has to take, what it has answered and what its settings are;
`Packets` relates the driver's place to the pointer's by the bytes of the
packet that it has not taken yet. Both hold until another source puts a byte on
the data port (`disturbed`); what holds even then are the types (`Bytes`).

*Paging.* The invariant says that only the first entry of the first directory
names the kernel's table and that the shared table is the table of last faults.
A fault is never for a kernel page (`KernelIsMapped`), because the walk finds
those; that is why the tables the kernel needs are never written.

*Serial.* `LinesAgree` lacks that the divisor latch is closed between calls, which
`SerialInv` adds and `FrameInRange` gives for every accepted request; without it
`com_close` would not reach the interrupt register.

*Tables.* `SearchInv`: the search stands on a slot of its own parity, and no slot
it has looked at has a pointer; `ResultInv` relates the result to the slot it
stands on.

*Signals.* `SignalsInv` says that the mask and the handler of SIGABRT are what was
asked of `signal` and `sighold` last, in any depth of handlers. That `signal` is
undone by what it returned is a fact about one call (`Undone`).

*Calendar.* The weekday formula counts on at the end of a day, a month and a year
(`NextMonth`, `NextYear`), so that it agrees with counting the days; the hours'
conversion is split by the flag for the afternoon (`HourBack`).

*Heap.* `HeapSound` is about the blocks that malloc's walk passes, a recursive
function of the words. `Chain` says what the headers look like: a block ends where
the next one begins or at the end of the space, and knows the one before it;
`Users` that each used block has its user and that the used blocks lie at the
front. The walk passes exactly the blocks of a chain (`WalkPasses`, by
induction on its steps). While no used block was joined only the last block can
be free, since `free` joins two blocks whatever their flags: so `malloc` never
chooses between blocks (`OneFree`) and `free` is of the only block there is
(`FreedAlone`). This is the plainest statement of what the missing test of the
flag costs: the heap keeps its users apart only as long as a space never has
two users when one of them frees his words.

*Strings.* No step changes the memory, so what is to be shown is a fact about every
memory. A recursive function has the value its definition gives only where such a
function exists, which is shown first for each loop by adding one pass
(`SearchExists`, `CopyExists`, `UntilExists`, `TextExists`). A loop that searches
ends at the least index that stops it or, when none does, at its end (`SearchEnds`,
from which `MemchrIs`, `MemcmpIs`, `StrlenIs` and `StrncmpIs` follow). A loop that
copies has after k passes moved the first k bytes, or the last k, of the block
as it was (`MovedIn`), because the pass reads a byte that no pass before it has
written: that is where the direction is needed (`CopyUp`, `CopyDown`, `UntilUp`,
`UntilDown`, `TextUp`, `TextDown`). The mutant that copies upwards always is refused
at `memmoveMoves`.

*Formatted numbers.* Here, too, nothing moves, and the fact is about every number, base,
width and string of flags. Two recursions are related: the code's, which takes the
last digit off (`Digits`), and a reader's, who goes from left to right (`Value`). Both
functions are shown to exist first (`DigitsExist`, `ValueExists`). By induction on the
number, its digits are a numeral without leading zeros, and read behind anything that
is worth nothing (`Dull`: blanks, signs, zeros) they give the number (`DigitsRead`). What
`putnum` puts before them is such a start (`PaddingIs`, `NumberPrinted`), with a minus
in it exactly where the code finds room for one, and is as long as the width leaves
(`NumberRead`, `ReadLength`). `CodeSigned` is the edge: the most negative number negated
is itself, and printed as the unsigned number that it is the code of. The flags of a
directive never make it anything but a directive (`ParseTyped`, by induction on
their number), so that `printf` asks only for what `putnum` was shown to do.

No obligation of a proof holds more than one CASE expression: the prover's
translation of two in one is not to be trusted, and the models' definitions that
proofs unfold are written with IF for that reason.

Only model-checked: liveness (`FreeMutexTaken`, `EnterEndsLine`, `CursorHeals`,
`RaisedIsServed`), which is out of the prover's reach. Every invariant and every other
action property that a passing run checks is a theorem. No module declares a recursive
operator: what a loop or a recursion of the code computes is a recursive function,
whose existence the proofs show by induction, since the prover takes no recursive
operator.

## Not modelled

| Part | Why |
|---|---|
| random numbers (`hal/rand.c`) | 32-bit arithmetic on 624 words; no property in a model checker's reach |
| memory map (`dev/ram.c`), PCI, ATA, BIOS data area, shell tools | they read and print what hardware reports |
| interval timer (`dev/pit.c`) | a counter that no code reads |
| null and zero devices | constant results |
| `close`, `files_close`, the search of `next_fd` | never called, and no descriptor is ever marked used, so `open` always returns 0 (`Kernel`) |
| `keyboard_set_led`, `sdt_read`, `putfloat`, `%c %s %n %f`, separators of `putnum`, `sigemptyset` and `sigfillset`, several heap spaces | called by nothing, or read only, or reference-free |
| more than 16 parameters in an escape sequence, a saved cursor of main's, a thread that locks a mutex it holds | the repository has no such caller; listed as hazards |
| an interrupt inside one character of an escape sequence or inside one scroll | single steps of `Console` |
| instruction timing, several processors in the kernel, floating point, pixels and fonts | outside what these models are about |

## Plan

What would add most next: several heap spaces in `Heap`, once `heap_init` is called
by the kernel; a run of `Console` in which a scroll takes more than one step.
