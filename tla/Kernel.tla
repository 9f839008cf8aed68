------------------------------- MODULE Kernel -------------------------------
(***************************************************************************)
(* The kernel's start and its interrupts: the loader and kmain up to the   *)
(* shell, the descriptor tables, the stubs of isrs.s, isr_handler and      *)
(* irq_handler, the system call that kmain makes, and panic; around them   *)
(* the processor's interrupt flag and the two interrupt controllers.       *)
(* What a driver's handler does is in the modules of the drivers.          *)
(***************************************************************************)
EXTENDS Integers, FiniteSets, Sequences

CONSTANTS
  Lines,            \* the interrupt request lines that devices raise
  Exceptions,       \* the processor exceptions that kernel code may meet
  Masked,           \* the lines that the firmware left masked
  MaxRaises         \* bound on raised lines, spurious ones and exceptions

ASSUME LinesAssumption == Lines \subseteq (0 .. 15) \ {2}
ASSUME ExceptionsAssumption == Exceptions \subseteq 0 .. 31

VARIABLES
  step, cpu,        \* where kmain is; "run", or how it has stopped
  limits,           \* whether the processor checks the limits of segments
  iflag,            \* the interrupt flag
  frames,           \* the interrupts in progress, the innermost last, each
                    \* with the flag it will restore
  idt, handlers,    \* vectors with a gate, and interrupt_handlers
  sys_funcs, fd,    \* registered system calls, and what open returned
  irr,              \* lines latched by the controllers
  master, slave,    \* lines in service
  raises

tables == <<idt, handlers, sys_funcs, fd>>
pic == <<irr, master, slave>>
vars == <<step, cpu, limits, iflag, frames, tables, pic, raises>>

-----------------------------------------------------------------------------
(***************************************************************************)
(* The tables.                                                             *)
(***************************************************************************)
IRQ0 == 32
PIC_SLAVE_IRQ_START == 40
ISR_SYSCALL == 128
Vector(line) == IRQ0 + line

\* The lines of the drivers that kmain initializes, by its step.
Driver == [pit |-> 0, rtc |-> 8, keyboard |-> 1, mouse |-> 12]

\* gdt_entries: null, kernel and user segments of code and of data.
Segment(exec, down, privl) == [present |-> TRUE, exec |-> exec, down |-> down,
                               privl |-> privl, limit |-> "4GiB"]
gdt_entries == <<[present |-> FALSE],
                 Segment(TRUE, FALSE, 0), Segment(FALSE, TRUE, 0),
                 Segment(TRUE, FALSE, 3), Segment(FALSE, TRUE, 3)>>

\* A data segment that grows down holds the offsets above its limit.
Usable(s) == s.present /\ ~(s.down /\ s.limit = "4GiB")

\* Selector 0x10, which gdt_flush and every stub load.
KernelData == gdt_entries[3]

\* idt_init's gates: exceptions, both controllers, the system call.
Gates == (0 .. 31) \union {Vector(n) : n \in 0 .. 15} \union {ISR_SYSCALL}

SYSCALLS == [none |-> 0, open |-> 1, close |-> 2]

\* next_fd: no descriptor is ever marked used, so the first is always free.
files_open == 0

\* The interrupt whose handler runs, and the frames without it.
InHandler(kinds) == frames # <<>> /\ frames[Len(frames)].kind \in kinds
Top == frames[Len(frames)]
Popped == SubSeq(frames, 1, Len(frames) - 1)

(***************************************************************************)
(* The controllers: lower lines first, those of the slave in place of 2.   *)
(***************************************************************************)
MasterLine(n) == IF n >= 8 THEN 2 ELSE n

Deliverable(n) ==
  /\ n \in irr \ Masked
  /\ \A m \in master : MasterLine(n) < m
  /\ n >= 8 => \A m \in slave : n < m

Before(n, m) == MasterLine(n) < MasterLine(m)
                \/ (MasterLine(n) = MasterLine(m) /\ n < m)

\* A non-specific end of interrupt ends the first line in service.
Eoi(service) == {n \in service : \E m \in service : m < n}

Raise(n) ==
  /\ raises < MaxRaises
  /\ n \notin irr
  /\ raises' = raises + 1
  /\ irr' = irr \union {n}
  /\ UNCHANGED <<step, cpu, limits, iflag, frames, tables, master, slave>>

-----------------------------------------------------------------------------
(***************************************************************************)
(* Taking an interrupt: without a gate, as before the kernel's table is    *)
(* loaded, the processor resets.                                           *)
(***************************************************************************)
Enter(vector, kind) ==
  IF vector \in idt
  THEN /\ frames' = Append(frames, [kind |-> kind, vector |-> vector, iflag |-> iflag])
       /\ iflag' = FALSE
       /\ UNCHANGED cpu
  ELSE /\ cpu' = "reset"
       /\ UNCHANGED <<frames, iflag>>

Alive == cpu \notin {"reset", "dead"}

Interrupt(n) ==
  /\ Alive /\ iflag
  /\ Deliverable(n) /\ \A m \in irr : Deliverable(m) => ~Before(m, n)
  /\ Enter(Vector(n), "irq")
  /\ irr' = irr \ {n}
  /\ master' = master \union {MasterLine(n)}
  /\ slave' = IF n >= 8 THEN slave \union {n} ELSE slave
  /\ UNCHANGED <<step, limits, tables, raises>>

\* A line that is gone when the processor asks is reported as the last line
\* of its controller, which does not take it into service.
Spurious(n) ==
  /\ Alive /\ iflag
  /\ raises < MaxRaises
  /\ raises' = raises + 1
  /\ Enter(Vector(n), "irq")
  /\ master' = IF n = 15 THEN master \union {2} ELSE master
  /\ UNCHANGED <<step, limits, tables, irr, slave>>

\* Both stubs return with an iret; their sti takes effect after it.
\* Mutant of ReturnFlag: the stub's sti comes an instruction earlier.
ReturnFlag_Sti == TRUE

\* The iret loads the flag the interrupt found.
ReturnFlag == Top.iflag

Return == iflag' = ReturnFlag /\ frames' = Popped

\* Mutant of irq_handler: a slave's interrupt is ended at the slave alone.
irq_handler_OneEoi ==
  /\ Alive /\ InHandler({"irq"})
  /\ slave' = IF Top.vector >= PIC_SLAVE_IRQ_START THEN Eoi(slave) ELSE slave
  /\ master' = IF Top.vector >= PIC_SLAVE_IRQ_START THEN master ELSE Eoi(master)
  /\ Return
  /\ UNCHANGED <<step, cpu, limits, tables, irr, raises>>

\* Mutant of irq_handler: only interrupts that have a handler are ended.
irq_handler_EoiIfHandled ==
  /\ Alive /\ InHandler({"irq"})
  /\ slave' = IF Top.vector >= PIC_SLAVE_IRQ_START THEN Eoi(slave) ELSE slave
  /\ master' = IF Top.vector \in handlers THEN Eoi(master) ELSE master
  /\ Return
  /\ UNCHANGED <<step, cpu, limits, tables, irr, raises>>

\* irq_handler calls the driver, or prints, and ends the interrupt at one or
\* both controllers.
irq_handler ==
  /\ Alive /\ InHandler({"irq"})
  /\ slave' = IF Top.vector >= PIC_SLAVE_IRQ_START THEN Eoi(slave) ELSE slave
  /\ master' = Eoi(master)
  /\ Return
  /\ UNCHANGED <<step, cpu, limits, tables, irr, raises>>

\* The handlers that return: what is registered, and a debug exception without
\* one.  A page fault's maps the page, or panics if the page was present; the
\* processor tells.
Returns(v) == v \in handlers \union {1}
Panics(v) == ~Returns(v) \/ v = 14

\* isr_handler calls what is registered, lets a debug exception pass, and
\* panics in the handler, with interrupts off, on any other.
isr_handler ==
  /\ Alive /\ InHandler({"isr", "open"})
  /\ \/ Returns(Top.vector) /\ Return /\ UNCHANGED cpu
     \/ Panics(Top.vector) /\ cpu' = "dead" /\ UNCHANGED <<iflag, frames>>
  /\ fd' = IF Top.kind = "open" /\ SYSCALLS.open \in sys_funcs THEN files_open ELSE fd
  /\ UNCHANGED <<step, limits, idt, handlers, sys_funcs, pic, raises>>

\* Kernel code meets an exception, at any step of kmain or in a handler, that
\* of another exception too; a page fault once paging is on.
Exception(v) ==
  /\ Alive /\ (cpu = "run" \/ frames # <<>>)
  /\ v = 14 => step \notin {"magic", "paging"}
  /\ raises < MaxRaises
  /\ raises' = raises + 1
  /\ Enter(v, "isr")
  /\ UNCHANGED <<step, limits, tables, pic>>

-----------------------------------------------------------------------------
(***************************************************************************)
(* kmain, a step at a time.                                                *)
(***************************************************************************)
At(s, next) == cpu = "run" /\ frames = <<>> /\ step = s /\ step' = next

\* The boot loader's magic number is checked. The kernel is taken to fit the
\* space it is allocated: one that does not is only reported.
CheckMagic ==
  /\ At("magic", "paging")
  /\ cpu' \in {"run", "hang"}
  /\ UNCHANGED <<limits, iflag, frames, tables, pic, raises>>

\* The page fault has a handler before it has a gate.
paging_init ==
  /\ At("paging", "gdt")
  /\ handlers' = handlers \union {14}
  /\ UNCHANGED <<cpu, limits, iflag, frames, idt, sys_funcs, fd, pic, raises>>

\* gdt_flush loads the data segments and returns through the stack, which a
\* processor that checks limits refuses: with no gate for the fault it resets.
gdt_init ==
  /\ At("gdt", "idt")
  /\ cpu' = IF limits /\ ~Usable(KernelData) THEN "reset" ELSE cpu
  /\ UNCHANGED <<limits, iflag, frames, tables, pic, raises>>

\* idt_init restarts the controllers, which forget what they had latched, sets
\* the gates and loads the table.
idt_init ==
  /\ At("idt", "syscall")
  /\ idt' = Gates
  /\ irr' = {} /\ master' = {} /\ slave' = {}
  /\ UNCHANGED <<cpu, limits, iflag, frames, handlers, sys_funcs, fd, raises>>

syscall_init ==
  /\ At("syscall", "open")
  /\ sys_funcs' = {SYSCALLS.none, SYSCALLS.open, SYSCALLS.close}    \* files_init
  /\ handlers' = handlers \union {ISR_SYSCALL}
  /\ UNCHANGED <<cpu, limits, iflag, frames, idt, fd, pic, raises>>

\* open: int 0x80 with interrupts off.
open ==
  /\ At("open", "pit")
  /\ Enter(ISR_SYSCALL, "open")
  /\ UNCHANGED <<limits, tables, pic, raises>>

isr_register(s, next) ==
  /\ At(s, next)
  /\ handlers' = handlers \union {Vector(Driver[s])}
  /\ UNCHANGED <<cpu, limits, iflag, frames, idt, sys_funcs, fd, pic, raises>>

Drivers ==
  \/ isr_register("pit", "rtc") \/ isr_register("rtc", "keyboard")
  \/ isr_register("keyboard", "mouse") \/ isr_register("mouse", "sti")

sti ==
  /\ At("sti", "acpi")
  /\ iflag' = TRUE
  /\ UNCHANGED <<cpu, limits, frames, tables, pic, raises>>

\* Without its tables acpi_init panics: main halts and then loops, and goes
\* on being interrupted.
acpi_init ==
  /\ At("acpi", "shell")
  /\ cpu' \in {"run", "panic"}
  /\ UNCHANGED <<limits, iflag, frames, tables, pic, raises>>

\* The shell ends by the shutdown command: acpi_shutdown does nothing and
\* the loader hangs, interrupts on.
Shutdown ==
  /\ At("shell", "hang")
  /\ cpu' = "hang"
  /\ UNCHANGED <<limits, iflag, frames, tables, pic, raises>>

kmain ==
  \/ CheckMagic \/ paging_init \/ gdt_init \/ idt_init \/ syscall_init
  \/ open \/ Drivers \/ sti \/ acpi_init \/ Shutdown

\* Mutant of Init: the loader does not clear the flag the firmware left set.
Init_NoCli ==
  /\ step = "magic" /\ cpu = "run" /\ limits \in BOOLEAN
  /\ iflag = TRUE /\ frames = <<>>
  /\ idt = {} /\ handlers = {} /\ sys_funcs = {} /\ fd = -1
  /\ irr \in SUBSET Lines /\ master = {} /\ slave = {}
  /\ raises = 0

\* The loader's cli; the firmware's timer and keyboard may have lines latched.
Init ==
  /\ step = "magic" /\ cpu = "run" /\ limits \in BOOLEAN
  /\ iflag = FALSE /\ frames = <<>>
  /\ idt = {} /\ handlers = {} /\ sys_funcs = {} /\ fd = -1
  /\ irr \in SUBSET Lines /\ master = {} /\ slave = {}
  /\ raises = 0

Next ==
  \/ \E n \in Lines : Raise(n) \/ Interrupt(n)
  \/ \E n \in {7, 15} : Spurious(n)
  \/ irq_handler \/ isr_handler
  \/ \E v \in Exceptions : Exception(v)
  \/ kmain

\* The processor takes interrupts, finishes handlers and runs main.
Spec ==
  /\ Init /\ [][Next]_vars
  /\ \A n \in Lines : WF_vars(Interrupt(n))
  /\ WF_vars(irq_handler \/ isr_handler) /\ WF_vars(kmain)

-----------------------------------------------------------------------------
Steps == {"magic", "paging", "gdt", "idt", "syscall", "open", "pit", "rtc",
          "keyboard", "mouse", "sti", "acpi", "shell", "hang"}

TypeOK ==
  /\ step \in Steps /\ cpu \in {"run", "hang", "panic", "dead", "reset"}
  /\ limits \in BOOLEAN /\ iflag \in BOOLEAN
  /\ frames \in Seq([kind : {"irq", "isr", "open"}, vector : 0 .. 255, iflag : BOOLEAN])
  /\ idt \subseteq 0 .. 255 /\ handlers \subseteq 0 .. 255
  /\ sys_funcs \subseteq 0 .. 255 /\ fd \in -1 .. 511
  /\ irr \subseteq Lines /\ master \subseteq 0 .. 7 /\ slave \subseteq 8 .. 15

\* The machine resets only by an exception of its own, gdt_flush's among them,
\* before it has loaded its table of gates.  From then on no interrupt, system
\* call or exception, in main or in a handler, finds its gate missing, and no
\* device or spurious interrupt does at any time.
ResetsOnlyEarly == cpu = "reset" => idt = {} /\ ~iflag

\* A device that a driver serves never interrupts before the driver has
\* registered its handler: interrupts stay off until kmain's sti, through
\* page faults, debug exceptions and the system call before it (isrs.s:149).
DriverFirst ==
  \A i \in DOMAIN frames :
    frames[i].kind = "irq" /\ frames[i].vector - IRQ0 \in {Driver[s] : s \in DOMAIN Driver}
      => frames[i].vector \in handlers

\* Between interrupts nothing is in service, whatever mixture of lines,
\* spurious interrupts and exceptions there was, those inside handlers too:
\* no line is left blocked.
NothingInService == frames = <<>> => master = {} /\ slave = {}

\* A line that is raised and not masked is served, once interrupts are on, if
\* no panic inside a handler stops the machine; also after main has ended or
\* has panicked.
RaisedIsServed ==
  \A n \in Lines \ Masked :
    (n \in irr /\ iflag) ~> (n \notin irr \/ ~Alive)
=============================================================================
